------------------------------ MODULE RelayLink ------------------------------
(***************************************************************************)
(* What the relay and the two clients of a session share: the control      *)
(* connection of each client, one JSON line per message.  A connection is  *)
(* two FIFO channels.  The client's side of a channel includes its         *)
(* MessageQueues, which the receiver task fills in the order of arrival:   *)
(* a reader takes the first message of the kind and connection it wants    *)
(* and leaves the others where they are.                                   *)
(*                                                                         *)
(* A connection that has ended - by either side or by the network - takes  *)
(* no more messages; each side learns of it on its own.                    *)
(*                                                                         *)
(* Not modelled, because no side acts on them: keepalive, ping and their   *)
(* answers, peer_added_ports, the reasons and texts of messages.           *)
(***************************************************************************)
EXTENDS Integers, Sequences, FiniteSets

CONSTANTS
  NumConns,      \* tcp_connections of the session
  MaxAttempts    \* max_attempts: failures in a row before a connection is given up

ASSUME LinkAssumption ==
  /\ NumConns \in Nat \ {0}
  /\ MaxAttempts \in Nat \ {0}

Roles == {"sender", "receiver"}
Conns == 0 .. NumConns - 1
Other(p) == IF p = "sender" THEN "receiver" ELSE "sender"

\* A local port: the slot of bound_sockets it was bound for, and which binding of
\* that slot it is.  Every new binding is a new port.
Ports == Conns \X Nat

VARIABLES
  toServer,   \* per role, lines on the way to the relay
  toClient,   \* per role, lines on the way to the client or in its queues
  cut         \* the roles whose control connection has ended

link == <<toServer, toClient, cut>>

----------------------------------------------------------------------------
Msg ==
  [type : {"registered", "probes_complete"}]
    \cup [type : {"ready", "retry_request", "conn_established", "conn_abandoned",
                  "go", "retry_granted", "retry_rejected"}, conn : Conns]
    \cup [type : {"register", "add_ports", "ports_added_ack"}, ports : Seq(Ports)]
    \cup [type : {"peer_info"}, conn : Conns, port : Ports]

Bare(t) == [type |-> t]
OfConn(t, n) == [type |-> t, conn |-> n]
OfPorts(t, ports) == [type |-> t, ports |-> ports]
PeerInfo(n, port) == [type |-> "peer_info", conn |-> n, port |-> port]

LinkTypeOK ==
  /\ toServer \in [Roles -> Seq(Msg)]
  /\ toClient \in [Roles -> Seq(Msg)]
  /\ cut \subseteq Roles

LinkInit ==
  /\ toServer = [p \in Roles |-> <<>>]
  /\ toClient = [p \in Roles |-> <<>>]
  /\ cut = {}

\* A channel after a line has been written to it.
Written(channel, p, m) ==
  IF p \in cut THEN channel ELSE [channel EXCEPT ![p] = Append(@, m)]

\* send_message of the relay, to one client or to both (in one go: the lines are
\* short and drain() does not wait for the client).
Tell(p, m) == toClient' = Written(toClient, p, m)
TellBoth(m) ==
  toClient' = [p \in Roles |-> IF p \in cut THEN toClient[p] ELSE Append(toClient[p], m[p])]

\* The next line of client p is of type t.
Line(p, t) == toServer[p] # <<>> /\ Head(toServer[p]).type = t
TakeLine(p) == toServer' = [toServer EXCEPT ![p] = Tail(@)]

\* The places in client p's queues that hold a message of type t for connection n.
Places(p, t, n) ==
  {i \in DOMAIN toClient[p] : toClient[p][i].type = t /\ toClient[p][i].conn = n}
=============================================================================
