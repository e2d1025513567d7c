----------------------------- MODULE PunchClient -----------------------------
(***************************************************************************)
(* A client's way from registration to its punched streams: src/relay.rs   *)
(* (run_relay_protocol) and src/connection (establish_multi_connections,   *)
(* its state machine, message queues and queue readers).                   *)
(*                                                                         *)
(* For each connection in turn the client waits for peer_info, says READY, *)
(* waits for GO and punches.  A failure of any of these asks the relay for *)
(* a retry with a new port; max_attempts failures in a row give the        *)
(* connection up.  Losing the control connection ends the coordination and *)
(* keeps the streams already there.                                        *)
(*                                                                         *)
(* A punch is one step with either outcome.  A stream needs both clients:   *)
(* it can come to be only once both have been punching the connection at   *)
(* the same time.  Time limits are separate actions; the module that       *)
(* composes the system says when they may pass.                            *)
(***************************************************************************)
EXTENDS RelayLink

CONSTANTS
  MaxPunchFails,   \* bound: punches that fail
  MaxBindFails     \* bound: ports that cannot be bound

ASSUME ClientAssumption == MaxPunchFails \in Nat /\ MaxBindFails \in Nat

VARIABLES
  cPc,      \* where the client stands: the states of ConnectionState, and before
  after,    \* where it goes on once its add_ports has been answered
  reported, \* the ports of that add_ports
  conn,     \* conn_num
  fails,    \* failures_in_a_row
  sockets,  \* bound_sockets: which binding each slot holds
  newest,   \* the latest binding made for each slot
  info,     \* the peer's port in the peer_info of the current attempt
  saved,    \* the receiver's saved_first_peer_info
  met,      \* since it began to punch, the other has punched the same connection
  streams,  \* the connections it holds a stream for
  lost,     \* the receiver task has queued "Transport lost"
  unfilled, \* history: the roles that left a retry they were granted without a port
  punchFails, bindFails

progress == <<conn, fails, met, streams>>
portVars == <<sockets, newest>>
infoVars == <<info, saved>>
bounds == <<unfilled, punchFails, bindFails>>
melden == <<after, reported>>
client == <<cPc, melden, progress, portVars, infoVars, lost, bounds>>

ClientPcs == {"register", "registered", "first", "extra", "head", "peerinfo", "ready", "go",
              "punch", "failed", "retry", "ack", "ok", "err"}
NoPort == <<-1, 0>>

ClientTypeOK ==
  /\ cPc \in [Roles -> ClientPcs]
  /\ after \in [Roles -> {"head", "peerinfo"}]
  /\ reported \in [Roles -> Seq(Ports)]
  /\ conn \in [Roles -> 0 .. NumConns]
  /\ fails \in [Roles -> 0 .. MaxAttempts - 1]
  /\ sockets \in [Roles -> Seq(Nat)]
  /\ newest \in [Roles -> [Conns -> Nat]]
  /\ info \in [Roles -> Ports \cup {NoPort}]
  /\ saved \in [Roles -> Ports \cup {NoPort}]
  /\ met \in [Roles -> BOOLEAN]
  /\ streams \in [Roles -> SUBSET Conns]
  /\ lost \in [Roles -> BOOLEAN]
  /\ unfilled \subseteq Roles
  /\ punchFails \in Nat /\ bindFails \in Nat

\* A client binds as many ports as its own --tcp-connections asks for, if it can; the
\* receiver takes the number of connections from the sender.
ClientInit ==
  /\ cPc = [p \in Roles |-> "register"]
  /\ after = [p \in Roles |-> "head"]
  /\ reported = [p \in Roles |-> <<>>]
  /\ conn = [p \in Roles |-> 0]
  /\ fails = [p \in Roles |-> 0]
  /\ \E bind \in [Roles -> 1 .. NumConns] :
       sockets = [p \in Roles |-> [i \in 1 .. bind[p] |-> 0]]
  /\ newest = [p \in Roles |-> [n \in Conns |-> 0]]
  /\ info = [p \in Roles |-> NoPort]
  /\ saved = [p \in Roles |-> NoPort]
  /\ met = [p \in Roles |-> FALSE]
  /\ streams = [p \in Roles |-> {}]
  /\ lost = [p \in Roles |-> FALSE]
  /\ unfilled = {}
  /\ punchFails = 0 /\ bindFails = 0

----------------------------------------------------------------------------
Goto(p, pc) == cPc' = [cPc EXCEPT ![p] = pc]
Send(p, m) == toServer' = Written(toServer, p, m)
\* ports_melden, up to the wait for the acknowledgement.
Report(p, ports, pc) ==
  /\ Send(p, OfPorts("add_ports", ports))
  /\ Goto(p, "ack")
  /\ after' = [after EXCEPT ![p] = pc]
  /\ reported' = [reported EXCEPT ![p] = ports]
\* The port the client holds in slot n now.
Port(p, n) == <<n, sockets[p][n + 1]>>

\* A reader takes the first message of its kind for this connection, unless the
\* receiver task has queued an error: that is looked at first, and stays.
Receive(p, t) ==
  /\ ~lost[p]
  /\ Places(p, t, conn[p]) # {}
  /\ LET i == CHOOSE j \in Places(p, t, conn[p]) : \A k \in Places(p, t, conn[p]) : j <= k
     IN toClient' = [toClient EXCEPT ![p] = SubSeq(@, 1, i - 1) \o SubSeq(@, i + 1, Len(@))]

\* What the reader above takes.
First(p, t) ==
  toClient[p][CHOOSE j \in Places(p, t, conn[p]) : \A k \in Places(p, t, conn[p]) : j <= k]

\* The client is through: it drops its control connection.
Leave(p, pc) ==
  /\ Goto(p, pc)
  /\ cut' = cut \cup {p}

\* A write with `?` fails once the connection has ended; the error leaves
\* establish_multi_connections, and its streams with it.
WriteError(p) ==
  /\ p \in cut
  /\ Goto(p, "err")
  /\ streams' = [streams EXCEPT ![p] = {}]

\* On to the next connection.
Abandon(p) ==
  /\ Send(p, OfConn("conn_abandoned", conn[p]))
  /\ conn' = [conn EXCEPT ![p] = @ + 1]
  /\ fails' = [fails EXCEPT ![p] = 0]
  /\ Goto(p, "head")

\* Mutant: one attempt too many.
FailOneMore(p) ==
  IF fails[p] + 1 > MaxAttempts
  THEN Abandon(p)
  ELSE /\ fails' = [fails EXCEPT ![p] = @ + 1]
       /\ Goto(p, "failed")
       /\ UNCHANGED <<conn, toServer>>

\* One failure more: give up this connection or ask for a retry.
Fail(p) ==
  IF fails[p] + 1 >= MaxAttempts
  THEN Abandon(p)
  ELSE /\ fails' = [fails EXCEPT ![p] = @ + 1]
       /\ Goto(p, "failed")
       /\ UNCHANGED <<conn, toServer>>

----------------------------------------------------------------------------
(* run_relay_protocol.                                                     *)

CRegister(p) ==
  /\ cPc[p] = "register"
  /\ Send(p, OfPorts("register", [i \in DOMAIN sockets[p] |-> <<i - 1, 0>>]))
  /\ Goto(p, "registered")
  /\ UNCHANGED <<melden, progress, portVars, infoVars, lost, bounds, toClient, cut>>

\* into_inner drops what the BufReader has read ahead of `registered`.
CRegistered(p) ==
  /\ cPc[p] = "registered"
  /\ toClient[p] # <<>>
  /\ \E i \in 1 .. Len(toClient[p]) :
       toClient' = [toClient EXCEPT ![p] = SubSeq(@, i + 1, Len(@))]
  /\ Send(p, Bare("probes_complete"))
  /\ Goto(p, IF p = "receiver" THEN "first" ELSE "extra")
  /\ UNCHANGED <<melden, progress, portVars, infoVars, lost, bounds, cut>>

\* The server closed the connection, or did not answer in time.
CRegisterFail(p) ==
  /\ cPc[p] = "registered" /\ p \in cut
  /\ Goto(p, "err")
  /\ UNCHANGED <<melden, progress, portVars, infoVars, lost, bounds, link>>

CFirstPeerInfo(p) ==
  /\ cPc[p] = "first"
  /\ Receive(p, "peer_info")
  /\ saved' = [saved EXCEPT ![p] = First(p, "peer_info").port]
  /\ Goto(p, "head")
  /\ UNCHANGED <<melden, progress, portVars, info, lost, bounds, toServer, cut>>

CFirstFail(p) ==
  /\ cPc[p] = "first" /\ lost[p]
  /\ Goto(p, "err")
  /\ UNCHANGED <<melden, progress, portVars, infoVars, lost, bounds, link>>

CFirstTimeout(p) ==
  /\ cPc[p] = "first" /\ ~lost[p]
  /\ Leave(p, "err")
  /\ UNCHANGED <<melden, progress, portVars, infoVars, lost, bounds, toServer, toClient>>

----------------------------------------------------------------------------
(* The head of the loop over connections, and sockets_bis.                 *)

\* The sender first binds the ports it is short of, as many as it can.
CExtra(p) ==
  /\ cPc[p] = "extra"
  /\ \E k \in 0 .. NumConns - Len(sockets[p]) :
       /\ bindFails' = IF Len(sockets[p]) + k < NumConns THEN bindFails + 1 ELSE bindFails
       /\ bindFails' <= MaxBindFails
       /\ sockets' = [sockets EXCEPT ![p] = @ \o [i \in 1 .. k |-> 0]]
       /\ IF k = 0 THEN Goto(p, "head") /\ UNCHANGED <<melden, toServer>>
          ELSE Report(p, [i \in 1 .. k |-> <<Len(sockets[p]) + i - 1, 0>>], "head")
  /\ UNCHANGED <<progress, newest, infoVars, lost, unfilled, punchFails, toClient, cut>>

CFinish(p) ==
  /\ cPc[p] = "head" /\ conn[p] = NumConns
  /\ Leave(p, "ok")
  /\ UNCHANGED <<melden, progress, portVars, infoVars, lost, bounds, toServer, toClient>>

CBind(p) ==
  /\ cPc[p] = "head" /\ conn[p] < NumConns /\ Len(sockets[p]) <= conn[p]
  /\ sockets' = [sockets EXCEPT ![p] = Append(@, 0)]
  /\ Report(p, <<<<Len(sockets[p]), 0>>>>, "head")
  /\ UNCHANGED <<progress, newest, infoVars, lost, bounds, toClient, cut>>

\* No port, or no way to report it: this connection is given up on the spot.  A port
\* that was bound stays bound.
CBindFail(p) ==
  /\ cPc[p] = "head" /\ conn[p] < NumConns /\ Len(sockets[p]) <= conn[p]
  /\ \/ /\ bindFails < MaxBindFails /\ bindFails' = bindFails + 1
        /\ UNCHANGED sockets
     \/ /\ p \in cut /\ UNCHANGED bindFails
        /\ sockets' = [sockets EXCEPT ![p] = Append(@, 0)]
  /\ Abandon(p)
  /\ UNCHANGED <<melden, met, streams, newest, infoVars, lost, unfilled, punchFails, toClient,
                 cut>>

CStart(p) ==
  /\ cPc[p] = "head" /\ conn[p] < NumConns /\ Len(sockets[p]) > conn[p]
  /\ IF conn[p] = 0 /\ saved[p] # NoPort
     THEN /\ info' = [info EXCEPT ![p] = saved[p]]
          /\ saved' = [saved EXCEPT ![p] = NoPort]
          /\ Goto(p, "ready")
     ELSE /\ Goto(p, "peerinfo")
          /\ UNCHANGED infoVars
  /\ UNCHANGED <<melden, progress, portVars, lost, bounds, link>>

----------------------------------------------------------------------------
(* The state machine of one connection.                                    *)

CPeerInfo(p) ==
  /\ cPc[p] = "peerinfo"
  /\ Receive(p, "peer_info")
  /\ info' = [info EXCEPT ![p] = First(p, "peer_info").port]
  /\ Goto(p, "ready")
  /\ UNCHANGED <<melden, progress, portVars, saved, lost, bounds, toServer, cut>>

CReady(p) ==
  /\ cPc[p] = "ready"
  /\ Send(p, OfConn("ready", conn[p]))
  /\ Goto(p, "go")
  /\ UNCHANGED <<melden, progress, portVars, infoVars, lost, bounds, toClient, cut>>

CGo(p) ==
  /\ cPc[p] = "go"
  /\ Receive(p, "go")
  /\ Goto(p, "punch")
  /\ LET q == Other(p)
     IN met' = IF cPc[q] = "punch" /\ conn[q] = conn[p] THEN [r \in Roles |-> TRUE] ELSE met
  /\ UNCHANGED <<melden, conn, fails, streams, portVars, infoVars, lost, bounds,
                 toServer, cut>>

\* The report may be lost with the connection; the stream is kept.
CEstablished(p) ==
  /\ cPc[p] = "punch" /\ met[p]
  /\ met' = [met EXCEPT ![p] = FALSE]
  /\ streams' = [streams EXCEPT ![p] = @ \cup {conn[p]}]
  /\ Send(p, OfConn("conn_established", conn[p]))
  /\ conn' = [conn EXCEPT ![p] = @ + 1]
  /\ fails' = [fails EXCEPT ![p] = 0]
  /\ Goto(p, "head")
  /\ UNCHANGED <<melden, portVars, infoVars, lost, bounds, toClient, cut>>

CPunchFail(p) ==
  /\ cPc[p] = "punch" /\ met[p]
  /\ met' = [met EXCEPT ![p] = FALSE]
  /\ punchFails < MaxPunchFails /\ punchFails' = punchFails + 1
  /\ Fail(p)
  /\ UNCHANGED <<melden, streams, portVars, infoVars, lost, unfilled, bindFails, toClient,
                 cut>>

\* The whole time for punching passes without the other client.
CPunchAlone(p) ==
  /\ cPc[p] = "punch" /\ ~met[p]
  /\ Fail(p)
  /\ UNCHANGED <<melden, met, streams, portVars, infoVars, lost, bounds, toClient, cut>>

CRetryRequest(p) ==
  /\ cPc[p] = "failed"
  /\ Send(p, OfConn("retry_request", conn[p]))
  /\ Goto(p, "retry")
  /\ UNCHANGED <<melden, progress, portVars, infoVars, lost, bounds, toClient, cut>>

\* A rejection is looked for before a grant.
CRetryRejected(p) ==
  /\ cPc[p] = "retry"
  /\ Receive(p, "retry_rejected")
  /\ Fail(p)
  /\ UNCHANGED <<melden, met, streams, portVars, infoVars, lost, bounds, cut>>

Granted(p) ==
  /\ cPc[p] = "retry"
  /\ Places(p, "retry_rejected", conn[p]) = {}
  /\ Receive(p, "retry_granted")

\* Granted: a new port takes the place of the old one and is reported.
Rebind(p) ==
  LET g == newest[p][conn[p]] + 1
  IN /\ newest' = [newest EXCEPT ![p][conn[p]] = g]
     /\ sockets' = [sockets EXCEPT ![p][conn[p] + 1] = g]

CRetryGranted(p) ==
  /\ Granted(p)
  /\ Rebind(p)
  /\ Report(p, <<<<conn[p], newest'[p][conn[p]]>>>>, "peerinfo")
  /\ UNCHANGED <<progress, infoVars, lost, bounds, cut>>

\* The connection is given up, and the relay is not told that no port will come.
CRebindFail(p) ==
  /\ Granted(p)
  /\ bindFails < MaxBindFails /\ bindFails' = bindFails + 1
  /\ unfilled' = unfilled \cup {p}
  /\ Abandon(p)
  /\ UNCHANGED <<melden, met, streams, portVars, infoVars, lost, punchFails, cut>>

\* READY, retry_request and all but sockets_bis' add_ports are written with `?`.
CWriteError(p) ==
  /\ \/ cPc[p] \in {"ready", "failed"} /\ UNCHANGED <<toClient, portVars>>
     \/ cPc[p] = "extra" /\ Len(sockets[p]) < NumConns /\ UNCHANGED <<toClient, portVars>>
     \/ Granted(p) /\ Rebind(p)
  /\ WriteError(p)
  /\ UNCHANGED <<melden, conn, fails, met, infoVars, lost, bounds, toServer, cut>>

----------------------------------------------------------------------------
(* Waiting for the acknowledgement of add_ports; its absence is no error.  *)

Acks(p) == {i \in DOMAIN toClient[p] : toClient[p][i].type = "ports_added_ack"}

CAck(p) ==
  /\ cPc[p] = "ack" /\ ~lost[p] /\ Acks(p) # {}
  /\ LET i == CHOOSE j \in Acks(p) : \A k \in Acks(p) : j <= k
         own == toClient[p][i].ports = reported[p]
     IN /\ toClient' = [toClient EXCEPT ![p] = SubSeq(@, 1, i - 1) \o SubSeq(@, i + 1, Len(@))]
        /\ cPc' = [cPc EXCEPT ![p] = IF own THEN after[p] ELSE "ack"]
  /\ UNCHANGED <<melden, progress, portVars, infoVars, lost, bounds, toServer, cut>>

CAckMissing(p) ==
  /\ cPc[p] = "ack"
  /\ Goto(p, after[p])
  /\ UNCHANGED <<melden, progress, portVars, infoVars, lost, bounds, link>>

CAckError(p) == lost[p] /\ CAckMissing(p)
CAckTimeout(p) == ~lost[p] /\ CAckMissing(p)

----------------------------------------------------------------------------
(* Losing the control connection.                                          *)

\* spawn_message_receiver reads the end of the connection and queues the error.
CNotice(p) ==
  /\ p \in cut /\ ~lost[p]
  /\ cPc[p] \notin {"register", "registered", "ok", "err"}
  /\ lost' = [lost EXCEPT ![p] = TRUE]
  /\ UNCHANGED <<cPc, melden, progress, portVars, infoVars, bounds, link>>

\* A reader that finds it gives this connection up, ends the coordination and keeps
\* the streams.
CTransportLost(p) ==
  /\ cPc[p] \in {"peerinfo", "go", "retry"} /\ lost[p]
  /\ Goto(p, "ok")
  /\ UNCHANGED <<melden, progress, portVars, infoVars, lost, bounds, link>>

\* Mutant: a limit that passes is not counted as a failure.
CTimeoutUncounted(p) ==
  /\ cPc[p] \in {"peerinfo", "go", "retry"} /\ ~lost[p]
  /\ Goto(p, "failed")
  /\ UNCHANGED <<melden, conn, fails, met, streams, portVars, infoVars, lost, bounds, link>>

\* No answer within the limit of the state.
CTimeout(p) ==
  /\ cPc[p] \in {"peerinfo", "go", "retry"} /\ ~lost[p]
  /\ Fail(p)
  /\ UNCHANGED <<melden, met, streams, portVars, infoVars, lost, bounds, toClient, cut>>

Client(p) ==
  \/ CRegister(p) \/ CRegistered(p) \/ CRegisterFail(p) \/ CFirstPeerInfo(p)
  \/ CFirstFail(p) \/ CExtra(p) \/ CFinish(p) \/ CBind(p) \/ CBindFail(p) \/ CStart(p)
  \/ CPeerInfo(p) \/ CReady(p) \/ CGo(p) \/ CRetryRequest(p) \/ CRetryRejected(p)
  \/ CRetryGranted(p) \/ CRebindFail(p)
  \/ CWriteError(p) \/ CAck(p) \/ CAckError(p) \/ CNotice(p) \/ CTransportLost(p)

----------------------------------------------------------------------------
\* The client is waiting, and what it waits for is not in its queues.
ClientWaits(p) ==
  \/ cPc[p] \in {"ok", "err"}
  \/ cPc[p] = "punch" /\ ~met[p]
  \/ /\ p \notin cut /\ ~lost[p]
     /\ \/ cPc[p] \in {"first", "peerinfo"} /\ Places(p, "peer_info", conn[p]) = {}
        \/ cPc[p] = "go" /\ Places(p, "go", conn[p]) = {}
        \/ /\ cPc[p] = "retry"
           /\ Places(p, "retry_granted", conn[p]) = {}
           /\ Places(p, "retry_rejected", conn[p]) = {}
        \/ cPc[p] = "ack" /\ Acks(p) = {}
        \/ cPc[p] = "registered" /\ toClient[p] = <<>>
=============================================================================
