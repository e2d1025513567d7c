----------------------------- MODULE RelayServer -----------------------------
(***************************************************************************)
(* The relay's part in one session: server/relay/server.py, handlers.py,   *)
(* coordinator.py and server/session_manager.py.  Two clients register     *)
(* under one session id, report their probing, and are then led from one   *)
(* connection to the next: peer_info to both, READY from both, GO to both, *)
(* a result from both.                                                     *)
(*                                                                         *)
(* Everything runs on one asyncio loop.  The sections under the session's  *)
(* lock contain no await, so the lock is never contended, and a handler    *)
(* runs from one line to the next without interruption: each is one        *)
(* action.  Coordinators are tasks that look at the session every 50 or    *)
(* 100 ms; each look is one action.                                        *)
(*                                                                         *)
(* Abstracted: what peer_info carries besides the peer's port (candidates, *)
(* NAT analysis), reasons, the retry's scan width.  A session id is used   *)
(* once: each role registers at most once.                                 *)
(***************************************************************************)
EXTENDS RelayLink

\* Tasks of coordinate_multi_connections: each client says probes_complete once, and
\* only that starts one.
Coordinators == 1 .. 2
NoTask == 0

VARIABLES
  serving,    \* the roles whose wait_for_peer_messages (or registration) is running
  member,     \* session.sender, session.receiver; {} when there is no session
  probing,    \* needs_probing: the roles whose NAT does not preserve ports
  probed,     \* the roles with probes_done
  bound,      \* bound_ports
  ready,      \* ready_for_connection
  result,     \* conn_results, of the session as of the peer
  asked,      \* retry_requested
  granted,    \* the connections in retry_pending
  mapped,     \* which roles have sent their new port, per connection
  timer,      \* retry_tasks: the connections whose 45 s timeout is running
  coPc, coConn,  \* the coordinators and the connection each is at
  held,       \* session.koordination
  retryNew,   \* retry coordinators created and not yet run, per connection
  retryWait   \* ... and waiting for both to be ready

peers == <<probed, bound, ready, result, asked>>
retries == <<granted, mapped, timer>>
retryTasks == <<retryNew, retryWait>>
tasks == <<coPc, coConn, held, retryTasks>>
server == <<serving, member, probing, peers, retries, tasks>>

CoStates == {"unused", "start", "port", "ready", "result", "end", "gaveup"}
Outcomes == {"none", "established", "abandoned"}

ServerTypeOK ==
  /\ serving \subseteq Roles /\ member \subseteq Roles
  /\ probing \subseteq Roles /\ probed \subseteq Roles
  /\ bound \in [Roles -> Seq(Ports)]
  /\ ready \in [Roles -> SUBSET Conns]
  /\ result \in [Roles -> [Conns -> Outcomes]]
  /\ asked \in [Roles -> SUBSET Conns]
  /\ granted \subseteq Conns
  /\ mapped \in [Conns -> SUBSET Roles]
  /\ timer \subseteq Conns
  /\ coPc \in [Coordinators -> CoStates]
  /\ coConn \in [Coordinators -> Conns]
  /\ held \in Coordinators \cup {NoTask}
  /\ retryNew \in [Conns -> Nat]
  /\ retryWait \in [Conns -> Nat]

ServerInit ==
  /\ serving = Roles
  /\ member = {}
  /\ probing \in SUBSET Roles
  /\ probed = {}
  /\ bound = [p \in Roles |-> <<>>]
  /\ ready = [p \in Roles |-> {}]
  /\ result = [p \in Roles |-> [n \in Conns |-> "none"]]
  /\ asked = [p \in Roles |-> {}]
  /\ granted = {}
  /\ mapped = [n \in Conns |-> {}]
  /\ timer = {}
  /\ coPc = [k \in Coordinators |-> "unused"]
  /\ coConn = [k \in Coordinators |-> 0]
  /\ held = NoTask
  /\ retryNew = [n \in Conns |-> 0]
  /\ retryWait = [n \in Conns |-> 0]

----------------------------------------------------------------------------
(* The lines of a client, in the order they come.                          *)

Reads(p, t) == p \in serving /\ Line(p, t) /\ TakeLine(p)

\* A client without a changed port has nothing to probe.
SRegister(p) ==
  /\ Reads(p, "register")
  /\ member' = member \cup {p}
  /\ bound' = [bound EXCEPT ![p] = Head(toServer[p]).ports]
  /\ probed' = IF p \in probing THEN probed ELSE probed \cup {p}
  /\ Tell(p, Bare("registered"))
  /\ UNCHANGED <<serving, probing, ready, result, asked, retries, tasks, cut>>

\* Mutant: only one coordinator is ever started.
SProbesCompleteOnce(p) ==
  /\ Reads(p, "probes_complete")
  /\ probed' = probed \cup {p}
  /\ IF member = Roles /\ probed' = Roles /\ held = NoTask
     THEN coPc' = [coPc EXCEPT ![1] = "start"] /\ held' = 1
     ELSE UNCHANGED <<coPc, held>>
  /\ UNCHANGED <<serving, member, probing, bound, ready, result, asked, retries,
                 coConn, retryTasks, toClient, cut>>

\* Each probes_complete that finds both sides done starts a coordinator.
SProbesComplete(p) ==
  /\ Reads(p, "probes_complete")
  /\ probed' = probed \cup {p}
  /\ IF member = Roles /\ probed' = Roles
     THEN \E k \in Coordinators :
            /\ coPc[k] = "unused" /\ \A j \in 1 .. k - 1 : coPc[j] # "unused"
            /\ coPc' = [coPc EXCEPT ![k] = "start"]
            /\ held' = k
     ELSE UNCHANGED <<coPc, held>>
  /\ UNCHANGED <<serving, member, probing, bound, ready, result, asked, retries,
                 coConn, retryTasks, toClient, cut>>

SReady(p) ==
  /\ Reads(p, "ready")
  /\ ready' = [ready EXCEPT ![p] = @ \cup {Head(toServer[p]).conn}]
  /\ UNCHANGED <<serving, member, probing, probed, bound, result, asked, retries,
                 tasks, toClient, cut>>

\* A port that is not meant for a retry is one more socket.
SNewPorts(p) ==
  /\ \A n \in granted : p \in mapped[n]
  /\ bound' = [bound EXCEPT ![p] = @ \o Head(toServer[p]).ports]
  /\ UNCHANGED <<granted, mapped, retryNew>>

\* Mutant: the retry's port is appended, not put in its place.
SRetryPortAppended(p, n) ==
  /\ n \in granted /\ p \notin mapped[n]
  /\ bound' = [bound EXCEPT ![p] = Append(@, Head(Head(toServer[p]).ports))]
  /\ IF Other(p) \in mapped[n]
     THEN /\ granted' = granted \ {n}
          /\ mapped' = [mapped EXCEPT ![n] = {}]
          /\ retryNew' = [retryNew EXCEPT ![n] = @ + 1]
     ELSE /\ mapped' = [mapped EXCEPT ![n] = @ \cup {p}]
          /\ UNCHANGED <<granted, retryNew>>

\* While a retry is waiting for this side, the first port is taken to be the retry's;
\* when both have sent theirs the retry is coordinated.
SRetryPort(p, n) ==
  /\ n \in granted /\ p \notin mapped[n]
  /\ LET port == Head(Head(toServer[p]).ports)
     IN bound' = [bound EXCEPT ![p] = IF n < Len(@) THEN [@ EXCEPT ![n + 1] = port]
                                                    ELSE Append(@, port)]
  /\ IF Other(p) \in mapped[n]
     THEN /\ granted' = granted \ {n}
          /\ mapped' = [mapped EXCEPT ![n] = {}]
          /\ retryNew' = [retryNew EXCEPT ![n] = @ + 1]
     ELSE /\ mapped' = [mapped EXCEPT ![n] = @ \cup {p}]
          /\ UNCHANGED <<granted, retryNew>>

SAddPorts(p) ==
  /\ Reads(p, "add_ports")
  /\ Tell(p, OfPorts("ports_added_ack", Head(toServer[p]).ports))
  /\ SNewPorts(p) \/ \E n \in Conns : SRetryPort(p, n)
  /\ UNCHANGED <<serving, member, probing, probed, ready, result, asked, timer,
                 coPc, coConn, held, retryWait, cut>>

\* The second request of the pair grants the retry; the first starts the timeout.
SRetryRequest(p) ==
  /\ Reads(p, "retry_request")
  /\ LET n == Head(toServer[p]).conn
     IN IF member # Roles
        THEN /\ asked' = [asked EXCEPT ![p] = @ \cup {n}]
             /\ UNCHANGED <<ready, retries, toClient>>
        ELSE IF n \in asked[Other(p)]
        THEN /\ asked' = [q \in Roles |-> asked[q] \ {n}]
             /\ ready' = [q \in Roles |-> ready[q] \ {n}]
             /\ granted' = granted \cup {n}
             /\ mapped' = [mapped EXCEPT ![n] = {}]
             /\ timer' = timer \ {n}
             /\ TellBoth([q \in Roles |-> OfConn("retry_granted", n)])
        ELSE /\ asked' = [asked EXCEPT ![p] = @ \cup {n}]
             /\ timer' = timer \cup {n}
             /\ UNCHANGED <<ready, granted, mapped, toClient>>
  /\ UNCHANGED <<serving, member, probing, probed, bound, result, tasks, cut>>

\* retry_coordination_timeout: the one that is waiting is told that the other is not.
SRetryTimer(n) ==
  /\ n \in timer
  /\ timer' = timer \ {n}
  /\ \E p \in Roles :
       /\ n \in asked[p] /\ n \notin asked[Other(p)]
       /\ asked' = [asked EXCEPT ![p] = @ \ {n}]
       /\ Tell(p, OfConn("retry_rejected", n))
  /\ UNCHANGED <<serving, member, probing, probed, bound, ready, result, granted,
                 mapped, tasks, toServer, cut>>

ResultLine(status) ==
  IF status = "established" THEN "conn_established" ELSE "conn_abandoned"

\* Mutant: the result is filed under the other role.
SConnResultSwapped(p, status) ==
  /\ Reads(p, ResultLine(status))
  /\ result' = [result EXCEPT ![Other(p)][Head(toServer[p]).conn] = status]
  /\ UNCHANGED <<serving, member, probing, probed, bound, ready, asked, retries,
                 tasks, toClient, cut>>

SConnResult(p, status) ==
  /\ Reads(p, ResultLine(status))
  /\ result' = [result EXCEPT ![p][Head(toServer[p]).conn] = status]
  /\ UNCHANGED <<serving, member, probing, probed, bound, ready, asked, retries,
                 tasks, toClient, cut>>

\* The handler ends with its connection.  If its peer was in the session, the session
\* is discarded and the other client's connection closed.
SGone(p) ==
  /\ p \in serving /\ p \in cut
  /\ serving' = serving \ {p}
  /\ toServer' = [toServer EXCEPT ![p] = <<>>]
  /\ IF p \in member
     THEN /\ cut' = cut \cup member
          /\ member' = {}
          /\ granted' = {} /\ timer' = {}
          /\ mapped' = [n \in Conns |-> {}]
          /\ held' = NoTask
     ELSE UNCHANGED <<cut, member, retries, held>>
  /\ UNCHANGED <<probing, peers, coPc, coConn, retryTasks, toClient>>

SHandler(p) ==
  \/ SRegister(p) \/ SProbesComplete(p) \/ SReady(p) \/ SAddPorts(p)
  \/ SRetryRequest(p) \/ SConnResult(p, "established") \/ SConnResult(p, "abandoned")
  \/ SGone(p)

----------------------------------------------------------------------------
(* coordinate_multi_connections, a task over the two peers it found.       *)

Move(k, pc) == coPc' = [coPc EXCEPT ![k] = pc]

\* Each client is told the port the other registered for this connection.
PortFor(p, n) == IF n < Len(bound[p]) THEN bound[p][n + 1] ELSE <<0, 0>>
TellPeerInfo(n) == TellBoth([p \in Roles |-> PeerInfo(n, PortFor(Other(p), n))])

BothReady(n) == \A p \in Roles : n \in ready[p]
BothResults(n) == \A p \in Roles : result[p][n] # "none"
BothPorts(n) == \A p \in Roles : n < Len(bound[p])

CoStart(k) ==
  /\ coPc[k] = "start"
  /\ Move(k, IF member = Roles THEN "port" ELSE "end")
  /\ UNCHANGED <<serving, member, probing, peers, retries, coConn, held, retryTasks,
                 link>>

\* On to the next connection, or home after the last.
CoNext(k) ==
  IF coConn[k] = NumConns - 1
  THEN Move(k, "end") /\ UNCHANGED coConn
  ELSE Move(k, "port") /\ coConn' = [coConn EXCEPT ![k] = @ + 1]

CoSkip(k) ==
  /\ coPc[k] = "port" /\ BothResults(coConn[k])
  /\ CoNext(k)
  /\ UNCHANGED <<serving, member, probing, peers, retries, held, retryTasks, link>>

\* Mutant: the results of every connection are cleared.
CoPeerInfoClearsAll(k) ==
  /\ coPc[k] = "port" /\ ~BothResults(coConn[k]) /\ BothPorts(coConn[k])
  /\ result' = [p \in Roles |-> [n \in Conns |-> "none"]]
  /\ TellPeerInfo(coConn[k])
  /\ Move(k, "ready")
  /\ UNCHANGED <<serving, member, probing, probed, bound, ready, asked, retries,
                 coConn, held, retryTasks, toServer, cut>>

\* Both sides have a port: whatever was reported so far is cleared as stale.
CoPeerInfo(k) ==
  /\ coPc[k] = "port" /\ ~BothResults(coConn[k]) /\ BothPorts(coConn[k])
  /\ result' = [p \in Roles |-> [result[p] EXCEPT ![coConn[k]] = "none"]]
  /\ TellPeerInfo(coConn[k])
  /\ Move(k, "ready")
  /\ UNCHANGED <<serving, member, probing, probed, bound, ready, asked, retries,
                 coConn, held, retryTasks, toServer, cut>>

\* Mutant: the READYs stay set.
SendGoKeepsReady(n) ==
  /\ BothReady(n)
  /\ TellBoth([p \in Roles |-> OfConn("go", n)])
  /\ UNCHANGED <<serving, member, probing, peers, retries, toServer, cut>>

\* GO to both; the READYs are used up.
SendGo(n) ==
  /\ BothReady(n)
  /\ TellBoth([p \in Roles |-> OfConn("go", n)])
  /\ ready' = [p \in Roles |-> ready[p] \ {n}]
  /\ UNCHANGED <<serving, member, probing, probed, bound, result, asked, retries,
                 toServer, cut>>

CoGo(k) ==
  /\ coPc[k] = "ready"
  /\ SendGo(coConn[k])
  /\ Move(k, "result")
  /\ UNCHANGED <<coConn, held, retryTasks>>

\* Mutant: one side's result is enough to go on.
CoResultOfOne(k) ==
  /\ coPc[k] = "result"
  /\ IF member = {} THEN Move(k, "end") /\ UNCHANGED coConn
     ELSE (\E p \in Roles : result[p][coConn[k]] # "none") /\ CoNext(k)
  /\ UNCHANGED <<serving, member, probing, peers, retries, held, retryTasks, link>>

CoResult(k) ==
  /\ coPc[k] = "result"
  /\ IF member = {} THEN Move(k, "end") /\ UNCHANGED coConn
     ELSE BothResults(coConn[k]) /\ CoNext(k)
  /\ UNCHANGED <<serving, member, probing, peers, retries, held, retryTasks, link>>

\* 60 s without both READYs, or 300 s without both results: the task returns, and
\* with it the coordination of all later connections.
CoReadyTimeout(k) ==
  /\ coPc[k] = "ready"
  /\ Move(k, "gaveup")
  /\ UNCHANGED <<serving, member, probing, peers, retries, coConn, held, retryTasks,
                 link>>

CoResultTimeout(k) ==
  /\ coPc[k] = "result"
  /\ Move(k, "end")
  /\ UNCHANGED <<serving, member, probing, peers, retries, coConn, held, retryTasks,
                 link>>

\* Writing to a client whose connection is known to be lost raises, and ends the task;
\* the sender is written to first.
SendFails(m) ==
  \E p \in cut : IF p = "receiver" THEN Tell("sender", m) ELSE UNCHANGED toClient

CoSendFail(k) ==
  /\ \/ /\ coPc[k] = "port" /\ ~BothResults(coConn[k]) /\ BothPorts(coConn[k])
        /\ result' = [p \in Roles |-> [result[p] EXCEPT ![coConn[k]] = "none"]]
        /\ SendFails(PeerInfo(coConn[k], PortFor("receiver", coConn[k])))
     \/ /\ coPc[k] = "ready" /\ BothReady(coConn[k])
        /\ SendFails(OfConn("go", coConn[k]))
        /\ UNCHANGED result
  /\ Move(k, "end")
  /\ UNCHANGED <<serving, member, probing, probed, bound, ready, asked, retries, coConn,
                 held, retryTasks, toServer, cut>>

Coordinator(k) ==
  \/ CoStart(k) \/ CoSkip(k) \/ CoPeerInfo(k) \/ CoGo(k) \/ CoResult(k)
  \/ CoSendFail(k)

----------------------------------------------------------------------------
(* coordinate_retry_connection, a task per granted retry.                  *)

RetryStart(n) ==
  /\ retryNew[n] > 0
  /\ retryNew' = [retryNew EXCEPT ![n] = @ - 1]
  /\ IF member = Roles
     THEN /\ TellPeerInfo(n)
          /\ retryWait' = [retryWait EXCEPT ![n] = @ + 1]
     ELSE UNCHANGED <<retryWait, toClient>>
  /\ UNCHANGED <<serving, member, probing, peers, retries, coPc, coConn, held,
                 toServer, cut>>

RetryGo(n) ==
  /\ retryWait[n] > 0
  /\ SendGo(n)
  /\ retryWait' = [retryWait EXCEPT ![n] = @ - 1]
  /\ UNCHANGED <<coPc, coConn, held, retryNew>>

RetrySendFail(n) ==
  /\ \/ /\ retryNew[n] > 0 /\ member = Roles
        /\ SendFails(PeerInfo(n, PortFor("receiver", n)))
        /\ retryNew' = [retryNew EXCEPT ![n] = @ - 1]
        /\ UNCHANGED retryWait
     \/ /\ retryWait[n] > 0 /\ BothReady(n)
        /\ SendFails(OfConn("go", n))
        /\ retryWait' = [retryWait EXCEPT ![n] = @ - 1]
        /\ UNCHANGED retryNew
  /\ UNCHANGED <<serving, member, probing, peers, retries, coPc, coConn, held,
                 toServer, cut>>

RetryReadyTimeout(n) ==
  /\ retryWait[n] > 0
  /\ retryWait' = [retryWait EXCEPT ![n] = @ - 1]
  /\ UNCHANGED <<serving, member, probing, peers, retries, coPc, coConn, held,
                 retryNew, link>>

RetryCoordinator(n) == RetryStart(n) \/ RetryGo(n) \/ RetrySendFail(n)

Server ==
  \/ \E p \in Roles : SHandler(p)
  \/ \E k \in Coordinators : Coordinator(k)
  \/ \E n \in Conns : RetryCoordinator(n)

----------------------------------------------------------------------------
(* Nothing that is under way is left for the relay to act on.              *)

CoordinatorWaits(k) ==
  \/ coPc[k] \in {"unused", "end", "gaveup"}
  \/ coPc[k] = "port" /\ ~BothResults(coConn[k]) /\ ~BothPorts(coConn[k])
  \/ coPc[k] = "ready" /\ ~BothReady(coConn[k])
  \/ coPc[k] = "result" /\ member # {} /\ ~BothResults(coConn[k])

RetryWaits(n) == retryNew[n] = 0 /\ (retryWait[n] > 0 => ~BothReady(n))

ServerWaits ==
  /\ \A p \in serving : toServer[p] = <<>> /\ p \notin cut
  /\ \A k \in Coordinators : CoordinatorWaits(k)
  /\ \A n \in Conns : RetryWaits(n)
=============================================================================
