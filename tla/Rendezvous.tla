------------------------------ MODULE Rendezvous ------------------------------
(***************************************************************************)
(* The relay and two clients of one session, over control connections that *)
(* may be lost: how the clients come to punch each connection together.    *)
(*                                                                         *)
(* Time.  The limits are long (45 to 300 s) against the time a line or a   *)
(* step takes, so a limit normally passes only when nothing else can       *)
(* happen (Quiet), and of two waits that began together the shorter ends   *)
(* first.  MaxEarly allows that many limits to pass earlier, for a line    *)
(* that is late or a program that stalls.                                  *)
(***************************************************************************)
EXTENDS RelayServer, PunchClient

CONSTANTS
  MaxDrops,   \* bound: control connections lost in the network
  MaxEarly    \* bound: limits that pass although an answer is under way

ASSUME RendezvousAssumption == MaxDrops \in Nat /\ MaxEarly \in Nat

VARIABLES drops, early

vars == <<server, client, link, drops, early>>

TypeOK ==
  /\ LinkTypeOK /\ ServerTypeOK /\ ClientTypeOK
  /\ drops \in Nat /\ early \in Nat

Init ==
  /\ LinkInit /\ ServerInit /\ ClientInit
  /\ drops = 0 /\ early = 0

----------------------------------------------------------------------------
Quiet == ServerWaits /\ \A p \in Roles : ClientWaits(p)

\* A client's wait outlasts the relay's: 120 s for GO against 60 s for the READYs,
\* 60 s for the grant against 45 s until the rejection.
RelayFirst(p) ==
  \/ /\ cPc[p] = "go"
     /\ \/ retryWait[conn[p]] > 0
        \/ \E k \in Coordinators : coPc[k] = "ready" /\ coConn[k] = conn[p]
  \/ cPc[p] = "retry" /\ conn[p] \in timer

ClientLimit(p) == CFirstTimeout(p) \/ CTimeout(p) \/ CAckTimeout(p) \/ CPunchAlone(p)

ServerLimit ==
  \/ \E k \in Coordinators : CoReadyTimeout(k) \/ CoResultTimeout(k)
  \/ \E n \in Conns : SRetryTimer(n) \/ RetryReadyTimeout(n)

LimitPasses ==
  \/ /\ Quiet /\ UNCHANGED <<drops, early>>
     /\ \/ ServerLimit /\ UNCHANGED client
        \/ \E p \in Roles : ~RelayFirst(p) /\ ClientLimit(p) /\ UNCHANGED server
  \/ /\ early < MaxEarly /\ early' = early + 1 /\ UNCHANGED drops
     /\ \/ ServerLimit /\ UNCHANGED client
        \/ \E p \in Roles : ClientLimit(p) /\ UNCHANGED server

\* A control connection is lost in the network.  What was under way may or may not
\* arrive: each side reads on or finds the end.
Drop(p) ==
  /\ drops < MaxDrops /\ drops' = drops + 1
  /\ p \notin cut /\ cPc[p] # "register"
  /\ cut' = cut \cup {p}
  /\ UNCHANGED <<server, client, toServer, toClient, early>>

\* A punch begins 1.5 s after GO; by then a coordinator, which looks every 0.1 s, has
\* done whatever it can.
Punched(p) == CEstablished(p) \/ CPunchFail(p)
CoordinatorsLooked ==
  /\ \A k \in Coordinators : CoordinatorWaits(k)
  /\ \A n \in Conns : RetryWaits(n)

ClientStep(p) ==
  /\ Client(p) \/ (CoordinatorsLooked /\ Punched(p))
  /\ UNCHANGED <<server, drops, early>>
ServerStep == Server /\ UNCHANGED <<client, drops, early>>

Ended(p) == cPc[p] \in {"ok", "err"}
Over == (\A p \in Roles : Ended(p)) /\ UNCHANGED vars

Next ==
  \/ \E p \in Roles : ClientStep(p) \/ Drop(p)
  \/ ServerStep \/ LimitPasses \/ Over

Spec == Init /\ [][Next]_vars

\* Bound: a limit passes early only where no punch and no bind has failed.
FaultsApart == early = 0 \/ (punchFails = 0 /\ bindFails = 0)

\* Both programs and the event loop are scheduled, and time passes.
Fairness ==
  /\ \A p \in Roles : WF_vars(ClientStep(p))
  /\ WF_vars(ServerStep)
  /\ WF_vars(LimitPasses)

FairSpec == Spec /\ Fairness

----------------------------------------------------------------------------
(* Safety.                                                                 *)

\* A client has reported a result for connection n, or is about to.
Moved(p, n) == conn[p] > n

\* "Connection n+1 is arranged only when both sides have reported a result for n"
\* (test_zweite_verbindung_erst_nach_dem_ergebnis_der_ersten): no peer_info and no GO
\* reaches a client while either client is still at an earlier connection - with two
\* coordinators walking the connections at once, results cleared as stale
\* (coordinator.py:79-90) and retries coordinated on the side.
Sequential ==
  \A p \in Roles : \A i \in DOMAIN toClient[p] :
    toClient[p][i].type \in {"peer_info", "go"} =>
      \A q \in Roles, n \in Conns : n < toClient[p][i].conn => Moved(q, n)

\* What the relay has on record as a client's result for a connection
\* (handlers.py:399-423) is how that connection really ended for that client.
ResultsTrue ==
  \A p \in Roles, n \in Conns :
    result[p][n] # "none" =>
      /\ Moved(p, n)
      /\ ~Ended(p) => (result[p][n] = "established" <=> n \in streams[p])

\* The port the relay has on record for the connection a client is at, and would tell
\* the other client to punch at (coordinator.py:310-396), is the port the client holds
\* there, unless a report of a newer one is on its way: ports added for a retry and
\* ports added as spare ones are told apart only by their order (handlers.py:127-147).
\* Two exceptions: a limit that passes early may leave a report behind that is taken for
\* another; and a client that cannot bind the port of a retry it was granted gives the
\* connection up without a word, so that the port of its next retry is taken for this one's.
Reporting(p) ==
  \E i \in DOMAIN toServer[p] : toServer[p][i].type \in {"register", "add_ports"}

PortsTrue ==
  \A p \in member \ cut :
    conn[p] < Len(bound[p]) /\ conn[p] < Len(sockets[p]) /\ ~Reporting(p) /\ ~Ended(p)
    /\ early = 0 /\ p \notin unfilled
      => bound[p][conn[p] + 1] = Port(p, conn[p])

\* READYs are kept until a GO uses them up, whoever sends it (coordinator.py:97-130 and
\* 203-230), and yet none is stale: when GO goes out both clients are at that connection
\* and waiting for it.  The same two exceptions: a limit that passes early; and a client
\* that left a retry without a port, whose next port completes it when the client is
\* already elsewhere: the peer_info that follows finds a READY of before.
GoSent(n) == \E p \in Roles : Cardinality(Places(p, "go", n)') > Cardinality(Places(p, "go", n))

GoFindsBothWaiting ==
  [][\A n \in Conns : GoSent(n) /\ cut = {} /\ early = 0 /\ unfilled = {} =>
       \A p \in Roles : cPc[p] = "go" /\ conn[p] = n]_vars

\* A coordinator that begins a connection clears what was reported for it as stale
\* (coordinator.py:79-90), and a second one walks the same connections behind the first:
\* a success that the relay has on record is never among what is cleared, or the
\* coordinator would wait for a report that no client sends twice.
SuccessStaysOnRecord ==
  [][\A p \in Roles, n \in Conns :
       result[p][n] = "established" => result'[p][n] = "established"]_vars

----------------------------------------------------------------------------
(* What the code's own words say of it, and it does not do.                *)

\* The docstring at coordinator.py:174: a retry is coordinated "after both peers added
\* new ports".  The clients punch at the ports of an earlier peer_info all the same: the
\* second coordinator's, which no reader took, comes first in their queues.
PunchesAtCurrentPort ==
  \A p \in Roles :
    cPc[p] = "punch" /\ cPc[Other(p)] = "punch" /\ conn[p] = conn[Other(p)]
      => info[p] = Port(Other(p), conn[p])

\* CHANGELOG.md:155, and the comment at connection/mod.rs:183-186: losing the relay no
\* longer discards established connections.
RelayLossKeepsStreams ==
  [][\A p \in Roles : streams[p] \subseteq streams'[p]]_vars

----------------------------------------------------------------------------
(* Liveness, under Fairness.                                               *)

\* Whatever is lost and whichever limits pass, each client comes to an end: every wait
\* has a limit, and failures are counted (connection/mod.rs:258-467).
ClientsEnd == \A p \in Roles : <>Ended(p)

\* If no connection is lost, no limit passes early, every port can be bound and no punch
\* fails once both clients are at it, every connection is established on both sides -
\* though a peer_info sent before `registered` has been read is dropped with the
\* BufReader's buffer (relay.rs:440): the second coordinator sends it again.
Undisturbed == drops = 0 /\ early = 0 /\ punchFails = 0 /\ bindFails = 0
AllConnect ==
  []Undisturbed => <>(\A p \in Roles : cPc[p] = "ok" /\ streams[p] = Conns)
=============================================================================
