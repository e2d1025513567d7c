----------------------------- MODULE Registration -----------------------------
(***************************************************************************)
(* From a client's `register` to the addresses its peer is told.  Programs *)
(* register under one session id, each for a role; the relay compares the  *)
(* port it sees with the local one, has the client probe its NAT, collects *)
(* the probes by the address they come from, and starts a coordinator when *)
(* both clients are done (server/relay/server.py, handlers.py,             *)
(* session_manager.py, the opening of coordinator.py, src/relay.rs).       *)
(*                                                                         *)
(* A program that ends may be started again with the same session id (its  *)
(* next run), before the relay has noticed; or a second time while the     *)
(* first is at work.  What follows the coordinator's first look at the     *)
(* session is Rendezvous' part.                                            *)
(***************************************************************************)
EXTENDS Candidates

CONSTANTS
  Setups,     \* clients, options and NATs, one record for each behaviour (see MCRegistration)
  MaxRuns,    \* bound: programs started for one role
  MaxLeaves   \* bound: programs that leave early

\* A NAT adds a constant, or one for each destination, or draws another port for every
\* connection; what it hands out is a port (the clients' own are 20000 and more).
NATs ==
  [kind : {"offset", "per_destination"}, by : {d \in Int : d > -20000}]
    \cup [kind : {"per_connection"}, ports : Seq(1 .. MAX_PORT) \ {<<>>}]

\* A setup also says in which roles programs leave, and bounds how often probes fail.  A
\* program has a socket for at least one connection, and 1 to 16 of them for a punch.
ASSUME RegistrationAssumption ==
  /\ MaxRuns \in Nat \ {0} /\ MaxLeaves \in Nat
  /\ \A s \in Setups :
       /\ s.leavers \subseteq {"sender", "receiver"} /\ s.maxFaults \in Nat
       /\ s.conns \in Nat \ {0} /\ s.maxScan \in Nat /\ s.shared \in BOOLEAN
       /\ \A r \in {"sender", "receiver"} :
            /\ s[r].nat \in NATs /\ s[r].probes \in Nat /\ s[r].percent \in Nat
            /\ s[r].punch \in 1 .. 16 /\ s[r].external \in BOOLEAN

Roles == {"sender", "receiver"}
Other(r) == CHOOSE q \in Roles : q # r
Peers == [role : Roles, run : 1 .. MaxRuns]
NoPeer == [role |-> "none", run |-> 0]
NoAnalysis == Unknown(0)
\* Of a filter test: whose probe it was made of, and whether its program had its place in
\* the session when it ended.
Verdicts == [by : Peers \cup {NoPeer}, housed : BOOLEAN]
NoVerdict == [by |-> NoPeer, housed |-> FALSE]
Nothing == [about |-> NoPeer, at |-> <<>>, judged |-> FALSE]

VARIABLES
  setup,
  \* the clients
  c,          \* where each program is
  begun,      \* probes it has begun
  waits,      \* it waits for a probe to be acknowledged
  seen,       \* probes that were acknowledged to it
  gone,       \* programs that have ended, or closed their control connection
  \* probe connections under way: sent, under the filter test, acknowledged
  flying,
  \* the relay
  h,          \* each control connection's handler
  members,    \* the session: its sender and its receiver (it exists if there is one)
  closed,     \* peers whose control connection the relay has closed
  answer,     \* what the relay has answered to `register`
  pending,    \* pending_probes of the session id
  filter,     \* filter_ergebnis by address
  complete,   \* peers whose probes_complete has been handled
  probed,     \* peers with probes_done
  taken,      \* probes each peer's analysis was made of
  known,      \* the filter test each peer's analysis holds
  analysis,
  starting,   \* coordinators started that have not looked at the session
  told,       \* what each peer has been told: its peer's addresses, for each connection
  \* how often the environment has interfered
  faults, leaves,
  stray       \* a handler ended that had lost its place, while others held the session

client == <<c, begun, waits, seen, gone>>
server == <<h, members, closed, answer, pending, filter, complete, probed, taken, known,
            analysis, starting, told, stray>>
env == <<setup, faults, leaves>>
vars == <<env, client, flying, server>>

----------------------------------------------------------------------------
(* Programs, their sockets and their NATs.                                 *)

Of(p) == setup[p.role]
Address(p) == IF setup.shared THEN "one" ELSE p.role

\* One socket for each connection, on consecutive ports, new ones in each run.
Port(p, n) == (IF p.role = "sender" THEN 20000 ELSE 20400) + 16 * (p.run - 1) + n

\* The external port of the k-th connection a program opens, from local port l to the
\* relay's port z (0 for control, 1 and 2 for probes).
External(p, l, z, k) ==
  LET nat == Of(p).nat
  IN CASE nat.kind = "offset" -> l + nat.by
       [] nat.kind = "per_destination" -> l + nat.by + 7 * z
       [] nat.kind = "per_connection" -> nat.ports[(k % Len(nat.ports)) + 1]

ControlPort(p) == External(p, Port(p, 0), 0, 0)
NeedsProbing(p) == ControlPort(p) # Port(p, 0)

\* Mutant: only as many probes as were asked for.
ProbeCountAsked(p) == IF ~NeedsProbing(p) THEN 1 ELSE Of(p).probes

\* do_nat_probing_from_bound: each pair of a port and a destination at least twice.
ProbeCount(p) ==
  IF ~NeedsProbing(p) THEN 1
  ELSE IF Of(p).bound THEN Max({Of(p).probes, setup.conns * 2 * 2})
  ELSE Of(p).probes

\* The destination changes with each probe, the port with each pair.  Without
\* probe_from_bound the kernel picks the ports, rising ones, and there is one destination.
Probe(p, i) ==
  LET l == IF ~NeedsProbing(p) THEN Port(p, 0)
           ELSE IF Of(p).bound THEN Port(p, (i \div 2) % setup.conns)
           ELSE 50000 + 2 * i
      z == IF NeedsProbing(p) /\ Of(p).bound THEN 1 + (i % 2) ELSE 1
  IN [nat |-> External(p, l, z, i + 1), local |-> l, dest |-> z]

\* What the relay keeps of it; and whether its program had its place in the session then.
Noted(p, i, housed) ==
  LET pr == Probe(p, i)
  IN [nat |-> pr.nat, local |-> pr.local, dest |-> pr.dest,
      by |-> p, num |-> i, housed |-> housed]

\* The last probe is held open for the filter test; of a client that need not probe, the
\* only one.
Held(p, i) == i + 1 = ProbeCount(p) /\ (Of(p).bound \/ ~NeedsProbing(p))

\* Without probe_from_bound the client awaits no answer.
Awaits(p) == Of(p).bound \/ ~NeedsProbing(p)

----------------------------------------------------------------------------
TypeOK ==
  /\ setup \in Setups
  /\ c \in [Peers -> {"off", "register", "probing", "done"}]
  /\ begun \in [Peers -> Nat] /\ \A p \in Peers : begun[p] <= ProbeCount(p)
  /\ waits \in [Peers -> BOOLEAN] /\ seen \in [Peers -> SUBSET Nat]
  /\ gone \subseteq Peers /\ closed \subseteq Peers
  /\ complete \subseteq Peers /\ probed \subseteq Peers
  /\ flying \subseteq [by : Peers, num : Nat, st : {"sent", "testing", "acked"}]
  /\ h \in [Peers -> {"none", "serving", "refused", "ended"}]
  /\ members \in [Roles -> Peers \cup {NoPeer}]
  /\ \A r \in Roles : members[r] # NoPeer => members[r].role = r
  /\ answer \in [Peers -> {"none", "registered", "error"}]
  /\ filter \in [Roles \cup {"one"} -> Verdicts]
  /\ known \in [Peers -> Verdicts]
  /\ starting \in Nat /\ faults \in Nat /\ leaves \in Nat /\ stray \in BOOLEAN

Init ==
  /\ setup \in Setups
  /\ c = [p \in Peers |-> "off"]
  /\ begun = [p \in Peers |-> 0]
  /\ waits = [p \in Peers |-> FALSE]
  /\ seen = [p \in Peers |-> {}]
  /\ gone = {} /\ flying = {}
  /\ h = [p \in Peers |-> "none"]
  /\ members = [r \in Roles |-> NoPeer]
  /\ closed = {}
  /\ answer = [p \in Peers |-> "none"]
  /\ pending = <<>>
  /\ filter = [a \in Roles \cup {"one"} |-> NoVerdict]
  /\ complete = {} /\ probed = {}
  /\ taken = [p \in Peers |-> <<>>]
  /\ known = [p \in Peers |-> NoVerdict]
  /\ analysis = [p \in Peers |-> NoAnalysis]
  /\ starting = 0
  /\ told = [p \in Peers |-> Nothing]
  /\ faults = 0 /\ leaves = 0 /\ stray = FALSE

----------------------------------------------------------------------------
(* The client: run_relay_protocol.                                         *)

CanStart(p) ==
  /\ c[p] = "off" /\ p.run <= Of(p).runs
  /\ p.run > 1 =>
       LET q == [p EXCEPT !.run = @ - 1]
       IN IF setup.double THEN c[q] # "off" ELSE q \in gone

CRegister(p) ==
  /\ CanStart(p)
  /\ c' = [c EXCEPT ![p] = "register"]
  /\ UNCHANGED <<env, begun, waits, seen, gone, flying, server>>

CRegistered(p) ==
  /\ c[p] = "register" /\ p \notin gone
  /\ answer[p] = "registered"
  /\ c' = [c EXCEPT ![p] = "probing"]
  /\ UNCHANGED <<env, begun, waits, seen, gone, flying, server>>

\* `error`, or the end of a connection the relay has closed; while it probes the client
\* does not read.
CReadsEnd(p) ==
  /\ p \notin gone
  /\ \/ c[p] = "register" /\ answer[p] = "error"
     \/ c[p] = "done" /\ p \in closed
  /\ gone' = gone \cup {p}
  /\ UNCHANGED <<env, c, begun, waits, seen, flying, server>>

CLeave(p) ==
  /\ c[p] # "off" /\ p \notin gone
  /\ p.role \in setup.leavers
  /\ leaves < MaxLeaves /\ leaves' = leaves + 1
  /\ gone' = gone \cup {p}
  /\ UNCHANGED <<setup, faults, c, begun, waits, seen, flying, server>>

CProbe(p) ==
  /\ c[p] = "probing" /\ p \notin gone
  /\ ~waits[p] /\ begun[p] < ProbeCount(p)
  /\ begun' = [begun EXCEPT ![p] = @ + 1]
  /\ waits' = [waits EXCEPT ![p] = Awaits(p)]
  /\ flying' = flying \cup {[by |-> p, num |-> begun[p], st |-> "sent"]}
  /\ UNCHANGED <<env, c, seen, gone, server>>

\* No connection, or none in time; the next probe is tried.
CProbeFails(p) ==
  /\ c[p] = "probing" /\ p \notin gone
  /\ ~waits[p] /\ begun[p] < ProbeCount(p)
  /\ faults < setup.maxFaults /\ faults' = faults + 1
  /\ begun' = [begun EXCEPT ![p] = @ + 1]
  /\ UNCHANGED <<setup, leaves, c, waits, seen, gone, flying, server>>

CProbeAck(p) ==
  /\ waits[p] /\ p \notin gone
  /\ \E f \in flying :
       /\ f = [by |-> p, num |-> begun[p] - 1, st |-> "acked"]
       /\ seen' = [seen EXCEPT ![p] = @ \cup {f.num}]
       /\ flying' = flying \ {f}
  /\ waits' = [waits EXCEPT ![p] = FALSE]
  /\ UNCHANGED <<env, c, begun, gone, server>>

\* 3 s, or 8 s for the filter test, have passed; the answer will find nobody.
CProbeTimeout(p) ==
  /\ waits[p] /\ p \notin gone
  /\ faults < setup.maxFaults /\ faults' = faults + 1
  /\ waits' = [waits EXCEPT ![p] = FALSE]
  /\ UNCHANGED <<setup, leaves, c, begun, seen, gone, flying, server>>

\* Mutant: probes_complete is sent without waiting for the last probe.
CCompleteEarly(p) ==
  /\ c[p] = "probing" /\ p \notin gone
  /\ begun[p] = ProbeCount(p)
  /\ c' = [c EXCEPT ![p] = "done"]
  /\ UNCHANGED <<env, begun, waits, seen, gone, flying, server>>

CComplete(p) ==
  /\ c[p] = "probing" /\ p \notin gone
  /\ ~waits[p] /\ begun[p] = ProbeCount(p)
  /\ c' = [c EXCEPT ![p] = "done"]
  /\ UNCHANGED <<env, begun, waits, seen, gone, flying, server>>

Client(p) ==
  \/ CRegister(p) \/ CRegistered(p) \/ CReadsEnd(p)
  \/ CProbe(p) \/ CProbeAck(p) \/ CComplete(p)

----------------------------------------------------------------------------
(* The relay.  Nothing is awaited under the session lock but a refusal's sending, so *)
(* each handler runs as one step from one await to the next.                         *)

Session == \E r \in Roles : members[r] # NoPeer
HasBoth == \A r \in Roles : members[r] # NoPeer

\* handle_client.  A client that keeps its port is analysed at once and counts as probed.
HRegister(p) ==
  LET l == Port(p, 0)
      accepted == members[p.role] = NoPeer
      keeps == ~NeedsProbing(p)
  IN /\ c[p] # "off" /\ h[p] = "none"
     /\ h' = [h EXCEPT ![p] = IF accepted THEN "serving" ELSE "refused"]
     /\ answer' = [answer EXCEPT ![p] = IF accepted THEN "registered" ELSE "error"]
     /\ members' = IF accepted THEN [members EXCEPT ![p.role] = p] ELSE members
     /\ probed' = IF accepted /\ keeps THEN probed \cup {p} ELSE probed
     /\ analysis' = IF accepted /\ keeps
                    THEN [analysis EXCEPT ![p] = Preserved(l, {l}, "unbestimmt", 1)]
                    ELSE analysis
     /\ UNCHANGED <<env, client, flying, closed, pending, filter, complete, taken, known,
                    starting, told, stray>>

\* handle_probe, until the filter test or the acknowledgement.
HProbe(f) ==
  /\ f.st = "sent"
  /\ pending' = Append(pending, Noted(f.by, f.num, members[f.by.role] = f.by))
  /\ flying' = (flying \ {f}) \cup
       {[f EXCEPT !.st = IF Held(f.by, f.num) THEN "testing" ELSE "acked"]}
  /\ UNCHANGED <<env, client, h, members, closed, answer, filter, complete, probed, taken,
                 known, analysis, starting, told, stray>>

\* handle_probe, after pruefe_filter.
HFilterTested(f) ==
  /\ f.st = "testing"
  /\ filter' = [filter EXCEPT ![Address(f.by)] =
                  [by |-> f.by, housed |-> members[f.by.role] = f.by]]
  /\ flying' = (flying \ {f}) \cup {[f EXCEPT !.st = "acked"]}
  /\ UNCHANGED <<env, client, h, members, closed, answer, pending, complete, probed, taken,
                 known, analysis, starting, told, stray>>

\* Mutant: the check for both peers comes before probes_done is set.
HProbesCompleteChecksFirst(p) ==
  LET own == {k \in DOMAIN pending : Address(pending[k].by) = Address(p)}
      mine == Those(pending, own)
  IN /\ c[p] = "done" /\ h[p] = "serving" /\ p \notin complete \cup closed
     /\ complete' = complete \cup {p}
     /\ probed' = probed \cup {p}
     /\ known' = [known EXCEPT ![p] = filter[Address(p)]]
     /\ filter' = [filter EXCEPT ![Address(p)] = NoVerdict]
     /\ taken' = [taken EXCEPT ![p] = mine]
     /\ pending' = Those(pending, DOMAIN pending \ own)
     /\ analysis' = IF NeedsProbing(p)
                    THEN [analysis EXCEPT ![p] =
                            Analyze(mine, Port(p, 0), Of(p).external, Of(p).percent)]
                    ELSE analysis
     /\ starting' = IF HasBoth /\ \A r \in Roles : members[r] \in probed
                    THEN starting + 1 ELSE starting
     /\ UNCHANGED <<env, client, flying, h, members, closed, answer, told, stray>>

\* handle_probes_complete: the probes kept for the client's address are analysed and
\* taken out; the verdict of the filter test as well.  (A connection the relay has closed
\* is not read any more; a line read just before finds the session gone.)
HProbesComplete(p) ==
  LET own == {k \in DOMAIN pending : Address(pending[k].by) = Address(p)}
      mine == Those(pending, own)
  IN /\ c[p] = "done" /\ h[p] = "serving" /\ p \notin complete \cup closed
     /\ complete' = complete \cup {p}
     /\ probed' = probed \cup {p}
     /\ known' = [known EXCEPT ![p] = filter[Address(p)]]
     /\ filter' = [filter EXCEPT ![Address(p)] = NoVerdict]
     /\ IF NeedsProbing(p)
        THEN /\ taken' = [taken EXCEPT ![p] = mine]
             /\ pending' = Those(pending, DOMAIN pending \ own)
             /\ analysis' = [analysis EXCEPT ![p] =
                  IF mine = <<>> THEN Unknown(ControlPort(p))
                  ELSE Analyze(mine, Port(p, 0), Of(p).external, Of(p).percent)]
        ELSE UNCHANGED <<taken, pending, analysis>>
     /\ starting' = IF HasBoth /\ \A r \in Roles : members[r] \in probed'
                    THEN starting + 1 ELSE starting
     /\ UNCHANGED <<env, client, flying, h, members, closed, answer, told, stray>>

\* What q is told about p for connection n.
AddressesOf(p, n) ==
  LET l == Port(p, n)
      a == analysis[p]
  IN PeerAddresses(a, NatPort(a, l, Of(p).external, ControlPort(p)),
                   IF setup.shared THEN l ELSE 0, Of(p).punch, setup.maxScan)

\* coordinate_multi_connections begins.  The session gives it its two peers, and what it
\* tells them of each connection, the later ones after the earlier ones, is computed from
\* what it has now.
CoStart ==
  /\ starting > 0 /\ starting' = starting - 1
  /\ told' = IF HasBoth
             THEN [q \in Peers |->
                     IF members[q.role] = q
                     THEN LET p == members[Other(q.role)]
                          IN [about |-> p,
                              at |-> [n \in 1 .. setup.conns |-> AddressesOf(p, n - 1)],
                              judged |-> p \in probed]
                     ELSE told[q]]
             ELSE told
  /\ UNCHANGED <<env, client, flying, h, members, closed, answer, pending, filter, complete,
                 probed, taken, known, analysis, stray>>

\* Mutant: the other role is closed even if nobody holds it.
CleanupUnchecked(p) ==
  /\ members' = [r \in Roles |-> NoPeer]
  /\ closed' = IF Session THEN closed \cup {members[Other(p.role)]} ELSE closed
  /\ pending' = <<>>

\* Mutant: a client that was alone leaves its session behind.
CleanupOnlyPairs(p) ==
  IF HasBoth
  THEN /\ members' = [r \in Roles |-> NoPeer]
       /\ closed' = closed \cup {members[Other(p.role)]}
       /\ pending' = <<>>
  ELSE UNCHANGED <<members, closed, pending>>

\* Mutant: the other client is not closed.
CleanupForgets(p) ==
  /\ members' = [r \in Roles |-> NoPeer]
  /\ pending' = <<>>
  /\ UNCHANGED closed

\* Mutant: the probes are kept for the next session of that id.
CleanupKeepsProbes(p) ==
  LET other == {members[Other(p.role)]} \ {NoPeer}
  IN /\ members' = [r \in Roles |-> NoPeer]
     /\ closed' = closed \cup other
     /\ UNCHANGED pending

\* cleanup_peer: whoever holds the other role is closed and the session goes, with its
\* probes - also if p has lost its own place by then.
Cleanup(p) ==
  LET other == {members[Other(p.role)]} \ {NoPeer}
  IN IF Session
     THEN /\ members' = [r \in Roles |-> NoPeer]
          /\ closed' = closed \cup other
          /\ pending' = <<>>
     ELSE UNCHANGED <<members, closed, pending>>

\* The client's connection has ended, or the relay has closed it; lines that were under
\* way may be lost.
HEnd(p) ==
  /\ h[p] = "serving" /\ (p \in gone \/ p \in closed)
  /\ h' = [h EXCEPT ![p] = "ended"]
  /\ Cleanup(p)
  /\ stray' = (stray \/ (Session /\ members[p.role] # p))
  /\ UNCHANGED <<env, client, flying, answer, filter, complete, probed, taken, known,
                 analysis, starting, told>>

Server ==
  \/ \E p \in Peers : HRegister(p) \/ HProbesComplete(p) \/ HEnd(p)
  \/ \E f \in flying : HProbe(f) \/ HFilterTested(f)
  \/ CoStart

----------------------------------------------------------------------------
\* Every program that may start has, each has ended or waits for its peer, and the relay
\* has nothing left to do.
Over ==
  /\ \A p \in Peers :
       /\ ~CanStart(p)
       /\ c[p] # "off" => IF p \in gone \cup closed THEN h[p] \in {"refused", "ended"}
                         ELSE p \in complete
       /\ p \in closed => p \in gone
  /\ \A f \in flying : f.st = "acked"
  /\ starting = 0

Next ==
  \/ \E p \in Peers : Client(p) \/ CProbeFails(p) \/ CProbeTimeout(p) \/ CLeave(p)
  \/ Server
  \/ Over /\ UNCHANGED vars

Spec == Init /\ [][Next]_vars

----------------------------------------------------------------------------
(* Safety: the session.                                                    *)

\* No one holds a role after its connection has ended (session_manager.py:31-63): whatever
\* the order in which the handlers of both clients end, a program started again finds the
\* role free.
MembersServed == \A r \in Roles : members[r] # NoPeer => h[members[r]] = "serving"

\* A client that is served has its place in the session, or is being closed: a refused
\* second program leaves the session as it is (server.py:324-330), and a client whose
\* peer ends is closed, not forgotten.  The exception (stray): a client closed with its
\* session has its handler end only after others have registered, and cleanup_peer takes
\* their session for its own.
NoOrphans ==
  ~stray => \A p \in Peers : h[p] = "serving" /\ p \notin closed => members[p.role] = p

----------------------------------------------------------------------------
(* Safety: the probes.                                                     *)

\* The session of p stood from its registration on, and its probes were handled.
Undivided(p) == p \in complete /\ p \notin closed /\ ~stray

\* The verdict of a filter test that may stand for p's own.  Where an address is one
\* client's, only a program that has lost its place may still end a test after p's.
Fresh(p, verdict) ==
  /\ verdict.by # NoPeer
  /\ setup.shared \/ verdict.by = p \/ ~verdict.housed

\* Probes are recorded by their own connections, probes_complete comes on another, and
\* the relay sorts them by address (handlers.py:199-249): none that was acknowledged to
\* the client is missing from its analysis - or, where both clients are behind one
\* address, from its peer's.  The filter's verdict reaches it as well: the one an earlier
\* program had left at the address (server.py:153-154) does not stand in its way.
AckedProbesAnalysed ==
  \A p \in Peers : Undivided(p) /\ NeedsProbing(p) =>
    /\ \A k \in seen[p] : \E q \in Peers :
         /\ q = p \/ setup.shared
         /\ \E j \in DOMAIN taken[q] : taken[q][j].by = p /\ taken[q][j].num = k
    /\ (\E k \in seen[p] : Held(p, k)) =>
         \E q \in Peers : (q = p \/ setup.shared) /\ Fresh(p, known[q])

\* Sessions do not mix: a probe recorded while its client was in the session is not found
\* in the analysis of a later program behind the same address, which would be told the
\* ports of sockets long closed (session_manager.py:47-49).  Only what comes in between
\* two sessions, or what the peer behind the same address sends, can be.  (The client a
\* stray handler has left without its place would take what the next one sends.)
AnalysisKeepsToSession ==
  ~stray => \A p \in Peers : \A k \in DOMAIN taken[p] :
    \/ taken[p][k].by = p \/ setup.shared
    \/ ~taken[p][k].housed

\* bewerte_mapping (relay.rs:204-216), from the probes that were acknowledged.
OwnVerdict(p) ==
  LET At(l, z) == {k \in seen[p] : Probe(p, k).local = l /\ Probe(p, k).dest = z}
      pairs == {At(Probe(p, k).local, Probe(p, k).dest) : k \in seen[p]}
      repeated == {s \in pairs : Cardinality(s) > 1}
  IN IF \E s \in repeated : \E j, k \in s : Probe(p, j).nat # Probe(p, k).nat
     THEN "pro_verbindung"
     ELSE IF repeated # {} THEN "stabil" ELSE "unbestimmt"

\* The client and the relay judge the same NAT from what each has seen
\* (relay.rs:204-216, nat_analyzer.py:222-269) and do not contradict each other.  Where
\* every probe got through and no other's was taken for its own, there are enough probes for
\* each pair of a port and a destination (relay.rs:135-142): the client has a verdict, and
\* the relay knows a NAT that adds a constant, or one for each destination, for what it is.
\* (Of several ports one may look stable and one not if the draws of a NAT repeat.)
VerdictsAgree ==
  \A p \in Peers : Undivided(p) /\ NeedsProbing(p) /\ Of(p).bound /\ ~setup.shared =>
    /\ OwnVerdict(p) = "pro_verbindung" => analysis[p].mapping = "pro_verbindung"
    /\ faults = 0 /\ (\A k \in DOMAIN taken[p] : taken[p][k].by = p) =>
         /\ OwnVerdict(p) # "unbestimmt"
         /\ OwnVerdict(p) = "stabil" => analysis[p].mapping # "pro_verbindung"
         /\ Of(p).nat.kind = "offset" => analysis[p].mapping = "endpunktunabhaengig"
         /\ Of(p).nat.kind = "per_destination" => analysis[p].mapping = "portabhaengig"
         /\ setup.conns = 1 => analysis[p].mapping # "unbestimmt"

----------------------------------------------------------------------------
(* Safety: what the peer is told.                                          *)

\* Who was told of a peer whose NAT had been judged.  (A coordinator that comes late to
\* its session's lock finds the next session of that id, whose clients may still probe.)
Told == {q \in Peers : told[q].judged}
About(q) == analysis[told[q].about]
PortsTold(q, n) ==
  {told[q].at[n][k].port : k \in {j \in DOMAIN told[q].at[n] : ~told[q].at[n][j].lan}}

\* "There the port is known" (nat_analyzer.py:531-532): of a client whose NAT adds a
\* constant, the peer is told the very port that the client's socket for each
\* connection has outside, though only the first went through the relay's control port;
\* and if both are behind one address, its port in the LAN first.  (Two probes of its own
\* must have come through, no trend be seen in them, and the port be one that the relay
\* offers.)
KnownPortOffered ==
  \A q \in Told : \A n \in 1 .. setup.conns :
    LET p == told[q].about
    IN IF setup.shared THEN Head(told[q].at[n]) = InLan(Port(p, n - 1))
       ELSE /\ Of(p).nat.kind = "offset" /\ ~Of(p).external /\ About(q).shift = 0
            /\ n = 1 \/ ~NeedsProbing(p) \/ About(q).n > 1
            /\ External(p, Port(p, n - 1), 0, 0) \in MIN_PORT .. MAX_PORT
            => External(p, Port(p, n - 1), 0, 0) \in PortsTold(q, n)

\* The prediction is never lost on the way: whatever the range, the window and the budget,
\* it is among the ports the peer is told (nat_analyzer.py:205-219).
PredictionOffered ==
  \A q \in Told : \A n \in 1 .. setup.conns :
    About(q).scan => About(q).predicted \in PortsTold(q, n)

\* Of a NAT that draws ports from a band, the peer is told every port seen, or, if the
\* budget is less than the band, the least, the greatest, and ports between them without
\* a gap wider than the budget requires (nat_analyzer.py:587-623).  (The ports seen must be
\* ones that the relay offers: it begins no range below 1024.)
BandCovered ==
  \A q \in Told : \A n \in 1 .. setup.conns :
    LET a == About(q)
        m == Needed(a, Of(told[q].about).punch, setup.maxScan)
        ports == PortsTold(q, n) \cap (a.min .. a.max)
    IN /\ a.pattern = "random_like" /\ (m > 2 \/ a.end - a.start < m)
       /\ MIN_PORT <= a.min /\ a.max <= MAX_PORT
       =>
         /\ {a.min, a.max} \subseteq ports
         /\ IF a.end - a.start < m
            THEN \A k \in DOMAIN taken[told[q].about] :
                   taken[told[q].about][k].nat \in ports
            ELSE \A x \in ports \ {a.max} :
                   \E y \in ports : x < y /\ y - x <= CeilDiv(a.max - a.min, m - 2)

\* A client that opens at most `max` addresses fills that budget, keeps the LAN address
\* and the port predicted for the connection, and draws from the band the relay has seen
\* before it draws from outside (strategy.rs:205-264).
ThinnedWithinBand ==
  \A q \in Told : \A n \in 1 .. setup.conns, max \in {1, 2, 3, 5} :
    LET all == told[q].at[n]
        a == About(q)
        kept == ToSet(Targets(all, a.min, a.max, max))
        fixed == ToSet(SubSeq(all, 1, Min({max, Len(all), IF setup.shared THEN 2 ELSE 1})))
        inside == {t \in ToSet(all) : ~t.lan /\ a.min <= t.port /\ t.port <= a.max}
    IN /\ Cardinality(kept) = Min({max, Len(all)})
       /\ fixed \subseteq kept
       /\ a.min > 0 => inside \subseteq kept \/ kept \ fixed \subseteq inside

----------------------------------------------------------------------------
(* What must have happened when nothing is left to do.  (No step can be    *)
(* taken twice: every behaviour comes to its end if programs and relay run.)*)

\* If each program is started once and none leaves, both are told of each other, whichever
\* registers or finishes last, also if one of them counts as probed from the start, and
\* even if none of its probes got through (handlers.py:182-278).
BothTold ==
  Over /\ leaves = 0 /\ (\A r \in Roles : setup[r].runs = 1) =>
    \A r \in Roles : told[[role |-> r, run |-> 1]].about = [role |-> Other(r), run |-> 1]
=============================================================================
