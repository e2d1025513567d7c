-------------------------- MODULE RegistrationProofs --------------------------
(***************************************************************************)
(* Proofs about module Registration, for every set of setups and however   *)
(* many programs are started under one id, leave and are started again:    *)
(* who has a place in the session; the types; that both are told of each   *)
(* other; that sessions do not mix; that no acknowledged probe is lost;    *)
(* that the ports predicted, known and seen are among those a peer is told;*)
(* and that client and relay judge a NAT alike.                            *)
(***************************************************************************)
EXTENDS Registration, AnalysisProofs

----------------------------------------------------------------------------
(* Places in the session.                                                  *)

\* The part of TypeOK the arguments need: the session has two places, each control
\* connection a handler.
Places ==
  /\ members \in [Roles -> Peers \cup {NoPeer}]
  /\ \A r \in Roles : members[r] # NoPeer => members[r].role = r
  /\ h \in [Peers -> {"none", "serving", "refused", "ended"}]

\* The inductive invariant.
IInv == Places /\ MembersServed /\ NoOrphans

\* What the invariant is about; every other action leaves it alone.
places == <<h, members, closed, stray>>

\* There are two roles, and each peer has one of them; nobody is no peer.
LEMMA RoleFacts ==
  /\ \A r \in Roles : Other(r) \in Roles /\ Other(r) # r
  /\ \A r, q \in Roles : q = r \/ q = Other(r)
  /\ \A p \in Peers : p.role \in Roles /\ p # NoPeer
<1>1. \A r \in Roles : \E q \in Roles : q # r
  BY DEF Roles
<1>2. \A r \in Roles : Other(r) \in Roles /\ Other(r) # r
  BY <1>1 DEF Other
<1>3. \A r, q \in Roles : q = r \/ q = Other(r)
  BY <1>2 DEF Roles
<1>4. ASSUME NEW p \in Peers PROVE p.role \in Roles /\ p # NoPeer
  <2>1. p.role \in Roles
    BY DEF Peers
  <2>2. NoPeer.role = "none" /\ "none" \notin Roles
    BY DEF NoPeer, Roles
  <2>. QED
    BY <2>1, <2>2
<1>. QED
  BY <1>2, <1>3, <1>4

LEMMA InitIInv == Init => IInv
BY RoleFacts DEF Init, IInv, Places, MembersServed, NoOrphans

\* A registration fills an empty place or leaves the session as it is; its handler was
\* nobody's before.
LEMMA RegisterKeeps ==
  ASSUME NEW p \in Peers, IInv, HRegister(p)
  PROVE  IInv'
<1>. DEFINE accepted == members[p.role] = NoPeer
<1>1. p.role \in Roles /\ h[p] = "none" /\ closed' = closed /\ stray' = stray
  BY RoleFacts DEF HRegister
<1>2. h' = [h EXCEPT ![p] = IF accepted THEN "serving" ELSE "refused"]
  BY DEF HRegister
<1>3. members' = IF accepted THEN [members EXCEPT ![p.role] = p] ELSE members
  BY DEF HRegister
<1>4. Places'
  BY <1>1, <1>2, <1>3 DEF IInv, Places
<1>5. MembersServed'
  <2>. SUFFICES ASSUME NEW r \in Roles, members'[r] # NoPeer
                PROVE  h'[members'[r]] = "serving"
    BY DEF MembersServed
  <2>1. CASE accepted /\ r = p.role
    BY <1>2, <1>3, <2>1 DEF IInv, Places
  <2>2. CASE ~(accepted /\ r = p.role)
    <3>1. members'[r] = members[r] /\ members[r] \in Peers
      BY <1>3, <2>2 DEF IInv, Places
    <3>2. h[members[r]] = "serving"
      BY <3>1 DEF IInv, MembersServed
    <3>. QED
      BY <1>1, <1>2, <3>1, <3>2 DEF IInv, Places
  <2>. QED
    BY <2>1, <2>2
<1>6. NoOrphans'
  <2>. SUFFICES ASSUME ~stray', NEW q \in Peers, h'[q] = "serving", q \notin closed'
                PROVE  members'[q.role] = q
    BY DEF NoOrphans
  <2>1. CASE q = p
    BY <1>1, <1>2, <1>3, <2>1 DEF IInv, Places
  <2>2. CASE q # p
    <3>1. members[q.role] = q
      BY <1>1, <1>2, <2>2 DEF IInv, Places, NoOrphans
    <3>2. q.role \in Roles /\ (accepted => q.role # p.role)
      BY <3>1, RoleFacts
    <3>. QED
      BY <1>3, <3>1, <3>2 DEF IInv, Places
  <2>. QED
    BY <2>1, <2>2
<1>. QED
  BY <1>4, <1>5, <1>6 DEF IInv

\* A handler that ends takes the session with it: both places are empty, and whoever else
\* was served had the other place and is closed.
LEMMA EndKeeps ==
  ASSUME NEW p \in Peers, IInv, HEnd(p)
  PROVE  IInv'
<1>1. /\ p.role \in Roles /\ h[p] = "serving"
      /\ h' = [h EXCEPT ![p] = "ended"]
      /\ stray' = (stray \/ (Session /\ members[p.role] # p))
  BY RoleFacts DEF HEnd
<1>2. Cleanup(p)
  BY DEF HEnd
<1>3. \A r \in Roles : members'[r] = NoPeer
  BY <1>2 DEF Cleanup, Session
<1>4. Places'
  <2>1. members' \in [Roles -> Peers \cup {NoPeer}]
    BY <1>2 DEF Cleanup, IInv, Places
  <2>2. h' \in [Peers -> {"none", "serving", "refused", "ended"}]
    BY <1>1 DEF IInv, Places
  <2>. QED
    BY <1>3, <2>1, <2>2 DEF Places
<1>5. MembersServed'
  BY <1>3 DEF MembersServed
<1>6. NoOrphans'
  <2>. SUFFICES ASSUME ~stray', NEW q \in Peers, h'[q] = "serving", q \notin closed'
                PROVE  FALSE
    BY DEF NoOrphans
  <2>1. q # p /\ h[q] = "serving" /\ q \notin closed
    BY <1>1, <1>2 DEF Cleanup, IInv, Places
  <2>2. members[q.role] = q /\ q.role \in Roles /\ q # NoPeer
    BY <1>1, <2>1, RoleFacts DEF IInv, NoOrphans
  <2>3. Session
    BY <2>2 DEF Session
  <2>4. members[p.role] = p
    BY <1>1, <2>3
  <2>5. q.role = Other(p.role)
    BY <1>1, <2>1, <2>2, <2>4, RoleFacts
  <2>6. q \in closed'
    BY <1>2, <2>2, <2>3, <2>5 DEF Cleanup
  <2>. QED
    BY <2>6
<1>. QED
  BY <1>4, <1>5, <1>6 DEF IInv

\* The invariant depends on nothing else.
LEMMA SamePlaces ==
  ASSUME IInv, UNCHANGED places
  PROVE  IInv'
BY DEF IInv, places, Places, MembersServed, NoOrphans

LEMMA NextIInv == IInv /\ [Next]_vars => IInv'
<1>. SUFFICES ASSUME IInv, [Next]_vars PROVE IInv'
  OBVIOUS
<1>1. CASE UNCHANGED vars
  BY <1>1, SamePlaces DEF vars, server, places
<1>2. CASE \E p \in Peers : Client(p) \/ CProbeFails(p) \/ CProbeTimeout(p) \/ CLeave(p)
  <2>1. UNCHANGED server
    BY <1>2 DEF Client, CRegister, CRegistered, CReadsEnd, CLeave, CProbe, CProbeFails,
               CProbeAck, CProbeTimeout, CComplete
  <2>. QED
    BY <2>1, SamePlaces DEF server, places
<1>3. CASE Server
  <2>1. ASSUME NEW p \in Peers, HRegister(p) PROVE IInv'
    BY <2>1, RegisterKeeps
  <2>2. ASSUME NEW p \in Peers, HProbesComplete(p) PROVE IInv'
    BY <2>2, SamePlaces DEF HProbesComplete, places
  <2>3. ASSUME NEW p \in Peers, HEnd(p) PROVE IInv'
    BY <2>3, EndKeeps
  <2>4. ASSUME NEW f \in flying, HProbe(f) \/ HFilterTested(f) PROVE IInv'
    BY <2>4, SamePlaces DEF HProbe, HFilterTested, places
  <2>5. ASSUME CoStart PROVE IInv'
    BY <2>5, SamePlaces DEF CoStart, places
  <2>. QED
    BY <1>3, <2>1, <2>2, <2>3, <2>4, <2>5 DEF Server
<1>. QED
  BY <1>1, <1>2, <1>3 DEF Next

\* However many programs come and go under one session id, and in whatever order their
\* handlers end, no place is held by one whose connection has ended
\* (session_manager.py:31-63, server.py:320-335).
THEOREM MembersAreServed == Spec => []MembersServed
<1>1. IInv => MembersServed
  BY DEF IInv
<1>. QED
  BY InitIInv, NextIInv, <1>1, PTL DEF Spec

\* A client that is served has its place or is being closed, until a handler that has lost
\* its own place ends and takes the session of others with it (session_manager.py:47-63).
THEOREM ServedHavePlaces == Spec => []NoOrphans
<1>1. IInv => NoOrphans
  BY DEF IInv
<1>. QED
  BY InitIInv, NextIInv, <1>1, PTL DEF Spec

----------------------------------------------------------------------------
(* Types.                                                                  *)

\* A program makes a number of probes, and has an address.
LEMMA SetupFacts ==
  ASSUME setup \in Setups, NEW p \in Peers
  PROVE  /\ ProbeCount(p) \in Nat /\ Address(p) \in Roles \cup {"one"}
         /\ setup.conns \in Nat \ {0}
<1>1. Of(p).probes \in Nat /\ setup.conns \in Nat \ {0}
  BY RoleFacts, RegistrationAssumption DEF Roles, Of
<1>2. \A a, b \in Nat : Max({a, b}) \in Nat
  <2>. TAKE a, b \in Nat
  <2>1. \E x \in {a, b} : \A y \in {a, b} : x >= y
    OBVIOUS
  <2>2. Max({a, b}) \in {a, b}
    BY <2>1 DEF Max
  <2>. QED
    BY <2>2
<1>3. setup.conns * 2 * 2 \in Nat
  BY <1>1
<1>4. ProbeCount(p) \in Nat
  BY <1>1, <1>2, <1>3 DEF ProbeCount
<1>5. Address(p) \in Roles \cup {"one"}
  BY RoleFacts DEF Address
<1>. QED
  BY <1>1, <1>4, <1>5

\* What depends on the setup alone.
LEMMA SetupKept ==
  ASSUME UNCHANGED setup
  PROVE  /\ \A p : Of(p)' = Of(p) /\ Address(p)' = Address(p)
         /\ \A p : NeedsProbing(p)' = NeedsProbing(p)
         /\ \A p : ProbeCount(p)' = ProbeCount(p)
         /\ \A p, k : Held(p, k)' = Held(p, k)
<1>1. \A p : Of(p)' = Of(p) /\ Address(p)' = Address(p)
  BY DEF Of, Address
<1>2. \A p : NeedsProbing(p)' = NeedsProbing(p)
  <2>. TAKE p
  <2>1. ControlPort(p)' = ControlPort(p)
    BY Zenon DEF ControlPort, External, Of
  <2>. QED
    BY <2>1 DEF NeedsProbing
<1>3. \A p : ProbeCount(p)' = ProbeCount(p)
  BY <1>1, <1>2 DEF ProbeCount
<1>4. \A p, k : Held(p, k)' = Held(p, k)
  BY <1>1, <1>2, <1>3 DEF Held
<1>. QED
  BY <1>1, <1>2, <1>3, <1>4

LEMMA InitTypes == Init => TypeOK
<1>. SUFFICES ASSUME Init PROVE TypeOK
  OBVIOUS
<1>1. \A p \in Peers : ProbeCount(p) \in Nat
  BY SetupFacts DEF Init
<1>2. \A p \in Peers : begun[p] <= ProbeCount(p)
  BY <1>1 DEF Init
<1>3. NoVerdict \in Verdicts
  BY DEF NoVerdict, Verdicts
<1>. QED
  BY <1>2, <1>3 DEF Init, TypeOK

\* Steps of the clients.
LEMMA ClientTypes ==
  ASSUME TypeOK, NEW p \in Peers, Client(p) \/ CProbeFails(p) \/ CProbeTimeout(p) \/ CLeave(p)
  PROVE  TypeOK'
<1>1. \A q \in Peers : ProbeCount(q) \in Nat
  BY SetupFacts DEF TypeOK
<1>. USE DEF server, client, env
<1>2. UNCHANGED setup
  BY DEF Client, CRegister, CRegistered, CReadsEnd, CLeave, CProbe, CProbeFails,
         CProbeAck, CProbeTimeout, CComplete
<1>3. \A q \in Peers : ProbeCount(q)' = ProbeCount(q)
  BY <1>2, SetupKept
<1>4. CASE CRegister(p) \/ CRegistered(p) \/ CComplete(p)
  BY <1>3, <1>4 DEF CRegister, CRegistered, CComplete, TypeOK
<1>5. CASE CReadsEnd(p) \/ CLeave(p)
  BY <1>3, <1>5 DEF CReadsEnd, CLeave, TypeOK
<1>6. CASE CProbe(p) \/ CProbeFails(p)
  <2>1. begun' = [begun EXCEPT ![p] = @ + 1] /\ begun[p] < ProbeCount(p)
    BY <1>6 DEF CProbe, CProbeFails
  <2>2. begun' \in [Peers -> Nat] /\ begun[p] \in Nat
    BY <2>1 DEF TypeOK
  <2>3. \A q \in Peers : begun'[q] <= ProbeCount(q)'
    BY <1>1, <1>3, <2>1, <2>2 DEF TypeOK
  <2>4. CASE CProbe(p)
    <3>1. waits' \in [Peers -> BOOLEAN]
      BY <2>4 DEF CProbe, TypeOK, Awaits
    <3>2. flying' \subseteq [by : Peers, num : Nat, st : {"sent", "testing", "acked"}]
      BY <2>2, <2>4 DEF CProbe, TypeOK
    <3>. QED
      BY <2>2, <2>3, <2>4, <3>1, <3>2 DEF CProbe, TypeOK
  <2>5. CASE CProbeFails(p)
    BY <2>2, <2>3, <2>5 DEF CProbeFails, TypeOK
  <2>. QED
    BY <1>6, <2>4, <2>5
<1>7. CASE CProbeAck(p)
  <2>1. PICK f \in flying : /\ seen' = [seen EXCEPT ![p] = @ \cup {f.num}]
                            /\ flying' = flying \ {f}
    BY <1>7 DEF CProbeAck
  <2>2. f.num \in Nat
    BY DEF TypeOK
  <2>3. seen' \in [Peers -> SUBSET Nat]
    BY <2>1, <2>2 DEF TypeOK
  <2>4. flying' \subseteq [by : Peers, num : Nat, st : {"sent", "testing", "acked"}]
    BY <2>1 DEF TypeOK
  <2>5. waits' \in [Peers -> BOOLEAN]
    BY <1>7 DEF CProbeAck, TypeOK
  <2>. QED
    BY <1>3, <1>7, <2>3, <2>4, <2>5 DEF CProbeAck, TypeOK
<1>8. CASE CProbeTimeout(p)
  BY <1>3, <1>8 DEF CProbeTimeout, TypeOK
<1>. QED
  BY <1>4, <1>5, <1>6, <1>7, <1>8 DEF Client

\* Steps of the relay.
LEMMA ServerTypes ==
  ASSUME TypeOK, Server
  PROVE  TypeOK'
<1>. USE DEF server, client, env
<1>2. UNCHANGED setup
  BY DEF Server, HRegister, HProbe, HFilterTested, HProbesComplete, CoStart, HEnd
<1>3. \A q \in Peers : ProbeCount(q)' = ProbeCount(q)
  BY <1>2, SetupKept
<1>4. ASSUME NEW p \in Peers, HRegister(p) PROVE TypeOK'
  <2>1. /\ members' \in [Roles -> Peers \cup {NoPeer}]
        /\ \A r \in Roles : members'[r] # NoPeer => members'[r].role = r
    BY <1>4, RoleFacts DEF HRegister, TypeOK
  <2>2. /\ h' \in [Peers -> {"none", "serving", "refused", "ended"}]
        /\ answer' \in [Peers -> {"none", "registered", "error"}]
        /\ probed' \subseteq Peers
    BY <1>4 DEF HRegister, TypeOK
  <2>. QED
    BY <1>3, <1>4, <2>1, <2>2 DEF HRegister, TypeOK
<1>5. ASSUME NEW f \in flying, HProbe(f) \/ HFilterTested(f) PROVE TypeOK'
  <2>1. f \in [by : Peers, num : Nat, st : {"sent", "testing", "acked"}]
    BY DEF TypeOK
  <2>2. \A s \in {"testing", "acked"} :
          [f EXCEPT !.st = s] \in [by : Peers, num : Nat, st : {"sent", "testing", "acked"}]
    BY <2>1
  <2>3. PICK s \in {"testing", "acked"} : flying' = (flying \ {f}) \cup {[f EXCEPT !.st = s]}
    BY <1>5 DEF HProbe, HFilterTested
  <2>4. flying' \subseteq [by : Peers, num : Nat, st : {"sent", "testing", "acked"}]
    BY <2>2, <2>3 DEF TypeOK
  <2>5. filter' \in [Roles \cup {"one"} -> Verdicts]
    <3>1. (members[f.by.role] = f.by) \in BOOLEAN
      BY Zenon
    <3>2. [by |-> f.by, housed |-> members[f.by.role] = f.by] \in Verdicts
      BY <2>1, <3>1 DEF Verdicts
    <3>. QED
      BY <1>5, <3>2 DEF HProbe, HFilterTested, TypeOK
  <2>. QED
    BY <1>3, <1>5, <2>4, <2>5 DEF HProbe, HFilterTested, TypeOK
<1>6. ASSUME NEW p \in Peers, HProbesComplete(p) PROVE TypeOK'
  <2>1. Address(p) \in Roles \cup {"one"}
    BY SetupFacts DEF TypeOK
  <2>2. /\ filter' \in [Roles \cup {"one"} -> Verdicts]
        /\ known' \in [Peers -> Verdicts]
    <3>1. NoVerdict \in Verdicts
      BY DEF NoVerdict, Verdicts
    <3>. QED
      BY <1>6, <2>1, <3>1 DEF HProbesComplete, TypeOK
  <2>3. complete' \subseteq Peers /\ probed' \subseteq Peers /\ starting' \in Nat
    BY <1>6 DEF HProbesComplete, TypeOK
  <2>. QED
    BY <1>3, <1>6, <2>2, <2>3 DEF HProbesComplete, TypeOK
<1>7. ASSUME CoStart PROVE TypeOK'
  BY <1>3, <1>7 DEF CoStart, TypeOK
<1>8. ASSUME NEW p \in Peers, HEnd(p) PROVE TypeOK'
  <2>1. Cleanup(p) /\ p.role \in Roles
    BY <1>8, RoleFacts DEF HEnd
  <2>2. Other(p.role) \in Roles
    BY <2>1, RoleFacts
  <2>3. /\ members' \in [Roles -> Peers \cup {NoPeer}]
        /\ \A r \in Roles : members'[r] # NoPeer => members'[r].role = r
    BY <2>1 DEF Cleanup, TypeOK
  <2>4. closed' \subseteq Peers
    BY <2>1, <2>2 DEF Cleanup, TypeOK
  <2>5. h' \in [Peers -> {"none", "serving", "refused", "ended"}] /\ stray' \in BOOLEAN
    BY <1>8, Zenon DEF HEnd, TypeOK, Session
  <2>. QED
    BY <1>3, <1>8, <2>3, <2>4, <2>5 DEF HEnd, TypeOK
<1>. QED
  BY <1>4, <1>5, <1>6, <1>7, <1>8 DEF Server

LEMMA NextTypes == TypeOK /\ [Next]_vars => TypeOK'
<1>. SUFFICES ASSUME TypeOK, [Next]_vars PROVE TypeOK'
  OBVIOUS
<1>1. CASE UNCHANGED vars
  <2>1. \A q : ProbeCount(q)' = ProbeCount(q)
    BY <1>1, SetupKept DEF vars, env
  <2>. QED
    BY <1>1, <2>1 DEF vars, env, client, server, TypeOK
<1>2. CASE \E p \in Peers : Client(p) \/ CProbeFails(p) \/ CProbeTimeout(p) \/ CLeave(p)
  BY <1>2, ClientTypes
<1>3. CASE Server
  BY <1>3, ServerTypes
<1>. QED
  BY <1>1, <1>2, <1>3 DEF Next

\* Every variable keeps its type; no program begins more probes than its NAT and its options
\* call for (relay.rs:135-150), and a session's place is only ever held by a program started
\* for that role (session_manager.py:31-45).
THEOREM TypeCorrect == Spec => []TypeOK
BY InitTypes, NextTypes, PTL DEF Spec

----------------------------------------------------------------------------
(* Both are told.                                                          *)

\* The only program of a role, if it is started once.
One(r) == [role |-> r, run |-> 1]

\* Each is started once, and none leaves.
Undisturbed == leaves = 0 /\ \A r \in Roles : setup[r].runs = 1

\* Where a program has got to that the relay keeps in its session.
Arrived(p) ==
  /\ c[p] # "off" => p = One(p.role)
  /\ h[p] # "none" => h[p] = "serving" /\ members[p.role] = p /\ c[p] # "off"
  /\ answer[p] # "error"
  /\ p \in complete => p \in probed /\ h[p] = "serving"

\* With the last `probes_complete` a coordinator is started, and it finds both.
CoordinatorFollows ==
  (\A r \in Roles : One(r) \in complete) =>
    starting > 0 \/ \A r \in Roles : told[One(r)].about = One(Other(r))

Meeting ==
  Undisturbed => /\ gone = {} /\ closed = {}
                 /\ \A p \in Peers : Arrived(p)
                 /\ CoordinatorFollows

MeetInv == TypeOK /\ IInv /\ Meeting

LEMMA OneFacts ==
  /\ \A r \in Roles : One(r) \in Peers /\ One(r).role = r
  /\ \A p \in Peers : p.run = 1 => p = One(p.role)
<1>1. 1 \in 1 .. MaxRuns
  BY RegistrationAssumption
<1>2. ASSUME NEW p \in Peers, p.run = 1 PROVE p = One(p.role)
  BY <1>2 DEF Peers, One
<1>. QED
  BY <1>1, <1>2 DEF Peers, One

LEMMA InitMeeting == Init => Meeting
<1>. SUFFICES ASSUME Init PROVE Meeting
  OBVIOUS
<1>1. \A p \in Peers : Arrived(p)
  BY DEF Init, Arrived
<1>2. CoordinatorFollows
  BY OneFacts DEF Init, CoordinatorFollows, Roles
<1>. QED
  BY <1>1, <1>2 DEF Init, Meeting

\* Steps of the clients: none leaves, and none reads an end.
LEMMA ClientMeets ==
  ASSUME MeetInv, Undisturbed, Undisturbed', NEW p \in Peers,
         Client(p) \/ CProbeFails(p) \/ CProbeTimeout(p) \/ CLeave(p)
  PROVE  Meeting'
<1>. USE DEF server, client, env
<1>1. /\ gone = {} /\ closed = {} /\ \A q \in Peers : Arrived(q)
      /\ CoordinatorFollows /\ leaves = 0 /\ p.role \in Roles
  BY RoleFacts DEF MeetInv, Meeting, Undisturbed
<1>2. ~CReadsEnd(p)
  BY <1>1 DEF CReadsEnd, Arrived
<1>3. ~CLeave(p)
  BY <1>1 DEF CLeave, Undisturbed
<1>4. CASE CRegister(p)
  <2>1. p.run <= 1 /\ p.run \in 1 .. MaxRuns
    BY <1>1, <1>4 DEF CRegister, CanStart, Undisturbed, Of, Peers
  <2>2. p = One(p.role)
    BY <2>1, OneFacts, RegistrationAssumption
  <2>3. c' = [c EXCEPT ![p] = "register"]
    BY <1>4 DEF CRegister
  <2>4. \A q \in Peers : Arrived(q)'
    BY <1>1, <1>4, <2>2, <2>3 DEF CRegister, Arrived, MeetInv, TypeOK
  <2>5. CoordinatorFollows' /\ gone' = {} /\ closed' = {}
    BY <1>1, <1>4 DEF CRegister, CoordinatorFollows
  <2>. QED
    BY <2>4, <2>5 DEF Meeting
<1>5. CASE CRegistered(p) \/ CComplete(p)
  <2>1. \A q \in Peers : c'[q] # "off" <=> c[q] # "off"
    BY <1>5 DEF CRegistered, CComplete, MeetInv, TypeOK
  <2>2. \A q \in Peers : Arrived(q)'
    BY <1>1, <1>5, <2>1 DEF CRegistered, CComplete, Arrived
  <2>3. CoordinatorFollows' /\ gone' = {} /\ closed' = {}
    BY <1>1, <1>5 DEF CRegistered, CComplete, CoordinatorFollows
  <2>. QED
    BY <2>2, <2>3 DEF Meeting
<1>6. CASE CProbe(p) \/ CProbeFails(p) \/ CProbeAck(p) \/ CProbeTimeout(p)
  <2>1. UNCHANGED <<c, gone, server>>
    BY <1>6 DEF CProbe, CProbeFails, CProbeAck, CProbeTimeout
  <2>2. \A q \in Peers : Arrived(q)'
    BY <1>1, <2>1 DEF Arrived
  <2>3. CoordinatorFollows' /\ gone' = {} /\ closed' = {}
    BY <1>1, <2>1 DEF CoordinatorFollows
  <2>. QED
    BY <2>2, <2>3 DEF Meeting
<1>. QED
  BY <1>2, <1>3, <1>4, <1>5, <1>6 DEF Client

\* A registration finds its place free: the program of its role is the only one.
LEMMA RegisterMeets ==
  ASSUME MeetInv, Undisturbed, NEW p \in Peers, HRegister(p)
  PROVE  Meeting'
<1>1. /\ gone = {} /\ closed = {} /\ \A q \in Peers : Arrived(q)
      /\ CoordinatorFollows /\ p.role \in Roles
  BY RoleFacts DEF MeetInv, Meeting
<1>2. c[p] # "off" /\ h[p] = "none"
  BY DEF HRegister
<1>3. members[p.role] = NoPeer
  <2>. SUFFICES ASSUME members[p.role] # NoPeer PROVE FALSE
    OBVIOUS
  <2>. DEFINE q == members[p.role]
  <2>1. q \in Peers /\ q.role = p.role /\ h[q] = "serving"
    BY <1>1 DEF MeetInv, TypeOK, IInv, MembersServed
  <2>2. q = One(q.role) /\ p = One(p.role)
    BY <1>1, <1>2, <2>1 DEF Arrived
  <2>. QED
    BY <1>2, <2>1, <2>2
<1>4. /\ h' = [h EXCEPT ![p] = "serving"] /\ answer' = [answer EXCEPT ![p] = "registered"]
      /\ members' = [members EXCEPT ![p.role] = p]
  BY <1>3 DEF HRegister
<1>5. /\ UNCHANGED <<c, gone, closed, complete, starting, told>> /\ probed \subseteq probed'
  BY DEF HRegister, client
<1>6. ASSUME NEW q \in Peers PROVE Arrived(q)'
  <2>1. CASE q = p
    BY <1>1, <1>2, <1>4, <1>5, <2>1 DEF Arrived, MeetInv, TypeOK
  <2>2. CASE q # p
    <3>1. h'[q] = h[q] /\ answer'[q] = answer[q]
      BY <1>4, <2>2 DEF MeetInv, TypeOK
    <3>2. h[q] # "none" => members'[q.role] = q
      <4>. SUFFICES ASSUME h[q] # "none" PROVE members'[q.role] = q
        OBVIOUS
      <4>1. members[q.role] = q /\ q # NoPeer /\ q.role \in Roles
        BY <1>1, RoleFacts DEF Arrived
      <4>2. q.role # p.role
        BY <1>3, <4>1
      <4>. QED
        BY <1>4, <4>1, <4>2 DEF MeetInv, TypeOK
    <3>. QED
      BY <1>1, <1>5, <3>1, <3>2 DEF Arrived
  <2>. QED
    BY <2>1, <2>2
<1>7. CoordinatorFollows'
  BY <1>1, <1>5 DEF CoordinatorFollows
<1>. QED
  BY <1>1, <1>5, <1>6, <1>7 DEF Meeting

\* The second `probes_complete` finds both in the session, and both probed.
LEMMA CompleteMeets ==
  ASSUME MeetInv, Undisturbed, NEW p \in Peers, HProbesComplete(p)
  PROVE  Meeting'
<1>1. /\ gone = {} /\ closed = {} /\ \A q \in Peers : Arrived(q)
      /\ CoordinatorFollows
  BY DEF MeetInv, Meeting
<1>2. /\ h[p] = "serving" /\ p \notin complete
      /\ complete' = complete \cup {p} /\ probed' = probed \cup {p}
      /\ starting' = IF HasBoth /\ \A r \in Roles : members[r] \in probed'
                     THEN starting + 1 ELSE starting
      /\ UNCHANGED <<c, gone, closed, h, members, answer, told>>
  BY DEF HProbesComplete, client
<1>3. \A q \in Peers : Arrived(q)'
  BY <1>1, <1>2 DEF Arrived
<1>4. CoordinatorFollows'
  <2>. SUFFICES ASSUME \A r \in Roles : One(r) \in complete' PROVE starting' > 0
    BY DEF CoordinatorFollows
  <2>1. ASSUME NEW r \in Roles PROVE members[r] = One(r) /\ One(r) \in probed' /\ One(r) # NoPeer
    <3>1. One(r) \in Peers /\ One(r).role = r /\ One(r) \in complete'
      BY OneFacts
    <3>. QED
      BY <1>2, <1>3, <3>1, RoleFacts DEF Arrived
  <2>2. HasBoth /\ \A r \in Roles : members[r] \in probed'
    BY <2>1 DEF HasBoth
  <2>3. starting' = starting + 1 /\ starting \in Nat
    BY <1>2, <2>2 DEF MeetInv, TypeOK
  <2>. QED
    BY <2>3
<1>. QED
  BY <1>1, <1>2, <1>3, <1>4 DEF Meeting

\* The coordinator's first look.
LEMMA CoStartMeets ==
  ASSUME MeetInv, Undisturbed, CoStart
  PROVE  Meeting'
<1>1. /\ gone = {} /\ closed = {} /\ \A q \in Peers : Arrived(q)
  BY DEF MeetInv, Meeting
<1>2. UNCHANGED <<c, gone, closed, h, members, answer, complete, probed>>
  BY DEF CoStart, client
<1>3. \A q \in Peers : Arrived(q)'
  BY <1>1, <1>2 DEF Arrived
<1>4. CoordinatorFollows'
  <2>. SUFFICES ASSUME \A r \in Roles : One(r) \in complete,
                       NEW r \in Roles
                PROVE  told'[One(r)].about = One(Other(r))
    BY <1>2 DEF CoordinatorFollows
  <2>1. \A s \in Roles : /\ members[s] = One(s) /\ One(s) # NoPeer
                          /\ One(s) \in Peers /\ One(s).role = s
    <3>. TAKE s \in Roles
    <3>1. One(s) \in Peers /\ One(s).role = s /\ One(s) \in complete
      BY OneFacts
    <3>. QED
      BY <1>1, <3>1, RoleFacts DEF Arrived
  <2>2. HasBoth /\ Other(r) \in Roles
    BY <2>1, RoleFacts DEF HasBoth
  <2>. DEFINE p == members[Other(r)]
  <2>3. told'[One(r)] = [about |-> p, at |-> [n \in 1 .. setup.conns |-> AddressesOf(p, n - 1)],
                         judged |-> p \in probed]
    BY <2>1, <2>2 DEF CoStart
  <2>. QED
    BY <2>1, <2>2, <2>3
<1>. QED
  BY <1>1, <1>2, <1>3, <1>4 DEF Meeting

LEMMA NextMeeting == MeetInv /\ [Next]_vars => Meeting'
<1>. SUFFICES ASSUME MeetInv, [Next]_vars, Undisturbed' PROVE Meeting'
  BY DEF Meeting
<1>1. Undisturbed
  <2>1. setup' = setup /\ (leaves' = leaves \/ leaves' = leaves + 1)
    BY DEF Next, vars, Client, CRegister, CRegistered, CReadsEnd, CLeave, CProbe, CProbeFails,
           CProbeAck, CProbeTimeout, CComplete, Server, HRegister, HProbe, HFilterTested,
           HProbesComplete, CoStart, HEnd, env
  <2>2. leaves \in Nat
    BY DEF MeetInv, TypeOK
  <2>. QED
    BY <2>1, <2>2 DEF Undisturbed
<1>2. CASE UNCHANGED vars
  BY <1>1, <1>2 DEF vars, client, server, env, MeetInv, Meeting, Arrived, CoordinatorFollows
<1>3. CASE \E p \in Peers : Client(p) \/ CProbeFails(p) \/ CProbeTimeout(p) \/ CLeave(p)
  BY <1>1, <1>3, ClientMeets
<1>4. CASE Server
  <2>1. ASSUME NEW p \in Peers PROVE ~HEnd(p)
    BY <1>1 DEF HEnd, MeetInv, Meeting
  <2>2. ASSUME NEW f \in flying, HProbe(f) \/ HFilterTested(f) PROVE Meeting'
    BY <1>1, <2>2 DEF HProbe, HFilterTested, client, MeetInv, Meeting, Arrived, CoordinatorFollows
  <2>. QED
    BY <1>1, <1>4, <2>1, <2>2, RegisterMeets, CompleteMeets, CoStartMeets DEF Server
<1>. QED
  BY <1>2, <1>3, <1>4 DEF Next

LEMMA MeetInvHolds == Spec => []MeetInv
<1>1. Init => MeetInv
  BY InitTypes, InitIInv, InitMeeting DEF MeetInv
<1>2. MeetInv /\ [Next]_vars => MeetInv'
  BY NextTypes, NextIInv, NextMeeting DEF MeetInv
<1>. QED
  BY <1>1, <1>2, PTL DEF Spec

\* Whichever client registers or finishes its probes last, and also if one of them counts as
\* probed from its registration on, when nothing is left to do both have been told of each
\* other (handlers.py:182-278): the handler that completes the pair starts the coordinator,
\* and the coordinator finds both in the session.
THEOREM BothToldHolds == Spec => []BothTold
<1>1. MeetInv => BothTold
  <2>. SUFFICES ASSUME MeetInv, Over, leaves = 0, \A r \in Roles : setup[r].runs = 1,
                       NEW r \in Roles
                PROVE  told[One(r)].about = One(Other(r))
    BY DEF BothTold, One
  <2>1. Undisturbed /\ gone = {} /\ closed = {} /\ CoordinatorFollows
    BY DEF MeetInv, Meeting, Undisturbed
  <2>2. ASSUME NEW s \in Roles PROVE One(s) \in complete
    <3>1. One(s) \in Peers /\ One(s).run = 1 /\ One(s).role = s
      BY OneFacts DEF One
    <3>2. One(s).run <= Of(One(s)).runs /\ ~(One(s).run > 1)
      BY <3>1 DEF Of
    <3>3. ~CanStart(One(s))
      BY <3>1, Zenon DEF Over
    <3>4. c[One(s)] # "off"
      BY <3>2, <3>3, Zenon DEF CanStart
    <3>. QED
      BY <2>1, <3>1, <3>4 DEF Over
  <2>3. starting = 0
    BY DEF Over
  <2>. QED
    BY <2>1, <2>2, <2>3 DEF CoordinatorFollows
<1>. QED
  BY MeetInvHolds, <1>1, PTL

----------------------------------------------------------------------------
(* The probes.                                                             *)

\* All that the relay can note.
Notes == {Noted(x[1], x[2], x[3]) : x \in Peers \X Nat \X BOOLEAN}

\* A program's address is its own, or that of both.
SameAddress(p, q) == Address(p) = Address(q)

\* The session's probes are of the programs in it: while no handler takes another's session
\* for its own, each that was noted when its program had its place still finds it there.
ProbesOfSession ==
  ~stray => \A k \in DOMAIN pending :
    pending[k].housed => members[pending[k].by.role] = pending[k].by

NotesKept == pending \in Seq(Notes) /\ taken \in [Peers -> Seq(Notes)]

SessionInv == TypeOK /\ IInv /\ NotesKept /\ ProbesOfSession /\ AnalysisKeepsToSession

LEMMA NoteFacts ==
  /\ \A p \in Peers, k \in Nat, b \in BOOLEAN : Noted(p, k, b) \in Notes
  /\ \A p, k, b : /\ Noted(p, k, b).by = p /\ Noted(p, k, b).num = k
                  /\ Noted(p, k, b).housed = b
<1>1. ASSUME NEW p \in Peers, NEW k \in Nat, NEW b \in BOOLEAN PROVE Noted(p, k, b) \in Notes
  <2>1. <<p, k, b>> \in Peers \X Nat \X BOOLEAN
    OBVIOUS
  <2>. QED
    BY <2>1 DEF Notes
<1>2. ASSUME NEW p, NEW k, NEW b
      PROVE  /\ Noted(p, k, b).by = p /\ Noted(p, k, b).num = k
             /\ Noted(p, k, b).housed = b
  BY DEF Noted
<1>. QED
  BY <1>1, <1>2

LEMMA NoteTypes ==
  ASSUME NEW x \in Notes
  PROVE  x.by \in Peers /\ x.num \in Nat /\ x.housed \in BOOLEAN
<1>1. PICK y \in Peers \X Nat \X BOOLEAN : x = Noted(y[1], y[2], y[3])
  BY DEF Notes
<1>2. y[1] \in Peers /\ y[2] \in Nat /\ y[3] \in BOOLEAN
  BY <1>1
<1>. QED
  BY <1>1, <1>2, NoteFacts

LEMMA NotesSame ==
  ASSUME UNCHANGED setup
  PROVE  Notes' = Notes
<1>1. \A p : NeedsProbing(p)' = NeedsProbing(p) /\ Of(p)' = Of(p)
  BY SetupKept
<1>2. \A p, l, z, k : External(p, l, z, k)' = External(p, l, z, k)
  BY <1>1, Zenon DEF External
<1>3. \A p, k : Probe(p, k)' = Probe(p, k)
  BY <1>1, <1>2 DEF Probe
<1>4. \A p, k, b : Noted(p, k, b)' = Noted(p, k, b)
  BY <1>3, Zenon DEF Noted
<1>. QED
  BY <1>4, Zenon DEF Notes

\* Programs of different roles have one address only if both are behind it.
LEMMA AddressFacts ==
  ASSUME NEW p \in Peers, NEW q \in Peers, Address(p) = Address(q)
  PROVE  setup.shared \/ p.role = q.role
BY DEF Address

\* One of two served programs of a role has its place; they are the same.
LEMMA OneServed ==
  ASSUME IInv, ~stray, NEW p \in Peers, NEW q \in Peers, p.role = q.role,
         h[p] = "serving", p \notin closed, h[q] = "serving", q \notin closed
  PROVE  p = q
BY DEF IInv, NoOrphans

\* HProbe notes the probe behind those it has.
LEMMA ProbeNotes ==
  ASSUME TypeOK, NotesKept, NEW f \in flying, HProbe(f)
  PROVE  LET x == Noted(f.by, f.num, members[f.by.role] = f.by)
         IN /\ x \in Notes /\ pending' = Append(pending, x) /\ pending' \in Seq(Notes)
            /\ DOMAIN pending' = DOMAIN pending \cup {Len(pending) + 1}
            /\ \A k \in DOMAIN pending : pending'[k] = pending[k]
            /\ pending'[Len(pending) + 1] = x
<1>. DEFINE x == Noted(f.by, f.num, members[f.by.role] = f.by)
<1>1. x \in Notes
  <2>1. f.by \in Peers /\ f.num \in Nat
    BY DEF TypeOK
  <2>2. (members[f.by.role] = f.by) \in BOOLEAN
    BY Zenon
  <2>. QED
    BY <2>1, <2>2, NoteFacts
<1>2. pending' = Append(pending, x)
  BY DEF HProbe
<1>. HIDE DEF x
<1>3. /\ pending' \in Seq(Notes) /\ Len(pending') = Len(pending) + 1
      /\ \A i \in 1 .. Len(pending) : pending'[i] = pending[i]
      /\ pending'[Len(pending) + 1] = x
  BY <1>1, <1>2, AppendProperties DEF NotesKept
<1>4. /\ Len(pending) \in Nat /\ DOMAIN pending = 1 .. Len(pending)
      /\ DOMAIN pending' = 1 .. Len(pending')
  BY <1>3 DEF NotesKept
<1>5. DOMAIN pending' = DOMAIN pending \cup {Len(pending) + 1}
  BY <1>3, <1>4
<1>6. \A k \in DOMAIN pending : pending'[k] = pending[k]
  BY <1>3, <1>4
<1>7. x \in Notes /\ pending' = Append(pending, x) /\ pending' \in Seq(Notes)
  BY <1>1, <1>2, <1>3
<1>8. pending'[Len(pending) + 1] = x
  BY <1>3
<1>. QED
  BY <1>5, <1>6, <1>7, <1>8 DEF x

\* Where probes_complete of p finds its probes, and what becomes of the others.
Own(p) == {k \in DOMAIN pending : Address(pending[k].by) = Address(p)}

LEMMA CompleteTakes ==
  ASSUME NotesKept, NEW p \in Peers, HProbesComplete(p), NeedsProbing(p)
  PROVE  /\ pending' \in Seq(Notes)
         /\ \A j \in DOMAIN pending' : \E k \in DOMAIN pending \ Own(p) : pending'[j] = pending[k]
         /\ \A k \in DOMAIN pending \ Own(p) : \E j \in DOMAIN pending' : pending'[j] = pending[k]
         /\ taken' = [taken EXCEPT ![p] = Those(pending, Own(p))]
         /\ Those(pending, Own(p)) \in Seq(Notes)
         /\ \A j \in DOMAIN Those(pending, Own(p)) :
              \E k \in Own(p) : Those(pending, Own(p))[j] = pending[k]
         /\ \A k \in Own(p) :
              \E j \in DOMAIN Those(pending, Own(p)) : Those(pending, Own(p))[j] = pending[k]
<1>1. /\ taken' = [taken EXCEPT ![p] = Those(pending, Own(p))]
      /\ pending' = Those(pending, DOMAIN pending \ Own(p))
  BY DEF HProbesComplete, Own
<1>2. pending \in Seq(Notes)
  BY DEF NotesKept
<1>3. Own(p) \in SUBSET DOMAIN pending
  BY DEF Own
<1>4. DOMAIN pending \ Own(p) \in SUBSET DOMAIN pending
  OBVIOUS
<1>5. /\ Those(pending, Own(p)) \in Seq(Notes)
      /\ \A j \in DOMAIN Those(pending, Own(p)) :
           \E k \in Own(p) : Those(pending, Own(p))[j] = pending[k]
      /\ \A k \in Own(p) :
           \E j \in DOMAIN Those(pending, Own(p)) : Those(pending, Own(p))[j] = pending[k]
  BY <1>2, <1>3, ThoseFacts
<1>6. /\ pending' \in Seq(Notes)
      /\ \A j \in DOMAIN pending' : \E k \in DOMAIN pending \ Own(p) : pending'[j] = pending[k]
      /\ \A k \in DOMAIN pending \ Own(p) : \E j \in DOMAIN pending' : pending'[j] = pending[k]
  BY <1>1, <1>2, <1>4, ThoseFacts, ZenonT(30)
<1>. QED
  BY <1>1, <1>5, <1>6

LEMMA InitSession == Init => NotesKept /\ ProbesOfSession /\ AnalysisKeepsToSession
BY DEF Init, NotesKept, ProbesOfSession, AnalysisKeepsToSession

\* A step that leaves the probes and the session alone.
LEMMA SessionSame ==
  ASSUME SessionInv, UNCHANGED <<setup, pending, taken, members, stray>>
  PROVE  NotesKept' /\ ProbesOfSession' /\ AnalysisKeepsToSession'
<1>1. Notes' = Notes
  BY NotesSame
<1>. QED
  BY <1>1 DEF SessionInv, NotesKept, ProbesOfSession, AnalysisKeepsToSession

\* A registration takes a place that was nobody's.
LEMMA RegisterSession ==
  ASSUME SessionInv, NEW p \in Peers, HRegister(p)
  PROVE  NotesKept' /\ ProbesOfSession' /\ AnalysisKeepsToSession'
<1>1. /\ members' = IF members[p.role] = NoPeer THEN [members EXCEPT ![p.role] = p] ELSE members
      /\ UNCHANGED <<setup, pending, taken, stray>>
  BY DEF HRegister, env
<1>2. Notes' = Notes
  BY <1>1, NotesSame
<1>3. NotesKept' /\ AnalysisKeepsToSession'
  BY <1>1, <1>2 DEF SessionInv, NotesKept, AnalysisKeepsToSession
<1>4. ProbesOfSession'
  <2>. SUFFICES ASSUME ~stray, NEW k \in DOMAIN pending, pending[k].housed
                PROVE  members'[pending[k].by.role] = pending[k].by
    BY <1>1 DEF ProbesOfSession
  <2>. DEFINE q == pending[k].by
  <2>1. members[q.role] = q
    BY DEF SessionInv, ProbesOfSession
  <2>2. pending[k] \in Notes
    BY DEF SessionInv, NotesKept
  <2>3. q \in Peers
    BY <2>2, NoteTypes
  <2>4. q # NoPeer /\ q.role \in Roles
    BY <2>3, RoleFacts
  <2>. QED
    BY <1>1, <2>1, <2>4 DEF SessionInv, TypeOK
<1>. QED
  BY <1>3, <1>4

\* A probe is noted with the place its program has, or has not.
LEMMA ProbeSession ==
  ASSUME SessionInv, NEW f \in flying, HProbe(f)
  PROVE  NotesKept' /\ ProbesOfSession' /\ AnalysisKeepsToSession'
<1>. DEFINE x == Noted(f.by, f.num, members[f.by.role] = f.by)
<1>1. /\ UNCHANGED <<setup, taken, members, stray>>
  BY DEF HProbe, env
<1>2. /\ pending' \in Seq(Notes)
      /\ DOMAIN pending' = DOMAIN pending \cup {Len(pending) + 1}
      /\ \A k \in DOMAIN pending : pending'[k] = pending[k]
      /\ pending'[Len(pending) + 1] = x
  BY ProbeNotes DEF SessionInv
<1>3. x.by = f.by /\ x.housed = (members[f.by.role] = f.by)
  BY NoteFacts
<1>. HIDE DEF x
<1>4. Notes' = Notes
  BY <1>1, NotesSame
<1>5. NotesKept' /\ AnalysisKeepsToSession'
  BY <1>1, <1>2, <1>4 DEF SessionInv, NotesKept, AnalysisKeepsToSession
<1>6. ProbesOfSession'
  <2>. SUFFICES ASSUME ~stray, NEW k \in DOMAIN pending', pending'[k].housed
                PROVE  members[pending'[k].by.role] = pending'[k].by
    BY <1>1 DEF ProbesOfSession
  <2>1. CASE k \in DOMAIN pending
    BY <1>2, <2>1 DEF SessionInv, ProbesOfSession
  <2>2. CASE k = Len(pending) + 1
    <3>1. pending'[k] = x
      BY <1>2, <2>2
    <3>2. members[f.by.role] = f.by
      BY <1>3, <3>1, Zenon
    <3>. QED
      BY <1>3, <3>1, <3>2
  <2>. QED
    BY <1>2, <2>1, <2>2
<1>. QED
  BY <1>5, <1>6

\* The probes a client that has its place finds at its address were sent by it, by its peer
\* behind the same address, or by programs that had no place.
LEMMA CompleteSession ==
  ASSUME SessionInv, NEW p \in Peers, HProbesComplete(p)
  PROVE  NotesKept' /\ ProbesOfSession' /\ AnalysisKeepsToSession'
<1>1. /\ h[p] = "serving" /\ p \notin closed
      /\ UNCHANGED <<setup, members, stray>>
  BY DEF HProbesComplete, env
<1>2. Notes' = Notes
  BY <1>1, NotesSame
<1>3. CASE ~NeedsProbing(p)
  <2>1. UNCHANGED <<taken, pending>>
    BY <1>3 DEF HProbesComplete
  <2>. QED
    BY <1>1, <2>1, SessionSame
<1>4. CASE NeedsProbing(p)
  <2>. DEFINE mine == Those(pending, Own(p))
  <2>1. /\ pending' \in Seq(Notes)
        /\ \A j \in DOMAIN pending' :
             \E k \in DOMAIN pending \ Own(p) : pending'[j] = pending[k]
        /\ taken' = [taken EXCEPT ![p] = mine] /\ mine \in Seq(Notes)
        /\ \A j \in DOMAIN mine : \E k \in Own(p) : mine[j] = pending[k]
    BY <1>4, CompleteTakes DEF SessionInv
  <2>. HIDE DEF mine
  <2>2. \A q \in Peers : taken'[q] = IF q = p THEN mine ELSE taken[q]
    BY <2>1 DEF SessionInv, NotesKept
  <2>3. NotesKept'
    BY <1>2, <2>1, <2>2 DEF SessionInv, NotesKept
  <2>4. ProbesOfSession'
    BY <1>1, <2>1 DEF SessionInv, ProbesOfSession
  <2>5. AnalysisKeepsToSession'
    <3>. SUFFICES ASSUME ~stray, NEW q \in Peers, NEW k \in DOMAIN taken'[q],
                         taken'[q][k].housed, ~setup.shared
                  PROVE  taken'[q][k].by = q
      BY <1>1 DEF AnalysisKeepsToSession
    <3>1. CASE q # p
      BY <2>2, <3>1 DEF SessionInv, AnalysisKeepsToSession
    <3>2. CASE q = p
      <4>1. PICK i \in Own(p) : mine[k] = pending[i]
        BY <2>1, <2>2, <3>2
      <4>. DEFINE b == pending[i].by
      <4>2. i \in DOMAIN pending /\ Address(b) = Address(p) /\ pending[i].housed
        BY <2>2, <3>2, <4>1 DEF Own
      <4>3. pending[i] \in Notes
        BY <4>2 DEF SessionInv, NotesKept
      <4>4. b \in Peers /\ members[b.role] = b
        BY <4>2, <4>3, NoteTypes DEF SessionInv, ProbesOfSession
      <4>5. b.role = p.role
        BY <4>2, <4>4, AddressFacts
      <4>6. members[p.role] = p
        BY <1>1 DEF SessionInv, IInv, NoOrphans
      <4>. QED
        BY <2>2, <3>2, <4>1, <4>4, <4>5, <4>6
    <3>. QED
      BY <3>1, <3>2
  <2>. QED
    BY <2>3, <2>4, <2>5
<1>. QED
  BY <1>3, <1>4

\* With the session go its probes.
LEMMA EndSession ==
  ASSUME SessionInv, NEW p \in Peers, HEnd(p)
  PROVE  NotesKept' /\ ProbesOfSession' /\ AnalysisKeepsToSession'
<1>1. Cleanup(p) /\ UNCHANGED <<setup, taken>> /\ (stray => stray')
  BY DEF HEnd, env
<1>2. pending' = <<>> \/ UNCHANGED <<members, pending>>
  BY <1>1 DEF Cleanup
<1>3. Notes' = Notes
  BY <1>1, NotesSame
<1>4. pending' \in Seq(Notes)
  <2>1. <<>> \in Seq(Notes)
    OBVIOUS
  <2>. QED
    BY <1>2, <2>1 DEF SessionInv, NotesKept
<1>5. NotesKept' /\ AnalysisKeepsToSession'
  BY <1>1, <1>3, <1>4 DEF SessionInv, NotesKept, AnalysisKeepsToSession
<1>6. ProbesOfSession'
  BY <1>1, <1>2 DEF SessionInv, ProbesOfSession
<1>. QED
  BY <1>5, <1>6

LEMMA NextSession ==
  SessionInv /\ [Next]_vars => NotesKept' /\ ProbesOfSession' /\ AnalysisKeepsToSession'
<1>. SUFFICES ASSUME SessionInv, [Next]_vars
              PROVE  NotesKept' /\ ProbesOfSession' /\ AnalysisKeepsToSession'
  OBVIOUS
<1>1. CASE UNCHANGED vars
  BY <1>1, SessionSame DEF vars, env, server
<1>2. CASE \E p \in Peers : Client(p) \/ CProbeFails(p) \/ CProbeTimeout(p) \/ CLeave(p)
  <2>1. UNCHANGED <<setup, server>>
    BY <1>2 DEF Client, CRegister, CRegistered, CReadsEnd, CLeave, CProbe, CProbeFails,
               CProbeAck, CProbeTimeout, CComplete, env
  <2>. QED
    BY <2>1, SessionSame DEF server
<1>3. CASE Server
  <2>1. ASSUME NEW f \in flying, HFilterTested(f)
        PROVE  NotesKept' /\ ProbesOfSession' /\ AnalysisKeepsToSession'
    BY <2>1, SessionSame DEF HFilterTested, env
  <2>2. ASSUME CoStart PROVE NotesKept' /\ ProbesOfSession' /\ AnalysisKeepsToSession'
    BY <2>2, SessionSame DEF CoStart, env
  <2>. QED
    BY <1>3, <2>1, <2>2, RegisterSession, ProbeSession, CompleteSession, EndSession DEF Server
<1>. QED
  BY <1>1, <1>2, <1>3 DEF Next

LEMMA SessionInvHolds == Spec => []SessionInv
<1>1. Init => SessionInv
  BY InitTypes, InitIInv, InitSession DEF SessionInv
<1>2. SessionInv /\ [Next]_vars => SessionInv'
  BY NextTypes, NextIInv, NextSession DEF SessionInv
<1>. QED
  BY <1>1, <1>2, PTL DEF Spec

\* However often programs are started again under one session id, a probe noted while its
\* client had its place in the session is in no later program's analysis, unless both
\* clients are behind one address (session_manager.py:47-63, handlers.py:199-221): with the
\* session go its probes.
THEOREM AnalysesKeepToSession == Spec => []AnalysisKeepsToSession
<1>1. SessionInv => AnalysisKeepsToSession
  BY DEF SessionInv
<1>. QED
  BY SessionInvHolds, <1>1, PTL

----------------------------------------------------------------------------
(* No acknowledged probe is lost.                                          *)

\* How far a program has come, at the relay and on its own side.
Course(p) ==
  /\ h[p] = "none" => answer[p] = "none"
  /\ c[p] \in {"probing", "done"} => answer[p] = "registered"
  /\ c[p] \in {"off", "register"} => /\ seen[p] = {} /\ ~waits[p]
                                     /\ \A f \in flying : f.by # p
  /\ c[p] = "done" => ~waits[p]
  /\ p \in complete => c[p] = "done"
  /\ p \notin complete => taken[p] = <<>> /\ known[p] = NoVerdict

\* The relay has noted the probe, and perhaps the program knows it.
Heard(p, k) == k \in seen[p] \/ \E f \in flying : f.by = p /\ f.num = k /\ f.st # "sent"

\* The filter test of the probe is done, and perhaps the program knows it.
Tested(p, k) ==
  Held(p, k) /\ (k \in seen[p] \/ \E f \in flying : f.by = p /\ f.num = k /\ f.st = "acked")

InPending(p, k) == \E j \in DOMAIN pending : pending[j].by = p /\ pending[j].num = k

\* The analysis of the program, or of its peer behind the same address, has it.
InTaken(p, k) ==
  \E q \in Peers : /\ q = p \/ setup.shared
                   /\ \E j \in DOMAIN taken[q] : taken[q][j].by = p /\ taken[q][j].num = k
Verdict(p) == \E q \in Peers : (q = p \/ setup.shared) /\ Fresh(p, known[q])

\* The relay has a verdict that probes_complete of p would take.
AtHand(p) == Fresh(p, filter[Address(p)])

\* A program that is served and still probes, or waits for its probes_complete to be handled.
Underway(p) == h[p] = "serving" /\ p \notin complete

Safe(p) ==
  /\ Underway(p) =>
       /\ \A k \in Nat : Heard(p, k) => InPending(p, k) \/ InTaken(p, k)
       /\ \A k \in Nat : Tested(p, k) => AtHand(p) \/ Verdict(p)
  /\ p \in complete =>
       /\ \A k \in seen[p] : InTaken(p, k)
       /\ \A k \in seen[p] : Held(p, k) => Verdict(p)

NothingLost == ~stray => \A p \in Peers : NeedsProbing(p) /\ p \notin closed => Safe(p)

LossInv == TypeOK /\ IInv /\ NotesKept /\ (\A p \in Peers : Course(p)) /\ NothingLost

\* One goal for each step.
LossKept == (\A p \in Peers : Course(p)') /\ NothingLost'

\* Whose verdict may stand for whose depends on the setup alone.
LEMMA FreshKept ==
  ASSUME UNCHANGED setup
  PROVE  /\ \A p, v : Fresh(p, v)' <=> Fresh(p, v)
         /\ UNCHANGED filter => \A p : AtHand(p)' <=> AtHand(p)
         /\ UNCHANGED known => \A p : Verdict(p)' <=> Verdict(p)
<1>1. \A p, v : Fresh(p, v)' <=> Fresh(p, v)
  BY DEF Fresh
<1>2. UNCHANGED filter => \A p : AtHand(p)' <=> AtHand(p)
  BY SetupKept DEF AtHand, Fresh
<1>3. UNCHANGED known => \A p : Verdict(p)' <=> Verdict(p)
  BY DEF Verdict, Fresh
<1>. QED
  BY <1>1, <1>2, <1>3

\* What an analysis has it keeps, and the verdict as well.
LEMMA Persist ==
  ASSUME UNCHANGED setup,
         \A q \in Peers : taken[q] # <<>> => taken'[q] = taken[q],
         \A q \in Peers : known[q].by # NoPeer => known'[q] = known[q]
  PROVE  \A p \in Peers : /\ \A k \in Nat : InTaken(p, k) => InTaken(p, k)'
                          /\ Verdict(p) => Verdict(p)'
<1>. SUFFICES ASSUME NEW p \in Peers
              PROVE  /\ \A k \in Nat : InTaken(p, k) => InTaken(p, k)'
                     /\ Verdict(p) => Verdict(p)'
  OBVIOUS
<1>1. ASSUME NEW k \in Nat, InTaken(p, k) PROVE InTaken(p, k)'
  <2>1. PICK q \in Peers : /\ q = p \/ setup.shared
                           /\ \E j \in DOMAIN taken[q] :
                                taken[q][j].by = p /\ taken[q][j].num = k
    BY <1>1 DEF InTaken
  <2>2. taken[q] # <<>>
    BY <2>1
  <2>. QED
    BY <2>1, <2>2 DEF InTaken
<1>2. Verdict(p) => Verdict(p)'
  BY DEF Verdict, Fresh
<1>. QED
  BY <1>1, <1>2

LEMMA InitLoss == Init => (\A p \in Peers : Course(p)) /\ NothingLost
<1>. SUFFICES ASSUME Init PROVE (\A p \in Peers : Course(p)) /\ NothingLost
  OBVIOUS
<1>1. \A p \in Peers : Course(p)
  BY DEF Init, Course
<1>2. \A p \in Peers : Safe(p)
  BY DEF Init, Safe, Underway
<1>. QED
  BY <1>1, <1>2 DEF NothingLost

\* A step of the client p: what the relay holds stays, and what is heard of p's probes.
LEMMA ClientSafe ==
  ASSUME LossInv, NEW p \in Peers, UNCHANGED <<setup, server>>,
         \A q \in Peers : \A k \in Nat : Heard(q, k)' => Heard(q, k),
         \A q \in Peers : \A k \in Nat : Tested(q, k)' => Tested(q, k),
         \A q \in Peers : q \in complete => seen'[q] = seen[q]
  PROVE  NothingLost'
<1>. SUFFICES ASSUME ~stray, NEW q \in Peers, NeedsProbing(q), q \notin closed
              PROVE  Safe(q)'
  BY SetupKept DEF NothingLost, server
<1>1. Safe(q)
  BY DEF LossInv, NothingLost
<1>2. /\ \A k : InPending(q, k)' = InPending(q, k) /\ InTaken(q, k)' = InTaken(q, k)
      /\ (Verdict(q)' <=> Verdict(q)) /\ (AtHand(q)' <=> AtHand(q))
      /\ Underway(q)' = Underway(q)
      /\ Address(q)' = Address(q) /\ \A k : Held(q, k)' = Held(q, k)
      /\ filter' = filter /\ complete' = complete
  BY SetupKept, FreshKept DEF server, InPending, InTaken, Underway
<1>3. Underway(q)' => /\ \A k \in Nat : Heard(q, k)' => InPending(q, k)' \/ InTaken(q, k)'
                      /\ \A k \in Nat : Tested(q, k)' =>
                           AtHand(q)' \/ Verdict(q)'
  BY <1>1, <1>2 DEF Safe
<1>4. q \in complete' => /\ \A k \in seen'[q] : InTaken(q, k)'
                         /\ \A k \in seen'[q] : Held(q, k)' => Verdict(q)'
  BY <1>1, <1>2 DEF Safe
<1>. QED
  BY <1>3, <1>4 DEF Safe

LEMMA ClientLoss ==
  ASSUME LossInv, NEW p \in Peers, Client(p) \/ CProbeFails(p) \/ CProbeTimeout(p) \/ CLeave(p)
  PROVE  LossKept
<1>1. UNCHANGED <<setup, server>>
  BY DEF Client, CRegister, CRegistered, CReadsEnd, CLeave, CProbe, CProbeFails,
         CProbeAck, CProbeTimeout, CComplete, env
<1>2. UNCHANGED <<h, closed, answer, pending, filter, complete, taken, known>>
  BY <1>1 DEF server
<1>3. \A q, k : Held(q, k)' = Held(q, k)
  BY <1>1, SetupKept
<1>4. \A q \in Peers : Course(q)
  BY DEF LossInv
<1>5. CASE CRegister(p) \/ CRegistered(p) \/ CComplete(p)
  <2>1. UNCHANGED <<waits, seen, flying>>
    BY <1>5 DEF CRegister, CRegistered, CComplete
  <2>2. \A q \in Peers : Course(q)'
    <3>. TAKE q \in Peers
    <3>1. CASE q = p
      BY <1>2, <1>4, <1>5, <2>1, <3>1
         DEF CRegister, CanStart, CRegistered, CComplete, Course, LossInv, TypeOK
    <3>2. CASE q # p
      <4>1. c'[q] = c[q]
        BY <1>5, <3>2 DEF CRegister, CRegistered, CComplete, LossInv, TypeOK
      <4>. QED
        BY <1>2, <1>4, <2>1, <4>1 DEF Course
    <3>. QED
      BY <3>1, <3>2
  <2>3. /\ \A q \in Peers : \A k \in Nat : Heard(q, k)' => Heard(q, k)
        /\ \A q \in Peers : \A k \in Nat : Tested(q, k)' => Tested(q, k)
    BY <1>3, <2>1 DEF Heard, Tested
  <2>. QED
    BY <1>1, <2>1, <2>2, <2>3, ClientSafe DEF LossKept
<1>6. CASE CReadsEnd(p) \/ CLeave(p)
  <2>1. UNCHANGED <<c, waits, seen, flying>>
    BY <1>6 DEF CReadsEnd, CLeave
  <2>2. \A q \in Peers : Course(q)'
    BY <1>2, <1>4, <2>1 DEF Course
  <2>3. /\ \A q \in Peers : \A k \in Nat : Heard(q, k)' => Heard(q, k)
        /\ \A q \in Peers : \A k \in Nat : Tested(q, k)' => Tested(q, k)
    BY <1>3, <2>1 DEF Heard, Tested
  <2>. QED
    BY <1>1, <2>1, <2>2, <2>3, ClientSafe DEF LossKept
<1>7. CASE CProbe(p) \/ CProbeFails(p) \/ CProbeTimeout(p)
  <2>1. /\ UNCHANGED <<c, seen>>
        /\ c[p] = "probing" \/ waits'[p] = FALSE
        /\ \A q \in Peers : q # p => waits'[q] = waits[q]
    BY <1>7 DEF CProbe, CProbeFails, CProbeTimeout, LossInv, TypeOK
  <2>2. \A f \in flying' : f \in flying \/ (f.by = p /\ f.st = "sent" /\ c[p] = "probing")
    BY <1>7 DEF CProbe, CProbeFails, CProbeTimeout
  <2>3. ASSUME NEW q \in Peers PROVE Course(q)'
    <3>1. c[q] \in {"off", "register"} => \A f \in flying' : f.by # q
      BY <1>4, <2>2 DEF Course
    <3>2. CASE q = p
      <4>1. c[p] = "done" => waits'[p] = FALSE
        BY <2>1
      <4>2. c[p] \in {"off", "register"} => waits'[p] = FALSE
        BY <2>1
      <4>. QED
        BY <1>2, <1>4, <2>1, <3>1, <3>2, <4>1, <4>2 DEF Course
    <3>3. CASE q # p
      BY <1>2, <1>4, <2>1, <3>1, <3>3 DEF Course
    <3>. QED
      BY <3>2, <3>3
  <2>4. /\ \A q \in Peers : \A k \in Nat : Heard(q, k)' => Heard(q, k)
        /\ \A q \in Peers : \A k \in Nat : Tested(q, k)' => Tested(q, k)
    BY <1>3, <2>1, <2>2 DEF Heard, Tested
  <2>. QED
    BY <1>1, <2>1, <2>3, <2>4, ClientSafe DEF LossKept
<1>8. CASE CProbeAck(p)
  <2>1. PICK f \in flying : /\ f = [by |-> p, num |-> begun[p] - 1, st |-> "acked"]
                            /\ seen' = [seen EXCEPT ![p] = @ \cup {f.num}]
                            /\ flying' = flying \ {f}
    BY <1>8 DEF CProbeAck
  <2>2. /\ waits[p] /\ c' = c /\ waits'[p] = FALSE
        /\ \A q \in Peers : q # p => waits'[q] = waits[q] /\ seen'[q] = seen[q]
    BY <1>8, <2>1 DEF CProbeAck, LossInv, TypeOK
  <2>3. c[p] \notin {"off", "register", "done"} /\ p \notin complete
    BY <1>4, <2>2 DEF Course
  <2>4. ASSUME NEW q \in Peers PROVE Course(q)'
    <3>1. CASE q = p
      BY <1>2, <1>4, <2>2, <2>3, <3>1 DEF Course, LossInv, TypeOK
    <3>2. CASE q # p
      BY <1>2, <1>4, <2>1, <2>2, <3>2 DEF Course
    <3>. QED
      BY <3>1, <3>2
  <2>5. f.by = p /\ f.st = "acked" /\ seen'[p] = seen[p] \cup {f.num}
    BY <2>1 DEF LossInv, TypeOK
  <2>6. ASSUME NEW q \in Peers, NEW k \in Nat
        PROVE  (Heard(q, k)' => Heard(q, k)) /\ (Tested(q, k)' => Tested(q, k))
    <3>1. k \in seen'[q] => k \in seen[q] \/ (q = p /\ k = f.num)
      BY <2>2, <2>5
    <3>2. Heard(q, k)' => Heard(q, k)
      BY <2>1, <2>5, <3>1 DEF Heard
    <3>3. Tested(q, k)' => Tested(q, k)
      BY <1>3, <2>1, <2>5, <3>1 DEF Tested
    <3>. QED
      BY <3>2, <3>3
  <2>7. \A q \in Peers : q \in complete => seen'[q] = seen[q]
    BY <2>2, <2>3
  <2>. QED
    BY <1>1, <2>4, <2>6, <2>7, ClientSafe DEF LossKept
<1>. QED
  BY <1>5, <1>6, <1>7, <1>8 DEF Client

\* A program whose registration is handled has not probed yet.
LEMMA RegisterLoss ==
  ASSUME LossInv, NEW p \in Peers, HRegister(p)
  PROVE  LossKept
<1>1. /\ h[p] = "none"
      /\ UNCHANGED <<setup, client, flying, closed, pending, filter, complete, taken, known, stray>>
      /\ h' = [h EXCEPT ![p] = h'[p]] /\ h'[p] # "none"
      /\ answer' = [answer EXCEPT ![p] = answer'[p]]
  BY DEF HRegister, env, LossInv, TypeOK
<1>2. UNCHANGED <<c, waits, seen>>
  BY <1>1 DEF client
<1>3. \A q \in Peers : Course(q)
  BY DEF LossInv
<1>4. /\ \A q \in Peers : q # p => h'[q] = h[q] /\ answer'[q] = answer[q]
  BY <1>1 DEF LossInv, TypeOK
<1>5. c[p] \notin {"probing", "done"}
  BY <1>1, <1>3 DEF Course
<1>6. c[p] \in {"off", "register"} /\ seen[p] = {} /\ \A f \in flying : f.by # p
  BY <1>3, <1>5 DEF Course, LossInv, TypeOK
<1>7. ASSUME NEW q \in Peers PROVE Course(q)'
  <2>1. CASE q = p
    BY <1>1, <1>2, <1>3, <1>6, <2>1 DEF Course
  <2>2. CASE q # p
    BY <1>1, <1>2, <1>3, <1>4, <2>2 DEF Course
  <2>. QED
    BY <2>1, <2>2
<1>8. NothingLost'
  <2>. SUFFICES ASSUME ~stray, NEW q \in Peers, NeedsProbing(q), q \notin closed
                PROVE  Safe(q)'
    BY <1>1, SetupKept DEF NothingLost
  <2>1. Safe(q)
    BY DEF LossInv, NothingLost
  <2>2. /\ \A k : InPending(q, k)' = InPending(q, k) /\ InTaken(q, k)' = InTaken(q, k)
        /\ (Verdict(q)' <=> Verdict(q)) /\ (AtHand(q)' <=> AtHand(q))
        /\ Address(q)' = Address(q) /\ \A k : Held(q, k)' = Held(q, k)
        /\ \A k : Heard(q, k)' = Heard(q, k)
    BY <1>1, <1>2, SetupKept, FreshKept DEF InPending, InTaken, Heard
  <2>3. \A k : Tested(q, k)' = Tested(q, k)
    BY <1>1, <1>2, <2>2 DEF Tested
  <2>4. CASE q = p
    <3>1. \A k \in Nat : ~Heard(p, k) /\ ~Tested(p, k)
      BY <1>6 DEF Heard, Tested
    <3>. QED
      BY <1>1, <1>2, <1>6, <2>1, <2>2, <2>3, <2>4, <3>1 DEF Safe
  <2>5. CASE q # p
    BY <1>1, <1>2, <1>4, <2>1, <2>2, <2>3, <2>5 DEF Safe, Underway
  <2>. QED
    BY <2>4, <2>5
<1>. QED
  BY <1>7, <1>8 DEF LossKept

\* Handling a probe notes it; nothing else is heard by it, and no test is done.
LEMMA ProbeLoss ==
  ASSUME LossInv, NEW f \in flying, HProbe(f)
  PROVE  LossKept
<1>. DEFINE x == Noted(f.by, f.num, members[f.by.role] = f.by)
<1>1. /\ f.st = "sent"
      /\ UNCHANGED <<setup, client, h, closed, answer, filter, complete, taken, known, stray>>
  BY DEF HProbe, env
<1>2. UNCHANGED <<c, waits, seen>>
  BY <1>1 DEF client
<1>3. /\ DOMAIN pending' = DOMAIN pending \cup {Len(pending) + 1}
      /\ \A k \in DOMAIN pending : pending'[k] = pending[k]
      /\ pending'[Len(pending) + 1] = x
  BY ProbeNotes DEF LossInv
<1>4. x.by = f.by /\ x.num = f.num
  BY NoteFacts
<1>5. f \in [by : Peers, num : Nat, st : {"sent", "testing", "acked"}]
  BY DEF LossInv, TypeOK
<1>. HIDE DEF x
<1>6. PICK s \in {"testing", "acked"} :
        /\ flying' = (flying \ {f}) \cup {[f EXCEPT !.st = s]}
        /\ Held(f.by, f.num) => s = "testing"
  BY DEF HProbe
<1>7. PICK g : /\ g.by = f.by /\ g.num = f.num /\ g.st = s
               /\ flying' = (flying \ {f}) \cup {g}
  BY <1>5, <1>6
<1>8. ASSUME NEW q \in Peers PROVE Course(q)'
  <2>1. Course(q)
    BY DEF LossInv
  <2>. QED
    BY <1>1, <1>2, <1>7, <2>1 DEF Course
<1>9. NothingLost'
  <2>. SUFFICES ASSUME ~stray, NEW q \in Peers, NeedsProbing(q), q \notin closed
                PROVE  Safe(q)'
    BY <1>1, SetupKept DEF NothingLost
  <2>1. Safe(q)
    BY DEF LossInv, NothingLost
  <2>2. /\ \A k : InTaken(q, k)' = InTaken(q, k)
        /\ (Verdict(q)' <=> Verdict(q)) /\ (AtHand(q)' <=> AtHand(q))
        /\ Underway(q)' = Underway(q)
        /\ Address(q)' = Address(q) /\ \A k : Held(q, k)' = Held(q, k)
    BY <1>1, SetupKept, FreshKept DEF InTaken, Underway
  <2>3. \A k : InPending(q, k) => InPending(q, k)'
    BY <1>3 DEF InPending
  <2>4. InPending(f.by, f.num)'
    BY <1>3, <1>4 DEF InPending
  <2>5. \A k : Heard(q, k)' => Heard(q, k) \/ (q = f.by /\ k = f.num)
    BY <1>2, <1>7 DEF Heard
  <2>6. \A k : Tested(q, k)' => Tested(q, k)
    <3>. TAKE k
    <3>. SUFFICES ASSUME Tested(q, k)' PROVE Tested(q, k)
      OBVIOUS
    <3>1. /\ Held(q, k)
          /\ (k \in seen[q] \/ \E e \in flying' : e.by = q /\ e.num = k /\ e.st = "acked")
      BY <1>2, <2>2 DEF Tested
    <3>2. CASE k \in seen[q]
      BY <3>1, <3>2 DEF Tested
    <3>3. CASE k \notin seen[q]
      <4>1. PICK e \in flying' : e.by = q /\ e.num = k /\ e.st = "acked"
        BY <3>1, <3>3
      <4>2. e # g
        BY <1>6, <1>7, <3>1, <4>1
      <4>. QED
        BY <1>7, <3>1, <4>1, <4>2 DEF Tested
    <3>. QED
      BY <3>2, <3>3
  <2>7. Underway(q)' => /\ \A k \in Nat : Heard(q, k)' => InPending(q, k)' \/ InTaken(q, k)'
                        /\ \A k \in Nat : Tested(q, k)' =>
                             AtHand(q)' \/ Verdict(q)'
    BY <1>1, <2>1, <2>2, <2>3, <2>4, <2>5, <2>6 DEF Safe
  <2>8. q \in complete' => /\ \A k \in seen'[q] : InTaken(q, k)'
                           /\ \A k \in seen'[q] : Held(q, k)' => Verdict(q)'
    BY <1>1, <1>2, <2>1, <2>2 DEF Safe
  <2>. QED
    BY <2>7, <2>8 DEF Safe
<1>. QED
  BY <1>8, <1>9 DEF LossKept

\* The filter test leaves its verdict at the address.
LEMMA FilterLoss ==
  ASSUME LossInv, NEW f \in flying, HFilterTested(f)
  PROVE  LossKept
<1>1. /\ f.st = "testing" /\ filter' = [filter EXCEPT ![Address(f.by)] =
                            [by |-> f.by, housed |-> members[f.by.role] = f.by]]
      /\ flying' = (flying \ {f}) \cup {[f EXCEPT !.st = "acked"]}
      /\ UNCHANGED <<setup, client, h, closed, answer, pending, complete, taken, known, stray>>
  BY DEF HFilterTested, env
<1>2. UNCHANGED <<c, waits, seen>>
  BY <1>1 DEF client
<1>3. f \in [by : Peers, num : Nat, st : {"sent", "testing", "acked"}]
  BY DEF LossInv, TypeOK
<1>4. f.by \in Peers /\ f.by # NoPeer /\ Address(f.by) \in DOMAIN filter
  BY <1>3, RoleFacts, SetupFacts DEF LossInv, TypeOK
<1>5. /\ filter'[Address(f.by)].by = f.by
      /\ filter'[Address(f.by)].housed <=> members[f.by.role] = f.by
      /\ \A a \in DOMAIN filter : a # Address(f.by) => filter'[a] = filter[a]
  BY <1>1, <1>4
<1>6. PICK g : /\ g.by = f.by /\ g.num = f.num /\ g.st = "acked"
               /\ flying' = (flying \ {f}) \cup {g}
  BY <1>1, <1>3
<1>7. ASSUME NEW q \in Peers PROVE Course(q)'
  <2>1. Course(q)
    BY DEF LossInv
  <2>. QED
    BY <1>1, <1>2, <1>6, <2>1 DEF Course
<1>8. NothingLost'
  <2>. SUFFICES ASSUME ~stray, NEW q \in Peers, NeedsProbing(q), q \notin closed
                PROVE  Safe(q)'
    BY <1>1, SetupKept DEF NothingLost
  <2>1. Safe(q)
    BY DEF LossInv, NothingLost
  <2>2. /\ \A k : InTaken(q, k)' = InTaken(q, k) /\ InPending(q, k)' = InPending(q, k)
        /\ (Verdict(q)' <=> Verdict(q)) /\ Underway(q)' = Underway(q)
        /\ Address(q)' = Address(q) /\ \A k : Held(q, k)' = Held(q, k)
    BY <1>1, SetupKept, FreshKept DEF InTaken, InPending, Underway
  <2>3. \A k : Heard(q, k)' => Heard(q, k)
    BY <1>1, <1>2, <1>6 DEF Heard
  <2>4. \A k : Tested(q, k)' => Tested(q, k) \/ q = f.by
    BY <1>2, <1>6, <2>2 DEF Tested
  <2>5. ASSUME Underway(q), AtHand(q) \/ q = f.by PROVE AtHand(q)'
    <3>. DEFINE v == filter'[Address(q)]
    <3>1. Address(q) \in DOMAIN filter
      BY SetupFacts DEF LossInv, TypeOK
    <3>2. AtHand(q)' <=> Fresh(q, v)
      BY <1>1, <2>2, FreshKept DEF AtHand
    <3>3. CASE Address(q) # Address(f.by)
      <4>1. v = filter[Address(q)] /\ q # f.by
        BY <1>5, <3>1, <3>3
      <4>. QED
        BY <2>5, <3>2, <4>1 DEF AtHand
    <3>4. CASE Address(q) = Address(f.by)
      <4>1. v.by = f.by /\ (v.housed <=> members[f.by.role] = f.by)
        BY <1>5, <3>4
      <4>2. setup.shared \/ f.by.role = q.role
        BY <1>4, <3>4, AddressFacts
      <4>3. members[q.role] = q
        BY <2>5 DEF LossInv, IInv, NoOrphans, Underway
      <4>. HIDE DEF v
      <4>4. setup.shared \/ f.by = q \/ ~v.housed
        BY <4>1, <4>2, <4>3
      <4>5. Fresh(q, v)
        BY <1>4, <4>1, <4>4 DEF Fresh
      <4>. QED
        BY <3>2, <4>5
    <3>. QED
      BY <3>3, <3>4
  <2>6. Underway(q)' => /\ \A k \in Nat : Heard(q, k)' => InPending(q, k)' \/ InTaken(q, k)'
                        /\ \A k \in Nat : Tested(q, k)' =>
                             AtHand(q)' \/ Verdict(q)'
    BY <2>1, <2>2, <2>3, <2>4, <2>5 DEF Safe
  <2>7. q \in complete' => /\ \A k \in seen'[q] : InTaken(q, k)'
                           /\ \A k \in seen'[q] : Held(q, k)' => Verdict(q)'
    BY <1>1, <1>2, <2>1, <2>2 DEF Safe
  <2>. QED
    BY <2>6, <2>7 DEF Safe
<1>. QED
  BY <1>7, <1>8 DEF LossKept

\* probes_complete of p takes the probes of its address into its analysis: its own, those of
\* its peer if the address is theirs, but of no other program that is served.
LEMMA CompleteLoss ==
  ASSUME LossInv, NEW p \in Peers, HProbesComplete(p)
  PROVE  LossKept
<1>1. /\ c[p] = "done" /\ h[p] = "serving" /\ p \notin complete /\ p \notin closed
      /\ complete' = complete \cup {p}
      /\ known' = [known EXCEPT ![p] = filter[Address(p)]]
      /\ filter' = [filter EXCEPT ![Address(p)] = NoVerdict]
      /\ UNCHANGED <<setup, client, flying, h, closed, answer, stray>>
  BY DEF HProbesComplete, env
<1>2. UNCHANGED <<c, waits, seen>>
  BY <1>1 DEF client
<1>3. \A q \in Peers : Course(q)
  BY DEF LossInv
<1>4. NeedsProbing(p) =>
        /\ \A k \in DOMAIN pending \ Own(p) : \E j \in DOMAIN pending' : pending'[j] = pending[k]
        /\ taken' = [taken EXCEPT ![p] = Those(pending, Own(p))]
        /\ \A k \in Own(p) :
             \E j \in DOMAIN Those(pending, Own(p)) : Those(pending, Own(p))[j] = pending[k]
  BY CompleteTakes DEF LossInv
<1>5. ~NeedsProbing(p) => UNCHANGED <<taken, pending>>
  BY DEF HProbesComplete
<1>6. taken[p] = <<>> /\ known[p].by = NoPeer
  BY <1>1, <1>3 DEF Course, NoVerdict
<1>7. \A q \in Peers : q # p => taken'[q] = taken[q] /\ known'[q] = known[q]
  <2>. TAKE q \in Peers
  <2>1. q # p => known'[q] = known[q]
    BY <1>1 DEF LossInv, TypeOK
  <2>2. q # p => taken'[q] = taken[q]
    BY <1>4, <1>5 DEF LossInv, NotesKept
  <2>. QED
    BY <2>1, <2>2
<1>8. ASSUME NEW q \in Peers PROVE Course(q)'
  <2>1. Course(q)
    BY <1>3
  <2>2. CASE q = p
    BY <1>1, <1>2, <2>1, <2>2 DEF Course
  <2>3. CASE q # p
    BY <1>1, <1>2, <1>7, <2>1, <2>3 DEF Course
  <2>. QED
    BY <2>2, <2>3
<1>9. \A q \in Peers : /\ \A k \in Nat : InTaken(q, k) => InTaken(q, k)'
                       /\ Verdict(q) => Verdict(q)'
  <2>1. \A q \in Peers : taken[q] # <<>> => taken'[q] = taken[q]
    BY <1>6, <1>7
  <2>2. \A q \in Peers : known[q].by # NoPeer => known'[q] = known[q]
    BY <1>6, <1>7
  <2>. QED
    BY <1>1, <2>1, <2>2, Persist
<1>10. ASSUME ~stray, NEW q \in Peers, Underway(q), q \notin closed, Address(q) = Address(p)
       PROVE  q = p \/ setup.shared
  <2>1. CASE q.role = p.role
    BY <1>1, <1>10, <2>1, OneServed DEF LossInv, Underway
  <2>. QED
    BY <1>10, <2>1, AddressFacts
<1>11. ASSUME ~stray, NEW q \in Peers, Underway(q), q \notin closed, NeedsProbing(q),
              NEW k \in Nat, InPending(q, k)
       PROVE  InTaken(q, k)' \/ (q # p /\ InPending(q, k)')
  <2>1. PICK j \in DOMAIN pending : pending[j].by = q /\ pending[j].num = k
    BY <1>11 DEF InPending
  <2>2. CASE NeedsProbing(p) /\ j \in Own(p)
    <3>. DEFINE mine == Those(pending, Own(p))
    <3>1. q = p \/ setup.shared
      BY <1>10, <1>11, <2>1, <2>2 DEF Own
    <3>2. PICK i \in DOMAIN mine : mine[i] = pending[j]
      BY <1>4, <2>2
    <3>. HIDE DEF mine
    <3>3. taken'[p] = mine
      BY <1>4, <2>2 DEF mine, LossInv, NotesKept
    <3>4. InTaken(q, k)'
      BY <1>1, <2>1, <3>1, <3>2, <3>3 DEF InTaken
    <3>. QED
      BY <3>4
  <2>3. CASE NeedsProbing(p) /\ j \notin Own(p)
    <3>1. q # p
      BY <2>1, <2>3 DEF Own
    <3>2. InPending(q, k)'
      BY <1>4, <2>1, <2>3 DEF InPending
    <3>. QED
      BY <3>1, <3>2
  <2>4. CASE ~NeedsProbing(p)
    BY <1>5, <1>11, <2>4 DEF InPending
  <2>. QED
    BY <2>2, <2>3, <2>4
<1>12. ASSUME ~stray, NEW q \in Peers, Underway(q), q \notin closed, AtHand(q)
       PROVE  Verdict(q)' \/ (q # p /\ AtHand(q)')
  <2>1. CASE Address(q) = Address(p)
    <3>1. q = p \/ setup.shared
      BY <1>10, <1>12, <2>1
    <3>2. known'[p] = filter[Address(q)]
      BY <1>1, <2>1 DEF LossInv, TypeOK
    <3>3. Fresh(q, known'[p])
      BY <1>12, <3>2, <2>1 DEF AtHand
    <3>4. Fresh(q, known[p])'
      BY <1>1, <3>3 DEF Fresh
    <3>. QED
      BY <1>1, <3>1, <3>4 DEF Verdict
  <2>2. CASE Address(q) # Address(p)
    <3>1. filter'[Address(q)'] = filter[Address(q)]
      BY <1>1, <2>2, SetupFacts, SetupKept DEF LossInv, TypeOK
    <3>2. AtHand(q)'
      BY <1>1, <1>12, <3>1, FreshKept DEF AtHand
    <3>. QED
      BY <2>2, <3>2
  <2>. QED
    BY <2>1, <2>2
<1>13. NothingLost'
  <2>. SUFFICES ASSUME ~stray, NEW q \in Peers, NeedsProbing(q), q \notin closed
                PROVE  Safe(q)'
    BY <1>1, SetupKept DEF NothingLost
  <2>1. Safe(q)
    BY DEF LossInv, NothingLost
  <2>2. /\ Address(q)' = Address(q) /\ \A k : Held(q, k)' = Held(q, k)
        /\ \A k : Heard(q, k)' = Heard(q, k)
    BY <1>1, <1>2, SetupKept DEF Heard
  <2>3. \A k : Tested(q, k)' = Tested(q, k)
    BY <1>1, <1>2, <2>2 DEF Tested
  <2>4. Underway(q)' => q # p /\ Underway(q)
    BY <1>1 DEF Underway
  <2>5. Underway(q)' => \A k \in Nat : Heard(q, k)' => InPending(q, k)' \/ InTaken(q, k)'
    BY <1>9, <1>11, <2>1, <2>2, <2>4 DEF Safe
  <2>6. Underway(q)' => \A k \in Nat : Tested(q, k)' => AtHand(q)' \/ Verdict(q)'
    BY <1>9, <1>12, <2>1, <2>2, <2>3, <2>4 DEF Safe
  <2>7. ASSUME q \in complete', NEW k \in seen'[q]
        PROVE  InTaken(q, k)' /\ (Held(q, k)' => Verdict(q)')
    <3>1. k \in Nat /\ k \in seen[q]
      BY <1>2, <2>7 DEF LossInv, TypeOK
    <3>2. CASE q \in complete
      BY <1>9, <2>1, <2>2, <3>1, <3>2 DEF Safe
    <3>3. CASE q = p
      <4>1. Underway(p) /\ Heard(p, k) /\ (Held(p, k) => Tested(p, k))
        BY <1>1, <3>1, <3>3 DEF Underway, Heard, Tested
      <4>2. /\ InPending(p, k) \/ InTaken(p, k)
            /\ Held(p, k) => AtHand(p) \/ Verdict(p)
        BY <2>1, <3>1, <3>3, <4>1 DEF Safe
      <4>3. InTaken(p, k)'
        BY <1>1, <1>9, <1>11, <3>1, <3>3, <4>1, <4>2
      <4>4. Held(p, k) => Verdict(p)'
        BY <1>1, <1>9, <1>12, <3>3, <4>1, <4>2
      <4>. QED
        BY <2>2, <3>3, <4>3, <4>4
    <3>. QED
      BY <1>1, <2>7, <3>2, <3>3
  <2>. QED
    BY <2>5, <2>6, <2>7 DEF Safe
<1>. QED
  BY <1>8, <1>13 DEF LossKept

\* If a session goes, no program in it is served any more that is not closed.
LEMMA EndLoss ==
  ASSUME LossInv, NEW p \in Peers, HEnd(p)
  PROVE  LossKept
<1>1. /\ h[p] = "serving" /\ h' = [h EXCEPT ![p] = "ended"]
      /\ Cleanup(p) /\ stray' = (stray \/ (Session /\ members[p.role] # p))
      /\ UNCHANGED <<setup, client, flying, answer, filter, complete, taken, known>>
  BY DEF HEnd, env
<1>2. UNCHANGED <<c, waits, seen>> /\ closed \subseteq closed' /\ p.role \in Roles
  BY <1>1, RoleFacts DEF client, Cleanup
<1>3. h'[p] = "ended" /\ \A q \in Peers : q # p => h'[q] = h[q]
  BY <1>1 DEF LossInv, TypeOK
<1>4. ASSUME NEW q \in Peers PROVE Course(q)'
  <2>1. Course(q)
    BY DEF LossInv
  <2>2. h'[q] = "none" => h[q] = "none"
    BY <1>3
  <2>. QED
    BY <1>1, <1>2, <2>1, <2>2 DEF Course
<1>5. NothingLost'
  <2>. SUFFICES ASSUME ~stray', NEW q \in Peers, NeedsProbing(q), q \notin closed'
                PROVE  Safe(q)'
    BY <1>1, SetupKept DEF NothingLost
  <2>1. ~stray /\ q \notin closed
    BY <1>1, <1>2
  <2>2. Safe(q)
    BY <2>1 DEF LossInv, NothingLost
  <2>3. /\ \A k : InTaken(q, k)' = InTaken(q, k)
        /\ (Verdict(q)' <=> Verdict(q)) /\ (AtHand(q)' <=> AtHand(q))
        /\ Address(q)' = Address(q) /\ \A k : Held(q, k)' = Held(q, k)
        /\ \A k : Heard(q, k)' = Heard(q, k)
    BY <1>1, <1>2, SetupKept, FreshKept DEF InTaken, Heard
  <2>4. \A k : Tested(q, k)' = Tested(q, k)
    BY <1>1, <1>2, <2>3 DEF Tested
  <2>5. Underway(q)' => Underway(q) /\ pending' = pending
    <3>. SUFFICES ASSUME Underway(q)', pending' # pending PROVE FALSE
      BY <1>1, <1>3 DEF Underway
    <3>1. q # p /\ h[q] = "serving" /\ Session
      BY <1>1, <1>3 DEF Underway, Cleanup
    <3>2. members[q.role] = q /\ members[p.role] = p /\ q.role \in Roles /\ q # NoPeer
      BY <1>1, <2>1, <3>1, RoleFacts DEF LossInv, IInv, NoOrphans
    <3>3. q.role = Other(p.role)
      BY <1>2, <3>1, <3>2, RoleFacts
    <3>4. q \in closed'
      BY <1>1, <3>1, <3>2, <3>3 DEF Cleanup
    <3>. QED
      BY <3>4
  <2>6. Underway(q)' => /\ \A k \in Nat : Heard(q, k)' => InPending(q, k)' \/ InTaken(q, k)'
                        /\ \A k \in Nat : Tested(q, k)' =>
                             AtHand(q)' \/ Verdict(q)'
    BY <1>1, <2>2, <2>3, <2>4, <2>5 DEF Safe, InPending
  <2>7. q \in complete' => /\ \A k \in seen'[q] : InTaken(q, k)'
                           /\ \A k \in seen'[q] : Held(q, k)' => Verdict(q)'
    BY <1>1, <1>2, <2>2, <2>3 DEF Safe
  <2>. QED
    BY <2>6, <2>7 DEF Safe
<1>. QED
  BY <1>4, <1>5 DEF LossKept

\* A step that touches nothing of this.
LEMMA LossSame ==
  ASSUME LossInv, UNCHANGED <<setup, client, flying, h, closed, answer, pending, filter,
                              complete, taken, known, stray>>
  PROVE  LossKept
<1>1. UNCHANGED <<c, waits, seen>>
  BY DEF client
<1>2. \A q \in Peers : Course(q)'
  BY <1>1 DEF LossInv, Course
<1>3. ASSUME ~stray, NEW q \in Peers, NeedsProbing(q), q \notin closed PROVE Safe(q)'
  <2>1. Safe(q)
    BY <1>3 DEF LossInv, NothingLost
  <2>2. /\ \A k : InTaken(q, k)' = InTaken(q, k) /\ InPending(q, k)' = InPending(q, k)
        /\ (Verdict(q)' <=> Verdict(q)) /\ (AtHand(q)' <=> AtHand(q))
        /\ Underway(q)' = Underway(q)
        /\ Address(q)' = Address(q) /\ \A k : Held(q, k)' = Held(q, k)
        /\ \A k : Heard(q, k)' = Heard(q, k)
    BY <1>1, SetupKept, FreshKept DEF InTaken, InPending, Underway, Heard
  <2>3. \A k : Tested(q, k)' = Tested(q, k)
    BY <1>1, <2>2 DEF Tested
  <2>. QED
    BY <1>1, <2>1, <2>2, <2>3 DEF Safe
<1>4. NothingLost'
  BY <1>3, SetupKept DEF NothingLost
<1>. QED
  BY <1>2, <1>4 DEF LossKept

LEMMA NextLoss == LossInv /\ [Next]_vars => LossKept
<1>. SUFFICES ASSUME LossInv, [Next]_vars PROVE LossKept
  OBVIOUS
<1>1. CASE UNCHANGED vars
  BY <1>1, LossSame DEF vars, env, server
<1>2. CASE \E p \in Peers : Client(p) \/ CProbeFails(p) \/ CProbeTimeout(p) \/ CLeave(p)
  BY <1>2, ClientLoss
<1>3. CASE Server
  <2>1. ASSUME CoStart PROVE LossKept
    BY <2>1, LossSame DEF CoStart, env
  <2>. QED
    BY <1>3, <2>1, RegisterLoss, ProbeLoss, FilterLoss, CompleteLoss, EndLoss DEF Server
<1>. QED
  BY <1>1, <1>2, <1>3 DEF Next

LEMMA LossInvHolds == Spec => []LossInv
<1>1. Init => LossInv
  BY InitTypes, InitIInv, InitSession, InitLoss DEF LossInv
<1>2. SessionInv /\ LossInv /\ [Next]_vars => LossInv'
  BY NextTypes, NextIInv, NextSession, NextLoss DEF LossInv, LossKept
<1>. QED
  BY SessionInvHolds, <1>1, <1>2, PTL DEF Spec

\* Whatever the order in which a client's probes and its probes_complete reach the relay on
\* their different connections, and whoever else is behind its address, no probe that was
\* acknowledged to it is missing from its analysis - or its peer's - and the filter's verdict
\* is in one of them (handlers.py:199-249).
THEOREM AckedProbesAreAnalysed == Spec => []AckedProbesAnalysed
<1>1. LossInv => AckedProbesAnalysed
  BY DEF LossInv, NothingLost, AckedProbesAnalysed, Undivided, Safe, InTaken, Verdict
<1>. QED
  BY LossInvHolds, <1>1, PTL

----------------------------------------------------------------------------
(* What is told.                                                           *)

\* The analysis of a client that counts as probed is the one its probes call for.
Assessed(p) ==
  /\ h[p] # "none"
  /\ ~NeedsProbing(p) => analysis[p] = Preserved(Port(p, 0), {Port(p, 0)}, "unbestimmt", 1)
  /\ NeedsProbing(p) =>
       /\ p \in complete
       /\ taken[p] = <<>> => analysis[p] = Unknown(ControlPort(p))
       /\ taken[p] # <<>> =>
            analysis[p] = Analyze(taken[p], Port(p, 0), Of(p).external, Of(p).percent)

\* What q was told of a client is what its analysis says.
TellsOf(q) ==
  told[q].judged =>
    /\ told[q].about \in probed
    /\ told[q].at = [n \in 1 .. setup.conns |-> AddressesOf(told[q].about, n - 1)]

Tellings ==
  /\ DOMAIN analysis = Peers
  /\ \A p \in probed : Assessed(p)
  /\ \A p \in Peers : h[p] = "serving" /\ ~NeedsProbing(p) => p \in probed
  /\ \A q \in Peers : TellsOf(q)

TellInv == TypeOK /\ NotesKept /\ Tellings

\* What a client's ports are depends on the setup alone.
LEMMA PortsSame ==
  ASSUME UNCHANGED setup
  PROVE  \A p : ControlPort(p)' = ControlPort(p)
BY Zenon DEF ControlPort, External, Of

LEMMA AddressesSame ==
  ASSUME UNCHANGED setup, NEW p, analysis'[p] = analysis[p]
  PROVE  \A n : AddressesOf(p, n)' = AddressesOf(p, n)
<1>1. ControlPort(p)' = ControlPort(p) /\ Of(p)' = Of(p)
  BY PortsSame, SetupKept
<1>. QED
  BY <1>1, Zenon DEF AddressesOf

LEMMA AssessedSame ==
  ASSUME UNCHANGED setup, NEW p, Assessed(p), analysis'[p] = analysis[p],
         taken'[p] = taken[p], h'[p] # "none", p \in complete => p \in complete'
  PROVE  Assessed(p)'
<1>1. ControlPort(p)' = ControlPort(p) /\ Of(p)' = Of(p) /\ NeedsProbing(p)' = NeedsProbing(p)
  BY PortsSame, SetupKept
<1>. QED
  BY <1>1 DEF Assessed

LEMMA TellsSame ==
  ASSUME UNCHANGED setup, probed \subseteq probed', NEW q, TellsOf(q), told'[q] = told[q],
         \A p \in probed : analysis'[p] = analysis[p]
  PROVE  TellsOf(q)'
<1>. SUFFICES ASSUME told[q].judged
              PROVE  /\ told[q].about \in probed'
                     /\ told[q].at = [n \in 1 .. setup.conns |-> AddressesOf(told[q].about, n - 1)']
  BY DEF TellsOf
<1>1. /\ told[q].about \in probed
      /\ told[q].at = [n \in 1 .. setup.conns |-> AddressesOf(told[q].about, n - 1)]
  BY DEF TellsOf
<1>2. \A n : AddressesOf(told[q].about, n)' = AddressesOf(told[q].about, n)
  BY <1>1, AddressesSame
<1>. QED
  BY <1>1, <1>2

LEMMA InitTellings == Init => Tellings
BY DEF Init, Tellings, TellsOf, Nothing

\* Steps that leave the analyses and what was told alone.
LEMMA TellingsSame ==
  ASSUME Tellings,
         UNCHANGED <<setup, analysis, taken, probed, told>>,
         \A p \in Peers : h[p] # "none" => h'[p] # "none",
         \A p \in Peers : h'[p] = "serving" => h[p] = "serving",
         probed \subseteq Peers, complete \subseteq complete'
  PROVE  Tellings'
<1>1. ASSUME NEW p \in probed PROVE Assessed(p)'
  <2>1. Assessed(p) /\ h[p] # "none" /\ p \in Peers
    BY DEF Tellings, Assessed
  <2>. QED
    BY <2>1, AssessedSame
<1>2. ASSUME NEW q \in Peers PROVE TellsOf(q)'
  <2>1. TellsOf(q)
    BY DEF Tellings
  <2>. QED
    BY <2>1, TellsSame
<1>3. \A p \in Peers : NeedsProbing(p)' = NeedsProbing(p)
  BY SetupKept
<1>. QED
  BY <1>1, <1>2, <1>3 DEF Tellings

\* A registration is analysed only if its handler was nobody's, so the client had not been
\* probed before.
LEMMA RegisterTells ==
  ASSUME TellInv, NEW p \in Peers, HRegister(p)
  PROVE  Tellings'
<1>1. /\ UNCHANGED <<setup, taken, complete, told>> /\ h[p] = "none"
      /\ h' = [h EXCEPT ![p] = IF members[p.role] = NoPeer THEN "serving" ELSE "refused"]
  BY DEF HRegister, env
<1>2. p \notin probed
  BY <1>1 DEF TellInv, Tellings, Assessed
<1>3. h'[p] # "none" /\ \A q \in Peers : h[q] # "none" => h'[q] # "none"
  BY <1>1 DEF TellInv, TypeOK
<1>4. /\ DOMAIN analysis' = Peers
      /\ \A q \in Peers : q # p => analysis'[q] = analysis[q]
      /\ probed' \subseteq probed \cup {p} /\ probed \subseteq probed' /\ probed \subseteq Peers
  BY DEF HRegister, TellInv, Tellings, TypeOK
<1>5. p \in probed' => /\ ~NeedsProbing(p)
                       /\ analysis'[p] = Preserved(Port(p, 0), {Port(p, 0)}, "unbestimmt", 1)
  BY <1>2 DEF HRegister, TellInv, Tellings
<1>6. ASSUME NEW q \in probed' PROVE Assessed(q)'
  <2>1. CASE q = p
    <3>1. NeedsProbing(p)' = NeedsProbing(p)
      BY <1>1, SetupKept
    <3>. QED
      BY <1>3, <1>5, <2>1, <3>1 DEF Assessed
  <2>2. CASE q # p
    <3>1. q \in probed /\ q \in Peers /\ Assessed(q) /\ h[q] # "none"
      BY <1>4, <2>2 DEF TellInv, Tellings, Assessed
    <3>2. analysis'[q] = analysis[q] /\ taken'[q] = taken[q] /\ h'[q] # "none"
      BY <1>1, <1>3, <1>4, <2>2, <3>1
    <3>. QED
      BY <1>1, <3>1, <3>2, AssessedSame
  <2>. QED
    BY <2>1, <2>2
<1>7. ASSUME NEW q \in Peers PROVE TellsOf(q)'
  <2>1. TellsOf(q) /\ told'[q] = told[q]
    BY <1>1 DEF TellInv, Tellings
  <2>2. \A r \in probed : analysis'[r] = analysis[r]
    BY <1>2, <1>4
  <2>. QED
    BY <1>1, <1>4, <2>1, <2>2, TellsSame
<1>8. ASSUME NEW q \in Peers, h'[q] = "serving", ~NeedsProbing(q)' PROVE q \in probed'
  <2>1. ~NeedsProbing(q)
    BY <1>1, <1>8, SetupKept
  <2>2. CASE q = p
    <3>1. members[p.role] = NoPeer
      BY <1>1, <1>8, <2>2 DEF TellInv, TypeOK
    <3>. QED
      BY <2>1, <2>2, <3>1 DEF HRegister
  <2>3. CASE q # p
    <3>1. h[q] = "serving"
      BY <1>1, <1>8, <2>3 DEF TellInv, TypeOK
    <3>. QED
      BY <1>4, <2>1, <3>1 DEF TellInv, Tellings
  <2>. QED
    BY <2>2, <2>3
<1>. QED
  BY <1>4, <1>6, <1>7, <1>8 DEF Tellings

\* Its probes are analysed once: a client that was probed and needed it had sent
\* probes_complete.
LEMMA CompleteTells ==
  ASSUME TellInv, NEW p \in Peers, HProbesComplete(p)
  PROVE  Tellings'
<1>1. /\ UNCHANGED <<setup, h, told>> /\ h[p] # "none" /\ p \notin complete
      /\ complete' = complete \cup {p} /\ probed' = probed \cup {p}
  BY DEF HProbesComplete, env
<1>2. probed \subseteq Peers /\ DOMAIN analysis = Peers /\ DOMAIN taken = Peers
  BY DEF TellInv, Tellings, TypeOK, NotesKept
<1>3. CASE NeedsProbing(p)
  <2>1. p \notin probed
    BY <1>1, <1>3 DEF TellInv, Tellings, Assessed
  <2>. DEFINE mine == Those(pending, {k \in DOMAIN pending : Address(pending[k].by) = Address(p)})
              v == IF mine = <<>> THEN Unknown(ControlPort(p))
                   ELSE Analyze(mine, Port(p, 0), Of(p).external, Of(p).percent)
  <2>2. taken' = [taken EXCEPT ![p] = mine] /\ analysis' = [analysis EXCEPT ![p] = v]
    BY <1>3 DEF HProbesComplete
  <2>3. taken'[p] = mine /\ analysis'[p] = v
    BY <1>2, <2>2
  <2>4. \A q \in Peers : q # p => taken'[q] = taken[q] /\ analysis'[q] = analysis[q]
    BY <1>2, <2>2
  <2>5. DOMAIN analysis' = Peers
    BY <1>2, <2>2
  <2>6. Assessed(p)'
    <3>1. /\ ControlPort(p)' = ControlPort(p) /\ Of(p)' = Of(p)
          /\ NeedsProbing(p)' = NeedsProbing(p)
      BY <1>1, PortsSame, SetupKept
    <3>2. taken'[p] = <<>> => analysis'[p] = Unknown(ControlPort(p))
      BY <2>3
    <3>3. taken'[p] # <<>> =>
            analysis'[p] = Analyze(taken'[p], Port(p, 0), Of(p).external, Of(p).percent)
      BY <2>3
    <3>. HIDE DEF mine, v
    <3>. QED
      BY <1>1, <1>3, <3>1, <3>2, <3>3 DEF Assessed
  <2>. HIDE DEF mine, v
  <2>7. ASSUME NEW q \in probed' PROVE Assessed(q)'
    <3>1. CASE q = p
      BY <2>6, <3>1
    <3>2. CASE q # p
      <4>1. q \in probed /\ q \in Peers /\ Assessed(q) /\ h[q] # "none"
        BY <1>1, <1>2, <3>2 DEF TellInv, Tellings, Assessed
      <4>2. analysis'[q] = analysis[q] /\ taken'[q] = taken[q]
        BY <2>4, <3>2, <4>1
      <4>. QED
        BY <1>1, <4>1, <4>2, AssessedSame
    <3>. QED
      BY <3>1, <3>2
  <2>8. ASSUME NEW q \in Peers PROVE TellsOf(q)'
    <3>1. TellsOf(q) /\ told'[q] = told[q]
      BY <1>1 DEF TellInv, Tellings
    <3>2. \A r \in probed : analysis'[r] = analysis[r]
      BY <1>2, <2>1, <2>4
    <3>. QED
      BY <1>1, <3>1, <3>2, TellsSame
  <2>9. \A q \in Peers : NeedsProbing(q)' = NeedsProbing(q)
    BY <1>1, SetupKept
  <2>. QED
    BY <1>1, <2>5, <2>7, <2>8, <2>9 DEF TellInv, Tellings
<1>4. CASE ~NeedsProbing(p)
  <2>1. UNCHANGED <<taken, analysis>>
    BY <1>4 DEF HProbesComplete
  <2>2. p \in probed
    BY <1>4 DEF HProbesComplete, TellInv, Tellings
  <2>3. probed' = probed
    BY <1>1, <2>2
  <2>. QED
    BY <1>1, <1>2, <2>1, <2>3, TellingsSame DEF TellInv
<1>. QED
  BY <1>3, <1>4

\* A coordinator tells of whoever has the other place, and says whether it was judged.
LEMMA CoStartTells ==
  ASSUME TellInv, CoStart
  PROVE  Tellings'
<1>1. UNCHANGED <<setup, h, analysis, taken, probed, complete>>
  BY DEF CoStart, env
<1>2. probed \subseteq Peers
  BY DEF TellInv, TypeOK
<1>4. ASSUME NEW p \in probed PROVE Assessed(p)'
  <2>1. Assessed(p) /\ h[p] # "none"
    BY DEF TellInv, Tellings, Assessed
  <2>. QED
    BY <1>1, <2>1, AssessedSame
<1>5. ASSUME NEW q \in Peers PROVE TellsOf(q)'
  <2>1. CASE told'[q] = told[q]
    <3>1. TellsOf(q)
      BY DEF TellInv, Tellings
    <3>. QED
      BY <1>1, <2>1, <3>1, TellsSame
  <2>2. CASE told'[q] # told[q]
    <3>1. HasBoth /\ members[q.role] = q
      BY <2>2 DEF CoStart
    <3>2. PICK p : p = members[Other(q.role)]
      OBVIOUS
    <3>. DEFINE at == [n \in 1 .. setup.conns |-> AddressesOf(p, n - 1)]
                b == p \in probed
    <3>3. told'[q] = [about |-> p, at |-> at, judged |-> b]
      BY <3>1, <3>2 DEF CoStart
    <3>4. \A n : AddressesOf(p, n)' = AddressesOf(p, n)
      BY <1>1, AddressesSame
    <3>5. at = [n \in 1 .. setup'.conns |-> AddressesOf(p, n - 1)']
      BY <1>1, <3>4
    <3>. HIDE DEF at
    <3>6. told'[q].about = p /\ told'[q].at = at /\ told'[q].judged = b
      BY <3>3
    <3>7. TellsOf(q)' <=> (told'[q].judged =>
            /\ told'[q].about \in probed'
            /\ told'[q].at = [n \in 1 .. setup'.conns |-> AddressesOf(told[q].about, n - 1)'])
      BY DEF TellsOf
    <3>. QED
      BY <1>1, <3>5, <3>6, <3>7
  <2>. QED
    BY <2>1, <2>2
<1>6. \A p \in Peers : NeedsProbing(p)' = NeedsProbing(p)
  BY <1>1, SetupKept
<1>. QED
  BY <1>1, <1>4, <1>5, <1>6 DEF TellInv, Tellings

LEMMA NextTellings == TellInv /\ [Next]_vars => Tellings'
<1>. SUFFICES ASSUME TellInv, [Next]_vars PROVE Tellings'
  OBVIOUS
<1>. USE DEF server, client, env
<1>0. Tellings /\ probed \subseteq Peers
  BY DEF TellInv, TypeOK
<1>1. CASE UNCHANGED vars
  BY <1>0, <1>1, TellingsSame DEF vars
<1>2. CASE \E p \in Peers : Client(p) \/ CProbeFails(p) \/ CProbeTimeout(p) \/ CLeave(p)
  <2>1. UNCHANGED <<setup, server>>
    BY <1>2 DEF Client, CRegister, CRegistered, CReadsEnd, CLeave, CProbe, CProbeFails,
               CProbeAck, CProbeTimeout, CComplete
  <2>. QED
    BY <1>0, <2>1, TellingsSame
<1>3. CASE Server
  <2>1. ASSUME NEW p \in Peers, HRegister(p) PROVE Tellings'
    BY <2>1, RegisterTells
  <2>2. ASSUME NEW p \in Peers, HProbesComplete(p) PROVE Tellings'
    BY <2>2, CompleteTells
  <2>3. ASSUME NEW p \in Peers, HEnd(p) PROVE Tellings'
    <3>1. /\ UNCHANGED <<setup, analysis, taken, probed, complete, told>>
          /\ h' = [h EXCEPT ![p] = "ended"]
      BY <2>3 DEF HEnd
    <3>2. \A q \in Peers : /\ (h[q] # "none" => h'[q] # "none")
                            /\ (h'[q] = "serving" => h[q] = "serving")
      BY <3>1 DEF TellInv, TypeOK
    <3>. QED
      BY <1>0, <3>1, <3>2, TellingsSame
  <2>4. ASSUME NEW f \in flying, HProbe(f) \/ HFilterTested(f) PROVE Tellings'
    <3>1. UNCHANGED <<setup, h, analysis, taken, probed, complete, told>>
      BY <2>4 DEF HProbe, HFilterTested
    <3>. QED
      BY <1>0, <3>1, TellingsSame
  <2>5. ASSUME CoStart PROVE Tellings'
    BY <2>5, CoStartTells
  <2>. QED
    BY <1>3, <2>1, <2>2, <2>3, <2>4, <2>5 DEF Server
<1>. QED
  BY <1>1, <1>2, <1>3 DEF Next

LEMMA TellInvHolds == Spec => []TellInv
<1>. DEFINE Inv == SessionInv /\ Tellings
<1>2. Init => Inv
  BY InitTypes, InitIInv, InitSession, InitTellings DEF SessionInv
<1>3. Inv /\ [Next]_vars => Inv'
  <2>1. SessionInv /\ Tellings => TellInv
    BY DEF SessionInv, TellInv
  <2>2. SessionInv /\ [Next]_vars => SessionInv'
    BY NextTypes, NextIInv, NextSession DEF SessionInv
  <2>. QED
    BY <2>1, <2>2, NextTellings
<1>4. Inv => TellInv
  BY DEF SessionInv, TellInv
<1>. QED
  BY <1>2, <1>3, <1>4, PTL DEF Spec

\* What a setup says of a role.
LEMMA RoleSetup ==
  ASSUME setup \in Setups, NEW p \in Peers
  PROVE  /\ Of(p).nat \in NATs /\ Of(p).punch \in 1 .. 16 /\ Of(p).external \in BOOLEAN
         /\ Of(p).percent \in Nat /\ setup.maxScan \in Nat /\ setup.conns \in Nat \ {0}
BY RoleFacts, RegistrationAssumption DEF Roles, Of

\* A client's sockets are on ports above 20000, and outside they are ports too.
LEMMA PortType ==
  ASSUME NEW p \in Peers, NEW n \in Nat
  PROVE  Port(p, n) \in Nat /\ Port(p, n) >= 20000
<1>1. p.run \in 1 .. MaxRuns /\ MaxRuns \in Nat
  BY RegistrationAssumption DEF Peers
<1>2. p.run - 1 \in Nat
  BY <1>1
<1>3. 16 * (p.run - 1) \in Nat
  BY <1>2
<1>. QED
  BY <1>3 DEF Port

LEMMA ExternalType ==
  ASSUME setup \in Setups, NEW p \in Peers,
         NEW l \in Nat, l >= 20000, NEW z \in Nat, NEW k \in Nat
  PROVE  External(p, l, z, k) \in Nat \ {0}
<1>. DEFINE nat == Of(p).nat
<1>1. nat \in NATs
  BY RoleSetup
<1>2. External(p, l, z, k) =
        CASE nat.kind = "offset" -> l + nat.by
          [] nat.kind = "per_destination" -> l + nat.by + 7 * z
          [] nat.kind = "per_connection" -> nat.ports[(k % Len(nat.ports)) + 1]
  BY DEF External
<1>. HIDE DEF nat
<1>3. CASE nat \in [kind : {"offset", "per_destination"}, by : {d \in Int : d > -20000}]
  <2>1. nat.kind \in {"offset", "per_destination"} /\ nat.by \in Int /\ nat.by > -20000
    BY <1>3
  <2>2. CASE nat.kind = "offset"
    <3>1. External(p, l, z, k) = l + nat.by
      BY <1>2, <2>2
    <3>. QED
      BY <2>1, <3>1
  <2>3. CASE nat.kind = "per_destination"
    <3>1. External(p, l, z, k) = l + nat.by + 7 * z
      BY <1>2, <2>3
    <3>. QED
      BY <2>1, <3>1
  <2>. QED
    BY <2>1, <2>2, <2>3
<1>4. CASE nat \in [kind : {"per_connection"}, ports : Seq(1 .. MAX_PORT) \ {<<>>}]
  <2>. DEFINE s == nat.ports
              j == (k % Len(s)) + 1
  <2>1. nat.kind = "per_connection" /\ s \in Seq(1 .. MAX_PORT) /\ s # <<>>
    BY <1>4
  <2>2. External(p, l, z, k) = s[j]
    BY <1>2, <2>1
  <2>. DEFINE len == Len(s)
  <2>. HIDE DEF s
  <2>3. len \in Nat /\ len > 0 /\ DOMAIN s = 1 .. len
    BY <2>1
  <2>4. j = (k % len) + 1
    OBVIOUS
  <2>. HIDE DEF len, j
  <2>5. k % len \in 0 .. len - 1
    BY <2>3
  <2>6. j \in DOMAIN s
    BY <2>3, <2>4, <2>5
  <2>7. s[j] \in 1 .. MAX_PORT
    <3>. DEFINE S == 1 .. MAX_PORT
    <3>1. s \in Seq(S)
      BY <2>1
    <3>. HIDE DEF S
    <3>2. s[j] \in S
      BY <2>6, <3>1
    <3>. QED
      BY <3>2 DEF S
  <2>. QED
    BY <2>2, <2>7, PortLimits
<1>. QED
  BY <1>1, <1>3, <1>4 DEF NATs

\* What is noted of a probe are ports.
LEMMA ProbeType ==
  ASSUME setup \in Setups, NEW p \in Peers, NEW i \in Nat
  PROVE  Probe(p, i).nat \in Nat \ {0} /\ Probe(p, i).local \in Nat
<1>. DEFINE n == (i \div 2) % setup.conns
            l == IF ~NeedsProbing(p) THEN Port(p, 0)
                 ELSE IF Of(p).bound THEN Port(p, n)
                 ELSE 50000 + 2 * i
            z == IF NeedsProbing(p) /\ Of(p).bound THEN 1 + (i % 2) ELSE 1
            k == i + 1
<1>1. n \in Nat
  <2>. DEFINE x == setup.conns
              y == i \div 2
  <2>1. x \in Nat /\ x > 0
    BY RoleSetup
  <2>2. y \in Nat
    OBVIOUS
  <2>. HIDE DEF x, y
  <2>3. y % x \in Nat
    BY <2>1, <2>2
  <2>. QED
    BY <2>3 DEF x, y
<1>. HIDE DEF n
<1>2. /\ Port(p, 0) \in Nat /\ Port(p, 0) >= 20000
      /\ Port(p, n) \in Nat /\ Port(p, n) >= 20000
  BY <1>1, PortType
<1>3. l \in Nat /\ l >= 20000
  BY <1>2
<1>4. z \in Nat /\ k \in Nat
  OBVIOUS
<1>5. Probe(p, i).nat = External(p, l, z, k) /\ Probe(p, i).local = l
  BY DEF Probe, n
<1>. HIDE DEF l, z, k
<1>6. External(p, l, z, k) \in Nat \ {0}
  BY <1>3, <1>4, ExternalType
<1>. QED
  BY <1>3, <1>5, <1>6

LEMMA NotesAreProbes ==
  ASSUME setup \in Setups, NEW s \in Seq(Notes)
  PROVE  IsProbes(s)
<1>1. ASSUME NEW x \in Notes PROVE x.nat \in Nat \ {0} /\ x.local \in Nat
  <2>1. PICK y \in Peers \X Nat \X BOOLEAN : x = Noted(y[1], y[2], y[3])
    BY DEF Notes
  <2>2. y[1] \in Peers /\ y[2] \in Nat
    OBVIOUS
  <2>3. x.nat = Probe(y[1], y[2]).nat /\ x.local = Probe(y[1], y[2]).local
    BY <2>1 DEF Noted
  <2>. QED
    BY <2>2, <2>3, ProbeType
<1>2. \A k \in DOMAIN s : s[k] \in Notes
  OBVIOUS
<1>. QED
  BY <1>1, <1>2 DEF IsProbes

\* Analyses that come of no list or of one whose ports are kept: none has a range to try.
LEMMA ClosedAnalyses ==
  /\ \A p : /\ ~Unknown(p).scan /\ Unknown(p).n = 0 /\ Unknown(p).predicted = p
            /\ Unknown(p).pattern = "insufficient_data"
            /\ Unknown(p).allocation = "unbestimmt"
            /\ Unknown(p).deltaMin = 0 /\ Unknown(p).deltaMax = 0 /\ Unknown(p).delta2 = 0
  /\ \A p, seen0, m, n : /\ ~Preserved(p, seen0, m, n).scan
                         /\ Preserved(p, seen0, m, n).pattern = "port_preserved"
<1>1. ASSUME NEW p
      PROVE  /\ ~Unknown(p).scan /\ Unknown(p).n = 0 /\ Unknown(p).predicted = p
             /\ Unknown(p).pattern = "insufficient_data"
             /\ Unknown(p).allocation = "unbestimmt"
             /\ Unknown(p).deltaMin = 0 /\ Unknown(p).deltaMax = 0 /\ Unknown(p).delta2 = 0
  BY DEF Unknown
<1>2. ASSUME NEW p, NEW seen0, NEW m, NEW n
      PROVE  /\ ~Preserved(p, seen0, m, n).scan
             /\ Preserved(p, seen0, m, n).pattern = "port_preserved"
  BY DEF Preserved, Unknown
<1>. QED
  BY <1>1, <1>2

\* A client that was judged from two probes or more, unless its ports are kept.
LEMMA JudgedClient ==
  ASSUME TellInv, NEW p \in probed, NeedsProbing(p), Len(taken[p]) >= 2,
         Values(DeltasOf(taken[p])) # {0}
  PROVE  Judged(analysis[p], Measured(taken[p], Port(p, 0), Of(p).external),
                SpreadOf(taken[p], Of(p).external))
<1>1. p \in Peers /\ setup \in Setups /\ taken[p] \in Seq(Notes) /\ Assessed(p)
  BY DEF TellInv, TypeOK, NotesKept, Tellings
<1>2. IsProbes(taken[p])
  BY <1>1, NotesAreProbes
<1>3. Port(p, 0) \in Nat /\ Of(p).external \in BOOLEAN /\ Of(p).percent \in Nat
  BY <1>1, PortType, RoleSetup
<1>4. taken[p] # <<>>
  OBVIOUS
<1>5. analysis[p] = Analyze(taken[p], Port(p, 0), Of(p).external, Of(p).percent)
  BY <1>1, <1>4 DEF Assessed
<1>. QED
  BY <1>2, <1>3, <1>5, AnalyzeSound

\* The other analyses of a client.
LEMMA OtherAnalyses ==
  ASSUME TellInv, NEW p \in probed
  PROVE  /\ NeedsProbing(p) /\ taken[p] = <<>> => analysis[p] = Unknown(ControlPort(p))
         /\ NeedsProbing(p) /\ taken[p] # <<>> /\ Len(taken[p]) < 2 => analysis[p] = Unknown(0)
         /\ ~NeedsProbing(p) \/ (Len(taken[p]) >= 2 /\ Values(DeltasOf(taken[p])) = {0}) =>
              \E l, s, m, n : analysis[p] = Preserved(l, s, m, n)
<1>1. p \in Peers /\ setup \in Setups /\ taken[p] \in Seq(Notes) /\ Assessed(p)
  BY DEF TellInv, TypeOK, NotesKept, Tellings
<1>2. Len(taken[p]) \in Nat /\ Of(p).external \in BOOLEAN
  BY <1>1, RoleSetup
<1>3. NeedsProbing(p) /\ taken[p] = <<>> => analysis[p] = Unknown(ControlPort(p))
  BY <1>1 DEF Assessed
<1>4. NeedsProbing(p) /\ taken[p] # <<>> =>
        analysis[p] = Analyze(taken[p], Port(p, 0), Of(p).external, Of(p).percent)
  BY <1>1 DEF Assessed
<1>5. ASSUME NeedsProbing(p), taken[p] # <<>>, Len(taken[p]) < 2
      PROVE  analysis[p] = Unknown(0)
  <2>. DEFINE probes == taken[p]
              local == Port(p, 0)
              external == Of(p).external
              percent == Of(p).percent
  <2>1. Len(probes) \in Nat /\ external \in BOOLEAN /\ Len(probes) < 2
    BY <1>2, <1>5
  <2>2. analysis[p] = Analyze(probes, local, external, percent)
    BY <1>4, <1>5
  <2>. HIDE DEF probes, local, external, percent
  <2>. QED
    BY <2>1, <2>2, AnalyzeSteps
<1>6. ASSUME Len(taken[p]) >= 2, Values(DeltasOf(taken[p])) = {0}, NeedsProbing(p)
      PROVE  \E l, s, m, n : analysis[p] = Preserved(l, s, m, n)
  <2>1. taken[p] # <<>>
    BY <1>6
  <2>2. analysis[p] = Preserved(Port(p, 0), Values(PortsOf(taken[p])), Mapping(taken[p]),
                                Len(taken[p]))
    BY <1>2, <1>4, <1>6, <2>1, AnalyzeSteps
  <2>. QED
    BY <2>2
<1>7. ~NeedsProbing(p) => \E l, s, m, n : analysis[p] = Preserved(l, s, m, n)
  BY <1>1 DEF Assessed
<1>. QED
  BY <1>3, <1>5, <1>6, <1>7

\* Where a range is to be tried, it comes of at least two probes and holds the prediction.
LEMMA ScanOpen ==
  ASSUME TellInv, NEW p \in probed, analysis[p].scan
  PROVE  Open(analysis[p]) /\ analysis[p].n \in Nat /\ analysis[p].n >= 2
<1>1. ~\E l, s, m, n : analysis[p] = Preserved(l, s, m, n)
  BY ClosedAnalyses
<1>2. ~\E l : analysis[p] = Unknown(l)
  BY ClosedAnalyses
<1>3. taken[p] \in Seq(Notes) /\ Len(taken[p]) \in Nat
  BY DEF TellInv, TypeOK, NotesKept
<1>4. NeedsProbing(p) /\ taken[p] # <<>> /\ Len(taken[p]) >= 2 /\ Values(DeltasOf(taken[p])) # {0}
  BY <1>1, <1>2, <1>3, OtherAnalyses
<1>. DEFINE a == analysis[p]
            m == Measured(taken[p], Port(p, 0), Of(p).external)
<1>5. Judged(a, m, SpreadOf(taken[p], Of(p).external))
  BY <1>4, JudgedClient
<1>6. m.n = Len(taken[p])
  BY DEF Measured
<1>. HIDE DEF a, m
<1>7. a \in Figures(m.mapping) /\ a.n = m.n
  BY <1>5 DEF Judged, SameFigures
<1>8. a.start \in Int /\ a.end \in Int /\ a.predicted \in Int /\ a.min \in Int /\ a.max \in Int
  BY <1>7 DEF Figures
<1>9. a.start > 0 /\ a.start <= a.predicted /\ a.predicted <= a.end
  BY <1>5, <1>8, PortLimits DEF Judged
<1>. QED
  BY <1>3, <1>4, <1>6, <1>7, <1>8, <1>9 DEF Open, a

\* What the addresses of a client that counts as probed are like.
LEMMA AddressesFacts ==
  ASSUME TellInv, NEW p \in probed, NEW n \in Nat
  PROVE  LET s == AddressesOf(p, n)
             l == Port(p, n)
             primary == NatPort(analysis[p], l, Of(p).external, ControlPort(p))
         IN /\ s # <<>> /\ (setup.shared => Head(s) = InLan(l))
            /\ Has(s, Public(primary))
            /\ analysis[p].scan => Has(s, Public(analysis[p].predicted))
            /\ LET k == Needed(analysis[p], Of(p).punch, setup.maxScan)
               IN analysis[p].scan => \A x : Has(CandidatePorts(analysis[p], k), x) =>
                                             Has(s, Public(x))
            /\ OneToOne(s) /\ s \in Seq(ToSet(s))
            /\ \A i \in DOMAIN s : s[i].lan <=> (i = 1 /\ setup.shared)
<1>. DEFINE a == analysis[p]
            l == Port(p, n)
            primary == NatPort(a, l, Of(p).external, ControlPort(p))
            lan == IF setup.shared THEN l ELSE 0
            m == Of(p).punch
            k == setup.maxScan
<1>1. p \in Peers /\ setup \in Setups
  BY DEF TellInv, TypeOK
<1>2. l \in Nat /\ l > 0
  BY <1>1, PortType
<1>3. /\ lan \in Nat /\ (setup.shared => lan = l /\ lan > 0) /\ setup.shared \in BOOLEAN
      /\ lan > 0 <=> setup.shared
  BY <1>1, <1>2, RegistrationAssumption
<1>4. m \in 1 .. 16 /\ k \in Nat
  BY <1>1, RoleSetup
<1>5. a.scan => Open(a) /\ a.n \in Nat /\ a.n >= 2
  BY ScanOpen
<1>6. AddressesOf(p, n) = PeerAddresses(a, primary, lan, m, k)
  BY DEF AddressesOf
<1>. HIDE DEF a, l, primary, lan, m, k
<1>. DEFINE s == PeerAddresses(a, primary, lan, m, k)
<1>7. /\ s # <<>> /\ Head(s) = IF lan > 0 THEN InLan(lan) ELSE Public(primary)
      /\ Has(s, Public(primary))
      /\ a.scan => Has(s, Public(a.predicted))
      /\ a.scan => \A x : Has(CandidatePorts(a, Needed(a, m, k)), x) => Has(s, Public(x))
      /\ OneToOne(s) /\ s \in Seq(ToSet(s))
      /\ \A i \in DOMAIN s : s[i].lan <=> (i = 1 /\ lan > 0)
  BY <1>3, <1>4, <1>5, PeerFacts
<1>. HIDE DEF s
<1>8. setup.shared => Head(s) = InLan(l)
  BY <1>3, <1>7
<1>9. \A i \in DOMAIN s : s[i].lan <=> (i = 1 /\ setup.shared)
  BY <1>3, <1>7
<1>10. /\ s # <<>> /\ (setup.shared => Head(s) = InLan(l))
       /\ Has(s, Public(primary))
       /\ a.scan => Has(s, Public(a.predicted))
       /\ OneToOne(s) /\ s \in Seq(ToSet(s))
  BY <1>7, <1>8
<1>11. a.scan => \A x : Has(CandidatePorts(a, Needed(a, m, k)), x) => Has(s, Public(x))
  BY <1>7
<1>. QED
  BY <1>6, <1>9, <1>10, <1>11 DEF s, a, l, primary, m, k

\* A public address told is a port told.
LEMMA ToldPort ==
  ASSUME NEW q, NEW n, NEW x, Has(told[q].at[n], Public(x))
  PROVE  x \in PortsTold(q, n)
<1>1. PICK j \in DOMAIN told[q].at[n] : told[q].at[n][j] = Public(x)
  BY DEF Has
<1>2. ~told[q].at[n][j].lan /\ told[q].at[n][j].port = x
  BY <1>1 DEF Public
<1>. QED
  BY <1>1, <1>2 DEF PortsTold

\* What a peer was told for a connection.
LEMMA ToldFacts ==
  ASSUME TellInv, NEW q \in Told, NEW n \in 1 .. setup.conns
  PROVE  /\ q \in Peers /\ told[q].about \in probed /\ n - 1 \in Nat
         /\ told[q].at[n] = AddressesOf(told[q].about, n - 1)
<1>1. q \in Peers /\ told[q].judged
  BY DEF Told
<1>2. TellsOf(q)
  BY <1>1 DEF TellInv, Tellings
<1>3. setup.conns \in Nat
  BY RegistrationAssumption DEF TellInv, TypeOK
<1>. QED
  BY <1>1, <1>2, <1>3 DEF TellsOf

\* Whatever the NATs, the probes that came through, the range, the window and the budget,
\* the prediction is among the ports that the peer of a judged client is told for every
\* connection (nat_analyzer.py:205-219, 587-623, utils.py:54-64).
THEOREM PredictionIsOffered == Spec => []PredictionOffered
<1>1. TellInv => PredictionOffered
  <2>. SUFFICES ASSUME TellInv, NEW q \in Told, NEW n \in 1 .. setup.conns, About(q).scan
                PROVE  About(q).predicted \in PortsTold(q, n)
    BY DEF PredictionOffered
  <2>. DEFINE p == told[q].about
  <2>1. p \in probed /\ n - 1 \in Nat /\ told[q].at[n] = AddressesOf(p, n - 1)
    BY ToldFacts
  <2>2. About(q) = analysis[p]
    BY DEF About
  <2>. HIDE DEF p
  <2>3. Has(AddressesOf(p, n - 1), Public(analysis[p].predicted))
    BY <2>1, <2>2, AddressesFacts
  <2>. QED
    BY <2>1, <2>2, <2>3, ToldPort
<1>. QED
  BY TellInvHolds, <1>1, PTL

\* A NAT that adds a constant adds it to every port.
LEMMA OffsetFacts ==
  ASSUME setup \in Setups, NEW p \in Peers, Of(p).nat.kind = "offset"
  PROVE  /\ Of(p).nat.by \in Int
         /\ \A l, z, k : External(p, l, z, k) = l + Of(p).nat.by
         /\ NeedsProbing(p) <=> Of(p).nat.by # 0
<1>1. Of(p).nat.by \in Int
  <2>1. Of(p).nat \in NATs
    BY RoleSetup
  <2>2. Of(p).nat \in [kind : {"offset", "per_destination"}, by : {d \in Int : d > -20000}]
    BY <2>1 DEF NATs
  <2>. QED
    BY <2>2
<1>2. ASSUME NEW l, NEW z, NEW k PROVE External(p, l, z, k) = l + Of(p).nat.by
  BY DEF External
<1>3. ControlPort(p) = Port(p, 0) + Of(p).nat.by
  BY <1>2 DEF ControlPort
<1>4. Port(p, 0) \in Nat
  BY PortType
<1>. QED
  BY <1>1, <1>2, <1>3, <1>4 DEF NeedsProbing

\* Behind an address that is one client's there are the programs of its role only, also
\* where a probe was left behind by an earlier one (server.py:141-144).
OfItsRole ==
  ~setup.shared =>
    \A p \in Peers : \A k \in DOMAIN taken[p] : taken[p][k].by.role = p.role

LEMMA CompleteRoles ==
  ASSUME NotesKept, OfItsRole, NEW p \in Peers, HProbesComplete(p)
  PROVE  OfItsRole'
<1>. DEFINE mine == Those(pending, Own(p))
<1>1. UNCHANGED setup
  BY DEF HProbesComplete, env
<1>. SUFFICES ASSUME ~setup.shared, NEW q \in Peers, NEW k \in DOMAIN taken'[q]
              PROVE  taken'[q][k].by.role = q.role
  BY <1>1 DEF OfItsRole
<1>2. CASE taken'[q] = taken[q]
  BY <1>2 DEF OfItsRole
<1>3. CASE taken'[q] # taken[q]
  <2>1. NeedsProbing(p)
    BY <1>3 DEF HProbesComplete
  <2>2. /\ taken' = [taken EXCEPT ![p] = mine]
        /\ \A j \in DOMAIN mine : \E i \in Own(p) : mine[j] = pending[i]
    BY <2>1, CompleteTakes
  <2>. HIDE DEF mine
  <2>3. q = p /\ taken'[q] = mine
    BY <1>3, <2>2 DEF NotesKept
  <2>4. PICK i \in Own(p) : mine[k] = pending[i]
    BY <2>2, <2>3
  <2>5. pending[i] \in Notes /\ Address(pending[i].by) = Address(p)
    BY <2>4 DEF Own, NotesKept
  <2>6. pending[i].by \in Peers
    BY <2>5, NoteTypes
  <2>7. pending[i].by.role = p.role
    BY <2>5, <2>6, AddressFacts
  <2>. QED
    BY <2>3, <2>4, <2>7
<1>. QED
  BY <1>2, <1>3

LEMMA OfItsRoleHolds == Spec => []OfItsRole
<1>1. Init => OfItsRole
  BY DEF Init, OfItsRole
<1>2. SessionInv /\ OfItsRole /\ [Next]_vars => OfItsRole'
  <2>. SUFFICES ASSUME SessionInv, OfItsRole, [Next]_vars PROVE OfItsRole'
    OBVIOUS
  <2>1. CASE UNCHANGED <<setup, taken>>
    BY <2>1 DEF OfItsRole
  <2>2. ASSUME NEW p \in Peers, HProbesComplete(p) PROVE OfItsRole'
    BY <2>2, CompleteRoles DEF SessionInv
  <2>3. CASE UNCHANGED vars
    BY <2>1, <2>3 DEF vars, env, server
  <2>4. CASE \E p \in Peers : Client(p) \/ CProbeFails(p) \/ CProbeTimeout(p) \/ CLeave(p)
    BY <2>1, <2>4 DEF Client, CRegister, CRegistered, CReadsEnd, CLeave, CProbe,
               CProbeFails, CProbeAck, CProbeTimeout, CComplete, env, server
  <2>5. CASE Server
    BY <2>1, <2>2, <2>5 DEF Server, HRegister, HProbe, HFilterTested, CoStart, HEnd, env
  <2>. QED
    BY <2>3, <2>4, <2>5 DEF Next
<1>. QED
  BY SessionInvHolds, <1>1, <1>2, PTL DEF Spec

\* So all probes found there show the same difference.
LEMMA OffsetDeltas ==
  ASSUME setup \in Setups, NEW p \in Peers, Of(p).nat.kind = "offset",
         NEW s \in Seq(Notes), s # <<>>, \A k \in DOMAIN s : s[k].by.role = p.role
  PROVE  Values(DeltasOf(s)) = {Of(p).nat.by}
<1>. DEFINE by == Of(p).nat.by
<1>1. ASSUME NEW k \in DOMAIN s PROVE s[k].nat - s[k].local = by
  <2>1. s[k] \in Notes
    OBVIOUS
  <2>2. PICK y \in Peers \X Nat \X BOOLEAN : s[k] = Noted(y[1], y[2], y[3])
    BY <2>1 DEF Notes
  <2>. DEFINE q == y[1]
  <2>3. q \in Peers /\ q.role = p.role /\ y[2] \in Nat
    BY <2>2, NoteFacts
  <2>4. s[k].nat = Probe(q, y[2]).nat /\ s[k].local = Probe(q, y[2]).local
    BY <2>2 DEF Noted
  <2>. HIDE DEF q
  <2>5. Probe(q, y[2]).local \in Nat
    BY <2>3, ProbeType
  <2>6. Probe(q, y[2]).nat = Probe(q, y[2]).local + by
    <3>1. Of(q) = Of(p)
      BY <2>3 DEF Of
    <3>. QED
      BY <2>3, <3>1, OffsetFacts DEF Probe
  <2>7. by \in Int
    BY OffsetFacts
  <2>. QED
    BY <2>4, <2>5, <2>6, <2>7
<1>2. 1 \in DOMAIN s
  OBVIOUS
<1>. HIDE DEF by
<1>3. \A k \in DOMAIN s : DeltasOf(s)[k] = by
  BY <1>1 DEF DeltasOf
<1>4. DOMAIN DeltasOf(s) = DOMAIN s
  BY DEF DeltasOf
<1>5. Values(DeltasOf(s)) = {by}
  BY <1>2, <1>3, <1>4 DEF Values
<1>. QED
  BY <1>5 DEF by

\* The port told first for connection n of a client whose NAT adds a constant is the one its
\* socket has outside.
LEMMA PortKnown ==
  ASSUME TellInv, NEW p \in probed, NEW n \in Nat, Of(p).nat.kind = "offset", ~Of(p).external,
         analysis[p].shift = 0, n = 0 \/ ~NeedsProbing(p) \/ analysis[p].n > 1,
         \A k \in DOMAIN taken[p] : taken[p][k].by.role = p.role,
         External(p, Port(p, n), 0, 0) \in MIN_PORT .. MAX_PORT
  PROVE  NatPort(analysis[p], Port(p, n), Of(p).external, ControlPort(p))
           = External(p, Port(p, n), 0, 0)
<1>. DEFINE a == analysis[p]
            l == Port(p, n)
            by == Of(p).nat.by
            x == External(p, l, 0, 0)
            cp == ControlPort(p)
            guess == NatPort(a, l, Of(p).external, cp)
<1>1. p \in Peers /\ setup \in Setups /\ taken[p] \in Seq(Notes)
  BY DEF TellInv, TypeOK, NotesKept
<1>2. l \in Nat /\ by \in Int /\ x = l + by /\ (NeedsProbing(p) <=> by # 0)
  <2>1. l \in Nat
    BY <1>1, PortType
  <2>2. by \in Int /\ x = l + by /\ (NeedsProbing(p) <=> by # 0)
    BY <1>1, OffsetFacts, Zenon
  <2>. QED
    BY <2>1, <2>2
<1>3. n = 0 => cp = x
  BY DEF ControlPort
<1>4. x \in MIN_PORT .. MAX_PORT /\ x \in Int /\ InPortRange(x) = x
  <2>. HIDE DEF x
  <2>1. x \in Int /\ MIN_PORT <= x /\ x <= MAX_PORT
    BY PortLimits DEF x
  <2>. QED
    BY <2>1, InRange DEF x
<1>5. ASSUME NEW y, NEW s, NEW m, NEW k, a = Preserved(y, s, m, k) PROVE guess = l
  <2>1. a.pattern = "port_preserved"
    BY <1>5, ClosedAnalyses
  <2>. HIDE DEF a, l, cp
  <2>. QED
    BY <2>1 DEF NatPort
<1>6. CASE ~NeedsProbing(p)
  <2>1. guess = l
    BY <1>5, <1>6, OtherAnalyses
  <2>. HIDE DEF guess, l, x, by
  <2>. QED
    BY <1>2, <1>6, <2>1 DEF guess, l, x
<1>7. CASE NeedsProbing(p) /\ taken[p] = <<>>
  <2>1. a = Unknown(cp)
    BY <1>7, OtherAnalyses
  <2>2. n = 0
    BY <1>7, <2>1, ClosedAnalyses
  <2>3. guess = IF cp > 0 THEN InPortRange(cp) ELSE cp
    <3>. HIDE DEF cp, l
    <3>1. /\ a.pattern = "insufficient_data" /\ a.allocation = "unbestimmt"
          /\ a.deltaMin = 0 /\ a.deltaMax = 0 /\ a.delta2 = 0 /\ a.predicted = cp
      BY <2>1, ClosedAnalyses
    <3>. HIDE DEF a
    <3>2. ~Of(p).external
      OBVIOUS
    <3>. QED
      BY <3>1, <3>2 DEF NatPort
  <2>. HIDE DEF guess, x, cp
  <2>. QED
    BY <1>3, <1>4, <2>2, <2>3 DEF guess, x, cp
<1>8. CASE NeedsProbing(p) /\ taken[p] # <<>> /\ Len(taken[p]) < 2
  <2>1. a = Unknown(0)
    BY <1>8, OtherAnalyses
  <2>2. n = 0
    BY <1>8, <2>1, ClosedAnalyses
  <2>3. guess = cp
    <3>. HIDE DEF cp, l
    <3>1. /\ a.pattern = "insufficient_data" /\ a.allocation = "unbestimmt"
          /\ a.deltaMin = 0 /\ a.deltaMax = 0 /\ a.delta2 = 0 /\ a.predicted = 0
      BY <2>1, ClosedAnalyses
    <3>. HIDE DEF a
    <3>2. ~Of(p).external
      OBVIOUS
    <3>. QED
      BY <3>1, <3>2 DEF NatPort
  <2>. HIDE DEF guess, x, cp
  <2>. QED
    BY <1>3, <2>2, <2>3 DEF guess, x, cp
<1>9. CASE NeedsProbing(p) /\ taken[p] # <<>> /\ ~(Len(taken[p]) < 2)
  <2>. DEFINE s == taken[p]
              m == Measured(s, Port(p, 0), Of(p).external)
              deltas == DeltasOf(s)
  <2>1. Len(s) \in Nat /\ Len(s) >= 2
    BY <1>1, <1>9
  <2>2. Values(deltas) = {by} /\ Values(deltas) # {0}
    BY <1>1, <1>2, <1>9, OffsetDeltas
  <2>3. Judged(a, m, SpreadOf(s, Of(p).external))
    BY <1>9, <2>1, <2>2, JudgedClient
  <2>4. deltas \in Seq(Int) /\ deltas # <<>>
    <3>1. IsProbes(s)
      BY <1>1, NotesAreProbes
    <3>. HIDE DEF s
    <3>. QED
      BY <2>1, <3>1, ProbeLists
  <2>5. /\ m.deltaMin = Min(Values(deltas)) /\ m.deltaMax = Max(Values(deltas))
        /\ m.delta2 = Median2(deltas)
    BY DEF Measured
  <2>6. SpreadOf(s, Of(p).external) = Width(deltas)
    BY DEF SpreadOf
  <2>. HIDE DEF a, m, s, deltas, by, l, x, guess, cp
  <2>7. /\ Min(Values(deltas)) = by /\ Max(Values(deltas)) = by /\ Median2(deltas) = 2 * by
        /\ Width(deltas) = 0
    <3>1. Min(Values(deltas)) \in {by} /\ Max(Values(deltas)) \in {by}
      BY <2>2, <2>4, ListFacts
    <3>2. Median2(deltas) = 2 * by
      BY <2>2, <2>4, MedianFacts
    <3>. QED
      BY <1>2, <3>1, <3>2 DEF Width
  <2>8. /\ a.pattern # "port_preserved" /\ a.allocation # "zufaellig_im_band"
        /\ a.deltaMin = by /\ a.delta2 = 2 * by
    <3>1. a \in Figures(m.mapping) /\ SameFigures(m, a)
      BY <2>3 DEF Judged
    <3>2. a.allocation \in {"versatzstabil", "fortlaufend"}
      BY <2>3, <2>6, <2>7 DEF Judged
    <3>. QED
      BY <2>5, <2>7, <3>1, <3>2 DEF Figures, Patterns, SameFigures
  <2>9. guess = InPortRange(RoundDiv(2 * l + a.delta2 + 2 * a.shift, 2))
    <3>1. by # 0 /\ ~Of(p).external
      BY <1>2, <1>9
    <3>. QED
      BY <2>8, <3>1, Zenon DEF NatPort, guess
  <2>10. a.shift = 0
    BY DEF a
  <2>11. 2 * l + a.delta2 + 2 * a.shift = 2 * x
    BY <1>2, <2>8, <2>10
  <2>12. RoundDiv(2 * x, 2) = x
    BY <1>4, RoundHalf
  <2>13. guess = x
    BY <1>4, <2>9, <2>11, <2>12
  <2>. QED
    BY <2>13 DEF guess, x, a, l, cp
<1>. QED
  BY <1>6, <1>7, <1>8, <1>9

\* Whatever constant a NAT adds and whichever probes came through, the port that a judged
\* client's socket for a connection has outside is among those its peer is told, though only
\* the first went through the relay's control port; behind one address, the port in the LAN
\* comes first (nat_analyzer.py:531-532).
THEOREM KnownPortIsOffered == Spec => []KnownPortOffered
<1>1. TellInv /\ OfItsRole => KnownPortOffered
  <2>. SUFFICES ASSUME TellInv, OfItsRole, NEW q \in Told, NEW n \in 1 .. setup.conns
                PROVE  LET p == told[q].about
                       IN /\ setup.shared => Head(told[q].at[n]) = InLan(Port(p, n - 1))
                          /\ /\ ~setup.shared
                             /\ Of(p).nat.kind = "offset" /\ ~Of(p).external
                             /\ About(q).shift = 0
                             /\ n = 1 \/ ~NeedsProbing(p) \/ About(q).n > 1
                             /\ External(p, Port(p, n - 1), 0, 0) \in MIN_PORT .. MAX_PORT
                             => External(p, Port(p, n - 1), 0, 0) \in PortsTold(q, n)
    BY Zenon DEF KnownPortOffered
  <2>. DEFINE p == told[q].about
              k == n - 1
              l == Port(p, k)
              a == analysis[p]
  <2>1. p \in probed /\ k \in Nat /\ told[q].at[n] = AddressesOf(p, k)
    BY ToldFacts
  <2>2. About(q) = a
    BY DEF About
  <2>3. n = 1 => k = 0
    OBVIOUS
  <2>. HIDE DEF p, k
  <2>4. setup.shared => Head(AddressesOf(p, k)) = InLan(l)
    BY <2>1, AddressesFacts
  <2>5. Has(AddressesOf(p, k), Public(NatPort(a, l, Of(p).external, ControlPort(p))))
    BY <2>1, AddressesFacts
  <2>6. p \in Peers
    BY <2>1 DEF TellInv, TypeOK
  <2>7. ASSUME ~setup.shared, Of(p).nat.kind = "offset", ~Of(p).external, a.shift = 0,
               n = 1 \/ ~NeedsProbing(p) \/ a.n > 1,
               External(p, l, 0, 0) \in MIN_PORT .. MAX_PORT
        PROVE  External(p, l, 0, 0) \in PortsTold(q, n)
    <3>1. \A j \in DOMAIN taken[p] : taken[p][j].by.role = p.role
      BY <2>7, <2>6 DEF OfItsRole
    <3>2. NatPort(a, l, Of(p).external, ControlPort(p)) = External(p, l, 0, 0)
      BY <2>1, <2>3, <2>7, <3>1, PortKnown
    <3>. QED
      BY <2>1, <2>5, <3>2, ToldPort
  <2>8. setup.shared => Head(told[q].at[n]) = InLan(l)
    BY <2>1, <2>4
  <2>. QED
    BY <2>2, <2>7, <2>8, Zenon DEF p, k
<1>. QED
  BY TellInvHolds, OfItsRoleHolds, <1>1, PTL

\* Whatever the peer was told, a client with a budget keeps to it and to the band: for any
\* budget and any list (strategy.rs:205-264).
THEOREM TargetsWithinBand == Spec => []ThinnedWithinBand
<1>1. TellInv => ThinnedWithinBand
  <2>. SUFFICES ASSUME TellInv, NEW q \in Told, NEW n \in 1 .. setup.conns,
                       NEW max \in {1, 2, 3, 5}
                PROVE  KeepsTheBand(told[q].at[n], About(q).min, About(q).max, max, setup.shared)
    BY DEF ThinnedWithinBand, KeepsTheBand
  <2>. DEFINE p == told[q].about
              s == AddressesOf(p, n - 1)
              S == ToSet(s)
              lo == About(q).min
              hi == About(q).max
              lan == setup.shared
  <2>1. p \in probed /\ n - 1 \in Nat /\ told[q].at[n] = s
    BY ToldFacts
  <2>2. /\ s # <<>> /\ OneToOne(s) /\ s \in Seq(S)
        /\ \A i \in DOMAIN s : s[i].lan <=> (i = 1 /\ lan)
    <3>. HIDE DEF p
    <3>. QED
      BY <2>1, AddressesFacts
  <2>3. lan \in BOOLEAN /\ max \in Nat /\ max > 0
    BY RegistrationAssumption DEF TellInv, TypeOK
  <2>. HIDE DEF s, S, lo, hi, lan
  <2>4. LanFirst(s, lan)
    BY <2>2 DEF LanFirst
  <2>5. KeepsTheBand(s, lo, hi, max, lan)
    BY <2>2, <2>3, <2>4, TargetsFacts
  <2>. QED
    BY <2>1, <2>5 DEF lo, hi, lan
<1>. QED
  BY TellInvHolds, <1>1, PTL

\* A band that was measured: the range holds the ports seen, and each probe's is one of them.
LEMMA BandMeasured ==
  ASSUME TellInv, NEW p \in probed, analysis[p].pattern = "random_like"
  PROVE  /\ analysis[p].scan /\ Spans(analysis[p]) /\ analysis[p].min <= analysis[p].max
         /\ \A k \in DOMAIN taken[p] :
              taken[p][k].nat \in analysis[p].min .. analysis[p].max
<1>. DEFINE a == analysis[p]
            s == taken[p]
            m == Measured(s, Port(p, 0), Of(p).external)
            ports == PortsOf(s)
<1>1. p \in Peers /\ setup \in Setups /\ s \in Seq(Notes) /\ Len(s) \in Nat
  BY DEF TellInv, TypeOK, NotesKept
<1>2. ~\E l, r, n, i : a = Preserved(l, r, n, i)
  BY ClosedAnalyses
<1>3. ~\E l : a = Unknown(l)
  BY ClosedAnalyses
<1>4. NeedsProbing(p) /\ s # <<>> /\ Len(s) >= 2 /\ Values(DeltasOf(s)) # {0}
  BY <1>1, <1>2, <1>3, OtherAnalyses
<1>5. Judged(a, m, SpreadOf(s, Of(p).external))
  BY <1>4, JudgedClient
<1>6. IsProbes(s)
  BY <1>1, NotesAreProbes
<1>7. ports \in Seq(Int) /\ ports # <<>>
  <2>. HIDE DEF s
  <2>1. Len(s) >= 1
    BY <1>1, <1>4
  <2>. QED
    BY <1>6, <2>1, ProbeLists
<1>8. m.min = Min(Values(ports)) /\ m.max = Max(Values(ports))
  BY DEF Measured
<1>9. DOMAIN ports = DOMAIN s /\ \A k \in DOMAIN s : ports[k] = s[k].nat
  BY DEF PortsOf
<1>10. a.pattern = "random_like"
  OBVIOUS
<1>. HIDE DEF a, s, m, ports
<1>11. a.min = m.min /\ a.max = m.max /\ Spans(a)
  BY <1>5 DEF Judged, SameFigures
<1>12. a.scan
  BY <1>10, <1>11 DEF Spans
<1>13. /\ a.min \in Int /\ a.max \in Int /\ a.min \in Values(ports)
       /\ \A x \in Values(ports) : x \in Int /\ a.min <= x /\ x <= a.max
       /\ \A k \in DOMAIN ports : ports[k] \in Values(ports)
  BY <1>7, <1>8, <1>11, ListFacts
<1>14. \A k \in DOMAIN s : s[k].nat \in a.min .. a.max
  BY <1>9, <1>13
<1>. QED
  BY <1>11, <1>12, <1>13, <1>14 DEF a, s

\* What the candidates are to a peer, they are to what it was told.
LEMMA BandTold ==
  ASSUME TellInv, NEW q \in Told, NEW n \in 1 .. setup.conns, NEW m,
         About(q).scan, m = Needed(About(q), Of(told[q].about).punch, setup.maxScan)
  PROVE  \A x : Has(CandidatePorts(About(q), m), x) => x \in PortsTold(q, n)
<1>. DEFINE p == told[q].about
            a == analysis[p]
<1>1. p \in probed /\ n - 1 \in Nat /\ told[q].at[n] = AddressesOf(p, n - 1)
  BY ToldFacts
<1>2. About(q) = a /\ a.scan /\ m = Needed(a, Of(p).punch, setup.maxScan)
  BY DEF About
<1>. HIDE DEF p
<1>3. \A x : Has(CandidatePorts(a, m), x) => Has(AddressesOf(p, n - 1), Public(x))
  BY <1>1, <1>2, AddressesFacts
<1>4. \A x : Has(CandidatePorts(a, m), x) => Has(told[q].at[n], Public(x))
  BY <1>1, <1>3
<1>. QED
  BY <1>2, <1>4, ToldPort

\* Whatever band a NAT draws from and whatever the budget, the peer of a judged client is
\* told every port seen and all between, or the least, the greatest and others so close that
\* no gap is wider than the budget requires (nat_analyzer.py:587-623).
THEOREM BandIsCovered == Spec => []BandCovered
<1>1. TellInv => BandCovered
  <2>. DEFINE Need(q) == Needed(About(q), Of(told[q].about).punch, setup.maxScan)
              Ports(q, n) == PortsTold(q, n) \cap (About(q).min .. About(q).max)
  <2>. SUFFICES ASSUME TellInv, NEW q \in Told, NEW n \in 1 .. setup.conns,
                       About(q).pattern = "random_like",
                       Need(q) > 2 \/ About(q).end - About(q).start < Need(q),
                       MIN_PORT <= About(q).min, About(q).max <= MAX_PORT
                PROVE  /\ {About(q).min, About(q).max} \subseteq Ports(q, n)
                       /\ IF About(q).end - About(q).start < Need(q)
                          THEN \A k \in DOMAIN taken[told[q].about] :
                                 taken[told[q].about][k].nat \in Ports(q, n)
                          ELSE \A x \in Ports(q, n) \ {About(q).max} :
                                 \E y \in Ports(q, n) :
                                   x < y /\ y - x <= CeilDiv(About(q).max - About(q).min,
                                                             Need(q) - 2)
    BY Zenon DEF BandCovered
  <2>. DEFINE p == told[q].about
              a == About(q)
              m == Need(q)
              ports == Ports(q, n)
              lo == a.min
              hi == a.max
              gap == CeilDiv(hi - lo, m - 2)
  <2>1. p \in probed /\ a = analysis[p]
    BY ToldFacts DEF About
  <2>2. /\ a.scan /\ Spans(a) /\ lo <= hi
        /\ \A k \in DOMAIN taken[p] : taken[p][k].nat \in lo .. hi
    <3>. HIDE DEF p
    <3>. QED
      BY <2>1, BandMeasured
  <2>3. Open(a) /\ a.n \in Nat /\ a.n >= 2
    <3>. HIDE DEF p, a
    <3>. QED
      BY <2>1, <2>2, ScanOpen
  <2>4. a.start <= lo /\ hi <= a.end /\ lo \in Int /\ hi \in Int
    BY <2>2, <2>3 DEF Spans, Open
  <2>5. m \in Nat
    <3>1. Of(p).punch \in 1 .. 16 /\ setup.maxScan \in Nat
      <4>1. p \in Peers /\ setup \in Setups
        BY <2>1 DEF TellInv, TypeOK
      <4>. HIDE DEF p
      <4>. QED
        BY <4>1, RoleSetup
    <3>2. a.min \in Int /\ a.max \in Int
      BY <2>3 DEF Open
    <3>. QED
      BY <2>2, <2>3, <3>1, <3>2, NeededType
  <2>6. \A x : Has(CandidatePorts(a, m), x) => x \in PortsTold(q, n)
    BY <2>2, BandTold
  <2>7. m > 2 => lo < hi
    BY <2>2, <2>3, <2>4, NeededMany
  <2>8. a.pattern = "random_like" /\ (m > 2 \/ a.end - a.start < m)
    OBVIOUS
  <2>9. \A x \in lo .. hi : Has(CandidatePorts(a, m), x) => x \in ports
    BY <2>6
  <2>. HIDE DEF p, a, m, ports
  <2>10. CASE a.end - a.start < m
    <3>1. \A x \in lo .. hi : x \in ports
      BY <2>2, <2>3, <2>4, <2>5, <2>8, <2>9, <2>10, BandCandidates
    <3>2. lo \in ports /\ hi \in ports
      BY <2>2, <2>4, <3>1
    <3>3. \A k \in DOMAIN taken[p] : taken[p][k].nat \in ports
      BY <2>2, <3>1
    <3>. QED
      BY <2>10, <3>2, <3>3 DEF p, a, m, ports
  <2>11. CASE ~(a.end - a.start < m)
    <3>1. Covers(CandidatePorts(a, m), lo, hi, gap)
      BY <2>2, <2>3, <2>4, <2>5, <2>7, <2>8, <2>11, BandCandidates
    <3>2. lo \in ports /\ hi \in ports
      <4>1. lo \in lo .. hi /\ hi \in lo .. hi
        BY <2>2, <2>4
      <4>. QED
        BY <2>9, <3>1, <4>1 DEF Covers
    <3>. HIDE DEF gap
    <3>3. ASSUME NEW x \in ports \ {hi}
          PROVE  \E y \in ports : x < y /\ y - x <= gap
      <4>1. x \in lo .. hi /\ x < hi
        <5>1. x \in lo .. hi /\ x # hi
          BY <3>3 DEF ports, a
        <5>. QED
          BY <2>4, <5>1
      <4>2. PICK y \in lo .. hi : Has(CandidatePorts(a, m), y) /\ x < y /\ y - x <= gap
        BY <3>1, <4>1 DEF Covers
      <4>. QED
        BY <2>9, <4>2
    <3>. QED
      BY <2>11, <3>2, <3>3 DEF a, m, ports, gap
  <2>. QED
    BY <2>10, <2>11
<1>. QED
  BY TellInvHolds, <1>1, PTL

----------------------------------------------------------------------------
(* The verdicts on a NAT.                                                  *)

\* Whatever is under way, kept or acknowledged of a probe, its program has begun it.
Numbered ==
  /\ \A p \in Peers : \A k \in seen[p] : k < begun[p]
  /\ \A f \in flying : f.num < begun[f.by]
  /\ \A k \in DOMAIN pending : pending[k].num < begun[pending[k].by]
  /\ \A q \in Peers : \A k \in DOMAIN taken[q] : taken[q][k].num < begun[taken[q][k].by]

\* A program is done when it has begun all its probes; if none has failed, each was
\* acknowledged, but perhaps the one it waits for.
Awaited(p) ==
  /\ c[p] = "done" => begun[p] = ProbeCount(p)
  /\ p \in complete => p \in probed
  /\ faults = 0 /\ Awaits(p) =>
       \A k \in Nat : k < begun[p] => k \in seen[p] \/ (waits[p] /\ k = begun[p] - 1)

CountInv == Numbered /\ \A p \in Peers : Awaited(p)

LEMMA InitCounts == Init => CountInv
<1>. SUFFICES ASSUME Init PROVE CountInv
  OBVIOUS
<1>1. Numbered
  BY DEF Init, Numbered
<1>2. \A p \in Peers : Awaited(p)
  BY DEF Init, Awaited
<1>. QED
  BY <1>1, <1>2 DEF CountInv

\* A step of a client leaves the relay alone, and begins at most one probe.
LEMMA ClientNumbers ==
  ASSUME LossInv, Numbered, NEW p \in Peers,
         Client(p) \/ CProbeFails(p) \/ CProbeTimeout(p) \/ CLeave(p)
  PROVE  Numbered'
<1>1. UNCHANGED <<pending, taken>>
  BY DEF Client, CRegister, CRegistered, CReadsEnd, CLeave, CProbe, CProbeFails,
         CProbeAck, CProbeTimeout, CComplete, server
<1>2. begun \in [Peers -> Nat] /\ \A q \in Peers : begun'[q] \in Nat /\ begun[q] <= begun'[q]
  <2>1. begun' = begun \/ begun' = [begun EXCEPT ![p] = @ + 1]
    BY DEF Client, CRegister, CRegistered, CReadsEnd, CLeave, CProbe, CProbeFails,
           CProbeAck, CProbeTimeout, CComplete, client
  <2>. QED
    BY <2>1 DEF LossInv, TypeOK
<1>3. \A f \in flying : f.by \in Peers /\ f.num \in Nat
  BY DEF LossInv, TypeOK
<1>4. \A f \in flying' : f \in flying \/ (f.by = p /\ f.num = begun[p] /\ begun'[p] = begun[p] + 1)
  BY <1>2 DEF Client, CRegister, CRegistered, CReadsEnd, CLeave, CProbe, CProbeFails,
         CProbeAck, CProbeTimeout, CComplete
<1>5. \A q \in Peers : \A k \in seen'[q] : k \in seen[q] \/ \E f \in flying : f.by = q /\ f.num = k
  <2>1. CASE CProbeAck(p)
    <3>1. PICK f \in flying : /\ f = [by |-> p, num |-> begun[p] - 1, st |-> "acked"]
                              /\ seen' = [seen EXCEPT ![p] = @ \cup {f.num}]
      BY <2>1 DEF CProbeAck
    <3>2. f.by = p
      BY <3>1
    <3>. QED
      BY <3>1, <3>2 DEF LossInv, TypeOK
  <2>2. CASE ~CProbeAck(p)
    <3>1. seen' = seen
      BY <2>2 DEF Client, CRegister, CRegistered, CReadsEnd, CLeave, CProbe, CProbeFails,
         CProbeTimeout, CComplete
    <3>. QED
      BY <3>1
  <2>. QED
    BY <2>1, <2>2
<1>6. \A q \in Peers : \A k \in seen[q] : k \in Nat
  BY DEF LossInv, TypeOK
<1>7. \A f \in flying' : f.num < begun'[f.by]
  BY <1>2, <1>3, <1>4 DEF Numbered
<1>8. \A q \in Peers : \A k \in seen'[q] : k < begun'[q]
  <2>. SUFFICES ASSUME NEW q \in Peers, NEW k \in seen'[q] PROVE k < begun'[q]
    OBVIOUS
  <2>1. k \in Nat /\ k < begun[q]
    BY <1>3, <1>5, <1>6 DEF Numbered
  <2>. QED
    BY <1>2, <2>1
<1>9. \A x \in Notes : x.num < begun[x.by] => x.num < begun'[x.by]
  <2>. TAKE x \in Notes
  <2>1. x.by \in Peers /\ x.num \in Nat
    BY NoteTypes
  <2>. QED
    BY <1>2, <2>1
<1>10. \A k \in DOMAIN pending : pending[k] \in Notes
  BY DEF LossInv, NotesKept
<1>11. \A q \in Peers : \A k \in DOMAIN taken[q] : taken[q][k] \in Notes
  <2>. TAKE q \in Peers
  <2>1. taken[q] \in Seq(Notes)
    BY DEF LossInv, NotesKept
  <2>. QED
    BY <2>1
<1>12. \A k \in DOMAIN pending' : pending'[k].num < begun'[pending'[k].by]
  BY <1>1, <1>9, <1>10 DEF Numbered
<1>13. \A q \in Peers : \A k \in DOMAIN taken'[q] : taken'[q][k].num < begun'[taken'[q][k].by]
  BY <1>1, <1>9, <1>11 DEF Numbered
<1>. QED
  BY <1>7, <1>8, <1>12, <1>13 DEF Numbered

\* The relay moves what is known of a probe, and makes up nothing.
LEMMA ServerNumbers ==
  ASSUME LossInv, Numbered, Server
  PROVE  Numbered'
<1>1. UNCHANGED <<begun, seen>>
  BY DEF Server, HRegister, HProbe, HFilterTested, HProbesComplete, CoStart, HEnd, client
<1>2. \A q \in Peers : \A k \in seen'[q] : k < begun'[q]
  BY <1>1 DEF Numbered
<1>3. ASSUME \E p \in Peers : HRegister(p) PROVE Numbered'
  BY <1>1, <1>3 DEF HRegister, Numbered
<1>4. ASSUME CoStart PROVE Numbered'
  BY <1>1, <1>4 DEF CoStart, Numbered
<1>5. ASSUME NEW f \in flying, HProbe(f) PROVE Numbered'
  <2>. DEFINE x == Noted(f.by, f.num, members[f.by.role] = f.by)
  <2>1. /\ DOMAIN pending' = DOMAIN pending \cup {Len(pending) + 1}
        /\ \A k \in DOMAIN pending : pending'[k] = pending[k]
        /\ pending'[Len(pending) + 1] = x
    BY <1>5, ProbeNotes DEF LossInv
  <2>2. x.by = f.by /\ x.num = f.num
    BY NoteFacts
  <2>. HIDE DEF x
  <2>3. f.num < begun[f.by]
    BY DEF Numbered
  <2>4. \A k \in DOMAIN pending' : pending'[k].num < begun[pending'[k].by]
    BY <2>1, <2>2, <2>3 DEF Numbered
  <2>5. f \in [by : Peers, num : Nat, st : {"sent", "testing", "acked"}]
    BY DEF LossInv, TypeOK
  <2>6. \A g \in flying' : g \in flying \/ (g.by = f.by /\ g.num = f.num)
    BY <1>5, <2>5 DEF HProbe
  <2>7. \A g \in flying' : g.num < begun[g.by]
    BY <2>3, <2>6 DEF Numbered
  <2>8. taken' = taken
    BY <1>5 DEF HProbe
  <2>. QED
    BY <1>1, <1>2, <2>4, <2>7, <2>8 DEF Numbered
<1>6. ASSUME NEW f \in flying, HFilterTested(f) PROVE Numbered'
  <2>1. f \in [by : Peers, num : Nat, st : {"sent", "testing", "acked"}]
    BY DEF LossInv, TypeOK
  <2>2. \A g \in flying' : g \in flying \/ (g.by = f.by /\ g.num = f.num)
    BY <1>6, <2>1 DEF HFilterTested
  <2>3. \A g \in flying' : g.num < begun[g.by]
    BY <2>2 DEF Numbered
  <2>4. UNCHANGED <<pending, taken>>
    BY <1>6 DEF HFilterTested
  <2>. QED
    BY <1>1, <1>2, <2>3, <2>4 DEF Numbered
<1>7. ASSUME NEW p \in Peers, HProbesComplete(p) PROVE Numbered'
  <2>1. flying' = flying
    BY <1>7 DEF HProbesComplete
  <2>2. CASE NeedsProbing(p)
    <3>. DEFINE mine == Those(pending, Own(p))
    <3>1. /\ \A j \in DOMAIN pending' : \E k \in DOMAIN pending \ Own(p) : pending'[j] = pending[k]
          /\ taken' = [taken EXCEPT ![p] = mine]
          /\ \A j \in DOMAIN mine : \E k \in Own(p) : mine[j] = pending[k]
      BY <1>7, <2>2, CompleteTakes DEF LossInv
    <3>. HIDE DEF mine
    <3>2. \A j \in DOMAIN pending' : pending'[j].num < begun[pending'[j].by]
      BY <3>1 DEF Numbered
    <3>3. \A j \in DOMAIN mine : mine[j].num < begun[mine[j].by]
      BY <3>1 DEF Numbered, Own
    <3>4. \A q \in Peers : \A j \in DOMAIN taken'[q] : taken'[q][j].num < begun[taken'[q][j].by]
      BY <3>1, <3>3 DEF Numbered, LossInv, NotesKept
    <3>. QED
      BY <1>1, <1>2, <2>1, <3>2, <3>4 DEF Numbered
  <2>3. CASE ~NeedsProbing(p)
    <3>1. UNCHANGED <<pending, taken>>
      BY <1>7, <2>3 DEF HProbesComplete
    <3>. QED
      BY <1>1, <1>2, <2>1, <3>1 DEF Numbered
  <2>. QED
    BY <2>2, <2>3
<1>8. ASSUME NEW p \in Peers, HEnd(p) PROVE Numbered'
  <2>1. (pending' = pending \/ pending' = <<>>) /\ UNCHANGED <<flying, taken>>
    BY <1>8 DEF HEnd, Cleanup
  <2>2. \A j \in DOMAIN pending' : pending'[j].num < begun[pending'[j].by]
    BY <2>1 DEF Numbered
  <2>. QED
    BY <1>1, <1>2, <2>1, <2>2 DEF Numbered
<1>. QED
  BY <1>3, <1>4, <1>5, <1>6, <1>7, <1>8 DEF Server

\* Without a fault a program begins its next probe when the last one was acknowledged.
LEMMA ClientAwaits ==
  ASSUME LossInv, \A q \in Peers : Awaited(q), NEW p \in Peers,
         Client(p) \/ CProbeFails(p) \/ CProbeTimeout(p) \/ CLeave(p)
  PROVE  \A q \in Peers : Awaited(q)'
<1>1. UNCHANGED <<setup, complete, probed>>
  BY DEF Client, CRegister, CRegistered, CReadsEnd, CLeave, CProbe, CProbeFails,
         CProbeAck, CProbeTimeout, CComplete, server, env
<1>2. \A q : ProbeCount(q)' = ProbeCount(q) /\ Awaits(q)' = Awaits(q)
  BY <1>1, SetupKept DEF Awaits
<1>3. \A q \in Peers : begun[q] \in Nat
  BY DEF LossInv, TypeOK
<1>4. CASE CRegister(p) \/ CRegistered(p) \/ CComplete(p)
  <2>1. /\ UNCHANGED <<begun, seen, faults>>
        /\ \A q \in Peers : c'[q] = "done" => c[q] = "done" \/ begun[q] = ProbeCount(q)
    BY <1>4 DEF CRegister, CRegistered, CComplete, LossInv, TypeOK, env
  <2>2. waits' = waits
    BY <1>4 DEF CRegister, CRegistered, CComplete
  <2>. QED
    BY <1>1, <1>2, <2>1, <2>2 DEF Awaited
<1>5. CASE CReadsEnd(p) \/ CLeave(p)
  <2>1. UNCHANGED <<c, begun, seen, waits, faults>>
    BY <1>5 DEF CReadsEnd, CLeave, env
  <2>. QED
    BY <1>1, <1>2, <2>1 DEF Awaited
<1>6. CASE CProbe(p)
  <2>1. /\ UNCHANGED <<c, seen, faults>> /\ c[p] = "probing" /\ ~waits[p]
        /\ begun' = [begun EXCEPT ![p] = @ + 1] /\ waits' = [waits EXCEPT ![p] = Awaits(p)]
    BY <1>6 DEF CProbe, env
  <2>2. begun'[p] = begun[p] + 1 /\ waits'[p] = Awaits(p)
    BY <2>1 DEF LossInv, TypeOK
  <2>3. \A q \in Peers : q # p => begun'[q] = begun[q] /\ waits'[q] = waits[q]
    BY <2>1 DEF LossInv, TypeOK
  <2>4. Awaited(p)'
    <3>1. ASSUME faults = 0, Awaits(p), NEW k \in Nat, k < begun'[p]
          PROVE  k \in seen'[p] \/ (waits'[p] /\ k = begun'[p] - 1)
      <4>1. waits'[p]
        BY <2>2, <3>1, Zenon
      <4>2. k < begun[p] => k \in seen[p]
        BY <2>1, <3>1 DEF Awaited
      <4>3. k < begun[p] \/ k = begun'[p] - 1
        BY <1>3, <2>2, <3>1
      <4>. QED
        BY <2>1, <4>1, <4>2, <4>3
    <3>2. c'[p] # "done" /\ (p \in complete' => p \in probed')
      BY <1>1, <2>1 DEF Awaited
    <3>3. faults' = faults /\ Awaits(p)' = Awaits(p)
      BY <1>2, <2>1
    <3>. QED
      BY <3>1, <3>2, <3>3 DEF Awaited
  <2>. QED
    BY <1>1, <1>2, <2>1, <2>3, <2>4 DEF Awaited
<1>7. CASE CProbeFails(p) \/ CProbeTimeout(p)
  <2>1. faults' # 0
    <3>1. faults \in Nat /\ faults' = faults + 1
      BY <1>7 DEF CProbeFails, CProbeTimeout, LossInv, TypeOK
    <3>. QED
      BY <3>1
  <2>2. /\ c' = c
        /\ \A q \in Peers : c[q] = "done" => begun'[q] = begun[q]
    <3>1. c' = c /\ (begun' = begun \/ (c[p] = "probing" /\ begun' = [begun EXCEPT ![p] = @ + 1]))
      BY <1>7 DEF CProbeFails, CProbeTimeout
    <3>. QED
      BY <3>1 DEF LossInv, TypeOK
  <2>. QED
    BY <1>1, <1>2, <2>1, <2>2 DEF Awaited
<1>8. CASE CProbeAck(p)
  <2>1. PICK f \in flying : /\ f = [by |-> p, num |-> begun[p] - 1, st |-> "acked"]
                            /\ seen' = [seen EXCEPT ![p] = @ \cup {f.num}]
    BY <1>8 DEF CProbeAck
  <2>2. UNCHANGED <<c, begun, faults>> /\ waits' = [waits EXCEPT ![p] = FALSE]
    BY <1>8 DEF CProbeAck, env
  <2>3. /\ seen'[p] = seen[p] \cup {begun[p] - 1}
        /\ \A q \in Peers : q # p => seen'[q] = seen[q] /\ waits'[q] = waits[q]
    BY <2>1, <2>2 DEF LossInv, TypeOK
  <2>4. Awaited(p)'
    BY <1>1, <1>2, <2>2, <2>3 DEF Awaited
  <2>. QED
    BY <1>1, <1>2, <2>2, <2>3, <2>4 DEF Awaited
<1>. QED
  BY <1>4, <1>5, <1>6, <1>7, <1>8 DEF Client

LEMMA NextCounts == LossInv /\ CountInv /\ [Next]_vars => CountInv'
<1>. SUFFICES ASSUME LossInv, Numbered, \A p \in Peers : Awaited(p), [Next]_vars PROVE CountInv'
  BY DEF CountInv
<1>1. ASSUME UNCHANGED <<setup, c, begun, waits, seen, faults>>,
             complete' \subseteq complete \cup probed', probed \subseteq probed'
      PROVE  \A p \in Peers : Awaited(p)'
  <2>1. \A p : ProbeCount(p)' = ProbeCount(p) /\ Awaits(p)' = Awaits(p)
    BY <1>1, SetupKept DEF Awaits
  <2>. QED
    BY <1>1, <2>1 DEF Awaited
<1>2. CASE UNCHANGED vars
  <2>1. Numbered'
    BY <1>2 DEF vars, client, server, Numbered
  <2>2. \A p \in Peers : Awaited(p)'
    BY <1>1, <1>2 DEF vars, client, server, env
  <2>. QED
    BY <2>1, <2>2 DEF CountInv
<1>3. CASE \E p \in Peers : Client(p) \/ CProbeFails(p) \/ CProbeTimeout(p) \/ CLeave(p)
  BY <1>3, ClientNumbers, ClientAwaits DEF CountInv
<1>4. CASE Server
  <2>1. UNCHANGED <<setup, c, begun, waits, seen, faults>>
    BY <1>4 DEF Server, HRegister, HProbe, HFilterTested, HProbesComplete, CoStart, HEnd,
                client, env
  <2>2. complete' \subseteq complete \cup probed' /\ probed \subseteq probed'
    BY <1>4 DEF Server, HRegister, HProbe, HFilterTested, HProbesComplete, CoStart, HEnd
  <2>. QED
    BY <1>1, <1>4, <2>1, <2>2, ServerNumbers DEF CountInv
<1>. QED
  BY <1>2, <1>3, <1>4 DEF Next

LEMMA CountInvHolds == Spec => []CountInv
BY LossInvHolds, InitCounts, NextCounts, PTL DEF Spec

\* Two probes of one socket to one destination that were acknowledged to p with other ports.
Differ(p, j, k) ==
  /\ Probe(p, j).local = Probe(p, k).local /\ Probe(p, j).dest = Probe(p, k).dest
  /\ Probe(p, j).nat # Probe(p, k).nat

\* The client's own verdict.
LEMMA OwnIs ==
  ASSUME NEW p, IsFiniteSet(seen[p])
  PROVE  /\ OwnVerdict(p) = "pro_verbindung" <=> \E j, k \in seen[p] : Differ(p, j, k)
         /\ (\E j, k \in seen[p] : /\ j # k /\ Probe(p, j).local = Probe(p, k).local
                                   /\ Probe(p, j).dest = Probe(p, k).dest)
              => OwnVerdict(p) # "unbestimmt"
<1>. DEFINE Alike(l, z) == {k \in seen[p] : Probe(p, k).local = l /\ Probe(p, k).dest = z}
            pairs == {Alike(Probe(p, k).local, Probe(p, k).dest) : k \in seen[p]}
            repeated == {s \in pairs : Cardinality(s) > 1}
            unlike == \E s \in repeated : \E j, k \in s : Probe(p, j).nat # Probe(p, k).nat
<1>1. OwnVerdict(p) = IF unlike THEN "pro_verbindung"
                      ELSE IF repeated # {} THEN "stabil" ELSE "unbestimmt"
  BY Zenon DEF OwnVerdict
<1>2. ASSUME NEW j \in seen[p], NEW k \in seen[p], j # k,
             Probe(p, j).local = Probe(p, k).local, Probe(p, j).dest = Probe(p, k).dest
      PROVE  \E s \in repeated : j \in s /\ k \in s
  <2>. DEFINE s == Alike(Probe(p, j).local, Probe(p, j).dest)
  <2>1. j \in s /\ k \in s /\ s \in SUBSET seen[p] /\ s \in pairs
    BY <1>2
  <2>. HIDE DEF s, pairs
  <2>2. IsFiniteSet(s)
    BY <2>1, FS_Subset
  <2>3. Cardinality(s) > 1
    BY <1>2, <2>1, <2>2, MoreThanOne
  <2>. QED
    BY <2>1, <2>3
<1>3. ASSUME unlike PROVE \E j, k \in seen[p] : Differ(p, j, k)
  <2>1. PICK s \in pairs : \E j, k \in s : Probe(p, j).nat # Probe(p, k).nat
    BY <1>3
  <2>2. PICK i \in seen[p] : s = Alike(Probe(p, i).local, Probe(p, i).dest)
    BY <2>1
  <2>3. PICK j, k \in s : Probe(p, j).nat # Probe(p, k).nat
    BY <2>1
  <2>4. /\ j \in seen[p] /\ k \in seen[p]
        /\ Probe(p, j).local = Probe(p, k).local /\ Probe(p, j).dest = Probe(p, k).dest
    BY <2>2, <2>3
  <2>. QED
    BY <2>3, <2>4 DEF Differ
<1>4. ASSUME NEW j \in seen[p], NEW k \in seen[p], Differ(p, j, k) PROVE unlike
  <2>1. /\ j # k /\ Probe(p, j).local = Probe(p, k).local /\ Probe(p, j).dest = Probe(p, k).dest
        /\ Probe(p, j).nat # Probe(p, k).nat
    BY <1>4 DEF Differ
  <2>2. PICK s \in repeated : j \in s /\ k \in s
    BY <1>2, <2>1
  <2>. QED
    BY <2>1, <2>2
<1>5. unlike <=> \E j, k \in seen[p] : Differ(p, j, k)
  BY <1>3, <1>4
<1>6. (\E j, k \in seen[p] : /\ j # k /\ Probe(p, j).local = Probe(p, k).local
                             /\ Probe(p, j).dest = Probe(p, k).dest) => repeated # {}
  BY <1>2
<1>. HIDE DEF unlike, repeated
<1>. QED
  BY <1>1, <1>5, <1>6

\* A client that probes from its bound sockets: where each probe comes from and goes to.
LEMMA BoundProbe ==
  ASSUME setup \in Setups, NEW p \in Peers, NeedsProbing(p), Of(p).bound, NEW i \in Nat
  PROVE  /\ Probe(p, i).local = Port(p, (i \div 2) % setup.conns)
         /\ Probe(p, i).dest = 1 + (i % 2) /\ Probe(p, i).dest \in {1, 2}
         /\ Probe(p, i).nat = External(p, Probe(p, i).local, Probe(p, i).dest, i + 1)
<1>1. /\ Probe(p, i).local = Port(p, (i \div 2) % setup.conns)
      /\ Probe(p, i).dest = 1 + (i % 2)
      /\ Probe(p, i).nat = External(p, Port(p, (i \div 2) % setup.conns), 1 + (i % 2), i + 1)
  BY DEF Probe
<1>2. 1 + (i % 2) \in {1, 2}
  OBVIOUS
<1>. QED
  BY <1>1, <1>2

\* There are enough probes for each pair of a port and a destination to be probed twice.
LEMMA EnoughProbes ==
  ASSUME setup \in Setups, NEW p \in Peers, NeedsProbing(p), Of(p).bound
  PROVE  \E n \in Nat :
           /\ n > 1 /\ n < ProbeCount(p) /\ 1 < ProbeCount(p)
           /\ Probe(p, 0).local = Port(p, 0) /\ Probe(p, 0).dest = 1
           /\ Probe(p, 1).local = Port(p, 0) /\ Probe(p, 1).dest = 2
           /\ Probe(p, n).local = Port(p, 0) /\ Probe(p, n).dest = 1
<1>. DEFINE m == setup.conns
            n == 2 * m
            a == Of(p).probes
            b == m * 2 * 2
<1>1. m \in Nat /\ m > 0 /\ a \in Nat
  BY RoleFacts, RegistrationAssumption DEF Roles, Of
<1>2. ProbeCount(p) = Max({a, b})
  BY DEF ProbeCount
<1>. HIDE DEF m, a
<1>3. b \in Int /\ b = 4 * m /\ a \in Int
  BY <1>1
<1>. HIDE DEF b
<1>4. Max({a, b}) = IF a >= b THEN a ELSE b
  BY <1>3, OfTwo
<1>5. ProbeCount(p) >= 4 * m /\ ProbeCount(p) \in Int
  BY <1>1, <1>2, <1>3, <1>4
<1>6. /\ n \in Nat /\ n \div 2 = m /\ n % 2 = 0 /\ m % m = 0
      /\ 0 \div 2 = 0 /\ 0 % 2 = 0 /\ 0 % m = 0 /\ 1 \div 2 = 0 /\ 1 % 2 = 1
  BY <1>1
<1>7. n > 1 /\ n < ProbeCount(p) /\ 1 < ProbeCount(p)
  BY <1>1, <1>5
<1>8. /\ \A i \in Nat : Probe(p, i).local = Port(p, (i \div 2) % m)
      /\ \A i \in Nat : Probe(p, i).dest = 1 + (i % 2)
  BY BoundProbe DEF m
<1>9. Probe(p, 0).local = Port(p, 0) /\ Probe(p, 0).dest = 1
  BY <1>6, <1>8
<1>10. Probe(p, 1).local = Port(p, 0) /\ Probe(p, 1).dest = 2
  BY <1>6, <1>8
<1>. HIDE DEF n
<1>11. Probe(p, n).local = Port(p, 0) /\ Probe(p, n).dest = 1
  BY <1>6, <1>8
<1>. QED
  BY <1>6, <1>7, <1>9, <1>10, <1>11

\* What the relay keeps of a client's own probe.
LEMMA OwnNote ==
  ASSUME NEW s \in Seq(Notes), NEW j \in DOMAIN s
  PROVE  /\ s[j].num \in Nat
         /\ s[j].nat = Probe(s[j].by, s[j].num).nat
         /\ s[j].local = Probe(s[j].by, s[j].num).local
         /\ s[j].dest = Probe(s[j].by, s[j].num).dest
<1>1. s[j] \in Notes
  OBVIOUS
<1>2. PICK y \in Peers \X Nat \X BOOLEAN : s[j] = Noted(y[1], y[2], y[3])
  BY <1>1 DEF Notes
<1>3. y[1] = s[j].by /\ y[2] = s[j].num /\ y[2] \in Nat
  BY <1>2, NoteFacts
<1>4. /\ s[j].nat = Probe(y[1], y[2]).nat /\ s[j].local = Probe(y[1], y[2]).local
      /\ s[j].dest = Probe(y[1], y[2]).dest
  BY <1>2 DEF Noted
<1>. QED
  BY <1>3, <1>4

\* An analysis of two probes or more says of the mapping what the probes say.
LEMMA AnalysisMapping ==
  ASSUME TellInv, NEW p \in probed, NeedsProbing(p), Len(taken[p]) >= 2
  PROVE  analysis[p].mapping = Mapping(taken[p])
<1>1. p \in Peers /\ setup \in Setups /\ taken[p] \in Seq(Notes) /\ Assessed(p)
  BY DEF TellInv, TypeOK, NotesKept, Tellings
<1>. DEFINE s == taken[p]
            local == Port(p, 0)
            external == Of(p).external
            percent == Of(p).percent
            m == Mapping(s)
            x == Measured(s, local, external)
<1>2. Len(s) \in Nat /\ s # <<>> /\ external \in BOOLEAN
  BY <1>1, RoleSetup
<1>3. analysis[p] = Analyze(s, local, external, percent)
  BY <1>1, <1>2 DEF Assessed
<1>4. x.mapping = m
  BY DEF Measured
<1>5. CASE Values(DeltasOf(s)) = {0}
  <2>1. analysis[p] = Preserved(local, Values(PortsOf(s)), m, Len(s))
    <3>. HIDE DEF s, local, external, percent
    <3>1. Len(s) >= 2
      BY DEF s
    <3>. QED
      BY <1>2, <1>3, <1>5, <3>1, AnalyzeSteps
  <2>. HIDE DEF s, local, m
  <2>2. Preserved(local, Values(PortsOf(s)), m, Len(s)).mapping = m
    BY DEF Preserved, Unknown
  <2>. QED
    BY <2>1, <2>2 DEF s, m
<1>6. CASE Values(DeltasOf(s)) # {0}
  <2>1. Judged(analysis[p], x, SpreadOf(s, external))
    BY <1>6, JudgedClient
  <2>. HIDE DEF s, x, m
  <2>2. analysis[p].mapping = x.mapping
    BY <2>1 DEF Judged, SameFigures
  <2>. QED
    BY <1>4, <2>2 DEF s, m
<1>. QED
  BY <1>5, <1>6

\* A list of p's own probes with the first two among them.
FirstTwo(s, p) ==
  /\ \A k \in DOMAIN s : s[k].by = p
  /\ \E i, j \in DOMAIN s : s[i].num = 0 /\ s[j].num = 1

\* It goes to two destinations, and the first socket is seen at both.
LEMMA TwoDestinations ==
  ASSUME setup \in Setups, NEW p \in Peers, NeedsProbing(p), Of(p).bound,
         NEW s \in Seq(Notes), FirstTwo(s, p)
  PROVE  /\ Dests(s) = {1, 2} /\ \E j, k \in DOMAIN s : s[j].dest # s[k].dest
         /\ Port(p, 0) \in Both(s)
         /\ \A k \in DOMAIN s :
              /\ s[k].local \in Nat /\ s[k].dest \in {1, 2}
              /\ \E n, e \in Nat : s[k].local = Port(p, n % setup.conns)
                                   /\ s[k].nat = External(p, s[k].local, s[k].dest, e)
<1>1. IsProbes(s)
  BY NotesAreProbes
<1>2. ASSUME NEW k \in DOMAIN s
      PROVE  /\ s[k].num \in Nat /\ s[k].local \in Nat /\ s[k].dest \in {1, 2}
             /\ s[k].local = Probe(p, s[k].num).local /\ s[k].dest = Probe(p, s[k].num).dest
             /\ \E n, e \in Nat : s[k].local = Port(p, n % setup.conns)
                                  /\ s[k].nat = External(p, s[k].local, s[k].dest, e)
  <2>. DEFINE i == s[k].num
              n == i \div 2
              e == i + 1
  <2>1. s[k].by = p
    BY DEF FirstTwo
  <2>2. /\ i \in Nat /\ s[k].nat = Probe(p, i).nat
        /\ s[k].local = Probe(p, i).local /\ s[k].dest = Probe(p, i).dest
    BY <2>1, OwnNote
  <2>. HIDE DEF i
  <2>3. /\ Probe(p, i).local = Port(p, n % setup.conns) /\ Probe(p, i).dest \in {1, 2}
        /\ Probe(p, i).nat = External(p, Probe(p, i).local, Probe(p, i).dest, e)
    BY <2>2, BoundProbe
  <2>4. n \in Nat /\ e \in Nat
    BY <2>2
  <2>5. Probe(p, i).local \in Nat
    BY <2>2, ProbeType
  <2>6. s[k].local = Port(p, n % setup.conns) /\ s[k].nat = External(p, s[k].local, s[k].dest, e)
    BY <2>2, <2>3
  <2>. HIDE DEF n, e
  <2>. QED
    BY <2>2, <2>3, <2>4, <2>5, <2>6 DEF i
<1>3. PICK i, j \in DOMAIN s : s[i].num = 0 /\ s[j].num = 1
  BY DEF FirstTwo
<1>4. /\ s[i].local = Port(p, 0) /\ s[i].dest = 1
      /\ s[j].local = Port(p, 0) /\ s[j].dest = 2
  BY <1>2, <1>3, EnoughProbes
<1>5. Dests(s) = {1, 2}
  BY <1>2, <1>4 DEF Dests
<1>6. Port(p, 0) \in Both(s)
  <2>1. Port(p, 0) \in Locals(s)
    BY <1>4 DEF Locals
  <2>2. s[i].nat \in At(s, Port(p, 0), 1) /\ s[j].nat \in At(s, Port(p, 0), 2)
    BY <1>1, <1>4, AtFacts
  <2>3. \A z \in {1, 2} : At(s, Port(p, 0), z) # {}
    BY <2>2
  <2>. QED
    BY <1>5, <2>1, <2>3 DEF Both
<1>. QED
  BY <1>2, <1>4, <1>5, <1>6

\* What the external ports of a NAT are by its kind.
LEMMA KindFacts ==
  ASSUME setup \in Setups, NEW p \in Peers,
         Of(p).nat.kind = "offset" \/ Of(p).nat.kind = "per_destination"
  PROVE  /\ Of(p).nat.by \in Int
         /\ Of(p).nat.kind = "offset" => \A l, z, k : External(p, l, z, k) = l + Of(p).nat.by
         /\ Of(p).nat.kind = "per_destination" =>
              \A l, z, k : External(p, l, z, k) = l + Of(p).nat.by + 7 * z
<1>. DEFINE nat == Of(p).nat
<1>1. nat \in NATs
  BY RoleSetup
<1>2. \A l, z, k : External(p, l, z, k) =
        CASE nat.kind = "offset" -> l + nat.by
          [] nat.kind = "per_destination" -> l + nat.by + 7 * z
          [] nat.kind = "per_connection" -> nat.ports[(k % Len(nat.ports)) + 1]
  BY DEF External
<1>. HIDE DEF nat
<1>3. nat.kind = "offset" \/ nat.kind = "per_destination"
  BY DEF nat
<1>4. nat.by \in Int
  BY <1>1, <1>3 DEF NATs
<1>5. nat.kind = "offset" => \A l, z, k : External(p, l, z, k) = l + nat.by
  BY <1>2
<1>6. nat.kind = "per_destination" => \A l, z, k : External(p, l, z, k) = l + nat.by + 7 * z
  BY <1>2
<1>. QED
  BY <1>4, <1>5, <1>6 DEF nat

\* A NAT that adds a constant is known for one that does not look at the destination.
LEMMA OffsetKnown ==
  ASSUME setup \in Setups, NEW p \in Peers, NeedsProbing(p), Of(p).bound,
         NEW s \in Seq(Notes), FirstTwo(s, p), Of(p).nat.kind = "offset"
  PROVE  Mapping(s) = "endpunktunabhaengig"
<1>. DEFINE by == Of(p).nat.by
<1>1. IsProbes(s)
  BY NotesAreProbes
<1>2. \A k \in DOMAIN s : s[k].nat = s[k].local + by
  BY KindFacts, TwoDestinations
<1>3. /\ \E j, k \in DOMAIN s : s[j].dest # s[k].dest
      /\ Both(s) # {}
  BY TwoDestinations
<1>. HIDE DEF by
<1>4. ~Redrawn(s)
  BY <1>2 DEF Redrawn
<1>5. ASSUME NEW l \in Both(s) PROVE Tied(s, l)
  <2>1. ASSUME NEW z \in Dests(s) PROVE l + by \in At(s, l, z)
    <3>1. PICK x : x \in At(s, l, z)
      BY <1>5 DEF Both
    <3>2. PICK k \in DOMAIN s : s[k].local = l /\ s[k].dest = z /\ s[k].nat = x
      BY <1>1, <3>1, AtFacts
    <3>. QED
      BY <1>2, <3>1, <3>2
  <2>. QED
    BY <2>1 DEF Tied
<1>. QED
  BY <1>1, <1>3, <1>4, <1>5, MappingIs

\* A NAT with a constant for each destination is known for one that does.
LEMMA DestinationKnown ==
  ASSUME setup \in Setups, NEW p \in Peers, NeedsProbing(p), Of(p).bound,
         NEW s \in Seq(Notes), FirstTwo(s, p), Of(p).nat.kind = "per_destination"
  PROVE  Mapping(s) = "portabhaengig"
<1>. DEFINE by == Of(p).nat.by
<1>1. IsProbes(s)
  BY NotesAreProbes
<1>2. by \in Int /\ \A k \in DOMAIN s : s[k].nat = s[k].local + by + 7 * s[k].dest
  BY KindFacts, TwoDestinations
<1>3. /\ \E j, k \in DOMAIN s : s[j].dest # s[k].dest
      /\ Both(s) # {} /\ Dests(s) = {1, 2}
      /\ \A k \in DOMAIN s : s[k].local \in Nat
  BY TwoDestinations
<1>. HIDE DEF by
<1>4. ~Redrawn(s)
  BY <1>2 DEF Redrawn
<1>5. ASSUME NEW l \in Both(s), Tied(s, l) PROVE FALSE
  <2>1. PICK x : x \in At(s, l, 1) /\ x \in At(s, l, 2)
    BY <1>3, <1>5 DEF Tied
  <2>2. PICK j \in DOMAIN s : s[j].local = l /\ s[j].dest = 1 /\ s[j].nat = x
    BY <1>1, <2>1, AtFacts
  <2>3. PICK k \in DOMAIN s : s[k].local = l /\ s[k].dest = 2 /\ s[k].nat = x
    BY <1>1, <2>1, AtFacts
  <2>4. x = l + by + 7 * 1 /\ x = l + by + 7 * 2 /\ l \in Nat
    BY <1>2, <1>3, <2>2, <2>3
  <2>. QED
    BY <1>2, <2>4
<1>. QED
  BY <1>1, <1>3, <1>4, <1>5, MappingIs

\* Of one socket there is always a verdict.
LEMMA OneSocketKnown ==
  ASSUME setup \in Setups, NEW p \in Peers, NeedsProbing(p), Of(p).bound,
         NEW s \in Seq(Notes), FirstTwo(s, p), setup.conns = 1
  PROVE  Mapping(s) # "unbestimmt"
<1>. DEFINE l == Port(p, 0)
            v == IF Tied(s, l) THEN "endpunktunabhaengig" ELSE "portabhaengig"
<1>1. IsProbes(s)
  BY NotesAreProbes
<1>2. /\ \E j, k \in DOMAIN s : s[j].dest # s[k].dest
      /\ l \in Both(s)
  BY TwoDestinations
<1>3. \A k \in DOMAIN s : s[k].local = l
  <2>. TAKE k \in DOMAIN s
  <2>1. PICK n \in Nat : s[k].local = Port(p, n % setup.conns)
    BY TwoDestinations
  <2>2. n % setup.conns = 0
    BY <2>1
  <2>. QED
    BY <2>1, <2>2
<1>. HIDE DEF l
<1>4. \A m \in Both(s) : m = l
  BY <1>3 DEF Both, Locals
<1>5. v \in {"endpunktunabhaengig", "portabhaengig"}
  OBVIOUS
<1>6. \A m \in Both(s) : Tied(s, m) <=> v = "endpunktunabhaengig"
  BY <1>4
<1>7. CASE Redrawn(s)
  BY <1>1, <1>7, MappingIs
<1>8. CASE ~Redrawn(s)
  <2>. HIDE DEF v
  <2>1. Mapping(s) = v
    BY <1>1, <1>2, <1>5, <1>6, <1>8, MappingIs
  <2>. QED
    BY <1>5, <2>1
<1>. QED
  BY <1>7, <1>8

\* The verdicts of client and relay on one NAT, from the same probes.
LEMMA SameVerdict ==
  ASSUME LossInv, TellInv, CountInv, NEW p \in Peers, Undivided(p), NeedsProbing(p), Of(p).bound,
         ~setup.shared
  PROVE  /\ OwnVerdict(p) = "pro_verbindung" => analysis[p].mapping = "pro_verbindung"
         /\ faults = 0 /\ (\A k \in DOMAIN taken[p] : taken[p][k].by = p) =>
              /\ OwnVerdict(p) # "unbestimmt"
              /\ OwnVerdict(p) = "stabil" => analysis[p].mapping # "pro_verbindung"
              /\ FirstTwo(taken[p], p) /\ analysis[p].mapping = Mapping(taken[p])
<1>. DEFINE s == taken[p]
<1>1. p \in probed /\ setup \in Setups /\ s \in Seq(Notes)
  BY DEF Undivided, CountInv, Awaited, TellInv, TypeOK, NotesKept
<1>2. begun[p] = ProbeCount(p) /\ ~waits[p] /\ begun[p] \in Nat
  BY DEF Undivided, CountInv, Awaited, LossInv, Course, TypeOK
<1>3. ASSUME NEW k \in seen[p] PROVE \E j \in DOMAIN s : s[j].by = p /\ s[j].num = k
  BY <1>3 DEF LossInv, NothingLost, Undivided, Safe, InTaken
<1>4. IsProbes(s)
  <2>. HIDE DEF s
  <2>. QED
    BY <1>1, NotesAreProbes
<1>5. IsFiniteSet(seen[p])
  <2>. DEFINE a == 0
              b == begun[p]
  <2>1. seen[p] \in SUBSET (a .. b)
    BY <1>2 DEF CountInv, Numbered, LossInv, TypeOK
  <2>2. a \in Int /\ b \in Int
    BY <1>2
  <2>. HIDE DEF a, b
  <2>3. IsFiniteSet(a .. b)
    BY <2>2, FS_Interval
  <2>. QED
    BY <2>1, <2>3, FS_Subset
<1>6. ASSUME NEW i \in DOMAIN s, NEW j \in DOMAIN s, i # j
      PROVE  analysis[p].mapping = Mapping(s)
  <2>1. Len(s) >= 2
    BY <1>1, <1>6
  <2>. QED
    BY <1>1, <2>1, AnalysisMapping
<1>. HIDE DEF s
<1>7. ASSUME NEW j \in seen[p], NEW k \in seen[p], Differ(p, j, k)
      PROVE  analysis[p].mapping = "pro_verbindung"
  <2>1. PICK i \in DOMAIN s : s[i].by = p /\ s[i].num = j
    BY <1>3
  <2>2. PICK n \in DOMAIN s : s[n].by = p /\ s[n].num = k
    BY <1>3
  <2>3. /\ s[i].nat = Probe(p, j).nat /\ s[i].local = Probe(p, j).local
        /\ s[i].dest = Probe(p, j).dest
    BY <1>1, <2>1, OwnNote
  <2>4. /\ s[n].nat = Probe(p, k).nat /\ s[n].local = Probe(p, k).local
        /\ s[n].dest = Probe(p, k).dest
    BY <1>1, <2>2, OwnNote
  <2>5. /\ s[i].local = s[n].local /\ s[i].dest = s[n].dest /\ s[i].nat # s[n].nat
    BY <1>7, <2>3, <2>4 DEF Differ
  <2>6. Redrawn(s) /\ i # n
    BY <2>5 DEF Redrawn
  <2>. QED
    BY <1>4, <1>6, <2>6, MappingIs
<1>8. OwnVerdict(p) = "pro_verbindung" => analysis[p].mapping = "pro_verbindung"
  BY <1>5, <1>7, OwnIs
<1>9. ASSUME faults = 0, \A k \in DOMAIN s : s[k].by = p
      PROVE  /\ OwnVerdict(p) # "unbestimmt"
             /\ OwnVerdict(p) = "stabil" => analysis[p].mapping # "pro_verbindung"
             /\ FirstTwo(s, p) /\ analysis[p].mapping = Mapping(s)
  <2>1. \A k \in Nat : k < ProbeCount(p) => k \in seen[p]
    <3>1. Awaits(p)
      BY DEF Awaits
    <3>. QED
      BY <1>2, <1>9, <3>1 DEF CountInv, Awaited
  <2>2. PICK n \in Nat :
          /\ n > 1 /\ n < ProbeCount(p) /\ 1 < ProbeCount(p)
          /\ Probe(p, 0).local = Port(p, 0) /\ Probe(p, 0).dest = 1
          /\ Probe(p, n).local = Port(p, 0) /\ Probe(p, n).dest = 1
    BY <1>1, EnoughProbes
  <2>3. 0 \in seen[p] /\ 1 \in seen[p] /\ n \in seen[p] /\ n # 0
    BY <1>2, <2>1, <2>2
  <2>4. OwnVerdict(p) # "unbestimmt"
    BY <1>5, <2>2, <2>3, OwnIs
  <2>5. FirstTwo(s, p)
    BY <1>3, <1>9, <2>3 DEF FirstTwo
  <2>6. analysis[p].mapping = Mapping(s)
    <3>1. PICK i, j \in DOMAIN s : s[i].num = 0 /\ s[j].num = 1
      BY <2>5 DEF FirstTwo
    <3>2. i # j
      BY <3>1
    <3>. QED
      BY <1>6, <3>2
  <2>7. ASSUME analysis[p].mapping = "pro_verbindung" PROVE OwnVerdict(p) = "pro_verbindung"
    <3>1. Redrawn(s)
      BY <1>4, <2>6, <2>7, MappingIs
    <3>2. PICK i, j \in DOMAIN s :
            s[i].local = s[j].local /\ s[i].dest = s[j].dest /\ s[i].nat # s[j].nat
      BY <3>1 DEF Redrawn
    <3>3. ASSUME NEW k \in DOMAIN s PROVE s[k].num \in seen[p]
      <4>1. s[k].num \in Nat /\ s[k].by = p
        BY <1>1, <1>9, OwnNote
      <4>2. s[k].num < begun[s[k].by]
        BY DEF CountInv, Numbered, s
      <4>. QED
        BY <1>2, <2>1, <4>1, <4>2
    <3>4. ASSUME NEW k \in DOMAIN s
          PROVE  /\ s[k].nat = Probe(p, s[k].num).nat /\ s[k].local = Probe(p, s[k].num).local
                 /\ s[k].dest = Probe(p, s[k].num).dest
      BY <1>1, <1>9, OwnNote
    <3>5. Differ(p, s[i].num, s[j].num)
      BY <3>2, <3>4 DEF Differ
    <3>. QED
      BY <1>5, <3>3, <3>5, OwnIs
  <2>. QED
    BY <2>4, <2>5, <2>6, <2>7
<1>. QED
  BY <1>8, <1>9 DEF s

\* The client and the relay judge one NAT each from what it has seen of the probes, and do not
\* contradict each other; if no probe failed, each pair of a port and a destination was probed
\* twice, and a NAT that adds a constant, or one for each destination, is known for what it is
\* (relay.rs:135-142, 204-216, nat_analyzer.py:222-269).
THEOREM VerdictsDoAgree == Spec => []VerdictsAgree
<1>1. LossInv /\ TellInv /\ CountInv => VerdictsAgree
  <2>. SUFFICES ASSUME LossInv, TellInv, CountInv, NEW p \in Peers, Undivided(p),
                       NeedsProbing(p), Of(p).bound, ~setup.shared
                PROVE  /\ OwnVerdict(p) = "pro_verbindung" =>
                            analysis[p].mapping = "pro_verbindung"
                       /\ faults = 0 /\ (\A k \in DOMAIN taken[p] : taken[p][k].by = p) =>
                            /\ OwnVerdict(p) # "unbestimmt"
                            /\ OwnVerdict(p) = "stabil" =>
                                 analysis[p].mapping # "pro_verbindung"
                            /\ Of(p).nat.kind = "offset" =>
                                 analysis[p].mapping = "endpunktunabhaengig"
                            /\ Of(p).nat.kind = "per_destination" =>
                                 analysis[p].mapping = "portabhaengig"
                            /\ setup.conns = 1 => analysis[p].mapping # "unbestimmt"
    BY DEF VerdictsAgree
  <2>. DEFINE s == taken[p]
  <2>1. setup \in Setups /\ s \in Seq(Notes)
    BY DEF TellInv, TypeOK, NotesKept
  <2>2. /\ OwnVerdict(p) = "pro_verbindung" => analysis[p].mapping = "pro_verbindung"
        /\ faults = 0 /\ (\A k \in DOMAIN s : s[k].by = p) =>
             /\ OwnVerdict(p) # "unbestimmt"
             /\ OwnVerdict(p) = "stabil" => analysis[p].mapping # "pro_verbindung"
             /\ FirstTwo(s, p) /\ analysis[p].mapping = Mapping(s)
    BY SameVerdict
  <2>. HIDE DEF s
  <2>3. FirstTwo(s, p) =>
          /\ Of(p).nat.kind = "offset" => Mapping(s) = "endpunktunabhaengig"
          /\ Of(p).nat.kind = "per_destination" => Mapping(s) = "portabhaengig"
          /\ setup.conns = 1 => Mapping(s) # "unbestimmt"
    BY <2>1, OffsetKnown, DestinationKnown, OneSocketKnown
  <2>. QED
    BY <2>2, <2>3 DEF s
<1>. QED
  BY LossInvHolds, TellInvHolds, CountInvHolds, <1>1, PTL
=============================================================================
