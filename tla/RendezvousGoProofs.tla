-------------------------- MODULE RendezvousGoProofs --------------------------
(***************************************************************************)
(* Proof that a GO goes out only while both clients wait for it, for any   *)
(* number of connections and attempts, any failed punches and binds, as    *)
(* long as no connection is lost, no limit passes early and no client      *)
(* leaves a granted retry without a port (Calm).                           *)
(*                                                                         *)
(* A READY can outlive the wait it was said for: the client's limit passes *)
(* when the relay has given the connection up.  The proof shows that by    *)
(* then its peer has gone on, or asks for a retry (Gone): it cannot say    *)
(* READY again before a grant clears both.  That rests on who is waiting   *)
(* for what when nothing moves (Quiet): a client that waits for peer_info  *)
(* while its peer has had one is still owed one (Owed), and two clients    *)
(* that were told of a connection have a task that leads them (Arranged).  *)
(***************************************************************************)
EXTENDS RendezvousProofs, FiniteSetTheorems

USE DEF peers, retries, retryTasks, tasks, server, progress, portVars, infoVars,
        bounds, melden, client, link

Calm == cut = {} /\ early = 0 /\ unfilled = {}

Probes == {"probes_complete"}
Ready == {"ready"}
Go == {"go"}

\* The lines of these types; whether one is about connection n.
Of(s, T) == {x \in Lines(s) : x.type \in T}
Brings(s, T, n) == \E x \in Of(s, T) : x.conn = n

At(p, n) == cPc[p] = "go" /\ conn[p] = n

\* The client asks for a retry, or is about to, and has not been granted one.
Asking(p) == cPc[p] = "failed" \/ (cPc[p] = "retry" /\ Free(toClient[p], Grant))

\* It does not wait for GO there again, unless it is granted a retry it asks for.
Gone(p, n) == n < conn[p] \/ (n = conn[p] /\ Asking(p))
Past(p, n) == Gone(p, n) \/ (n = conn[p] /\ cPc[p] = "punch")

\* The relay has READY, or will have read it.
Heard(p, n) == n \in ready[p] \/ Brings(toServer[p], Ready, n)

\* A READY is of a client that waits for GO - or is left from a wait that has ended, and
\* then the peer has not said READY, nor will it.
ReadyInv(p) ==
  /\ Sole(toServer[p], Ready)
  /\ \A x \in Of(toServer[p], Ready) :
       At(p, x.conn) /\ x.conn \notin ready[p] /\ Free(toClient[p], Go)
  /\ \A n \in ready[p] :
       \/ At(p, n) /\ Free(toClient[p], Go)
       \/ Gone(p, n) /\ Gone(Other(p), n) /\ n \notin ready[Other(p)]

\* A GO finds the client waiting; one that waits has said READY or has its GO; its peer
\* has had a GO, too, or is past waiting for it.
GoInv(p) ==
  /\ Sole(toClient[p], Go)
  /\ \A x \in Of(toClient[p], Go) : At(p, x.conn)
  /\ cPc[p] = "go" => Heard(p, conn[p]) \/ ~Free(toClient[p], Go)
  /\ cPc[p] = "punch" \/ ~Free(toClient[p], Go) =>
       \/ Past(Other(p), conn[p])
       \/ conn[Other(p)] = conn[p] /\ ~Free(toClient[Other(p)], Go)

\* Before and between the connections, and while it waits for peer_info.
Wanting(p) == cPc[p] \in {"registered", "first", "extra", "head", "ack", "peerinfo"}

\* The client has the peer's port for the connection it is at, or it is under way.
HasInfo(p) ==
  Brings(toClient[p], Info, conn[p]) \/ (conn[p] = 0 /\ saved[p] # NoPort)

\* The second coordinator will begin with the first connection.
Coming(p) ==
  /\ conn[p] = 0
  /\ \/ cPc[p] = "registered" \/ ~Free(toServer[p], Probes)
     \/ \E k \in Coordinators :
          coPc[k] = "start" \/ (coPc[k] = "port" /\ coConn[k] = 0)

Retried(n) == n \in granted \/ (n \in Conns /\ retryNew[n] > 0)
Owed(p) == HasInfo(p) \/ Retried(conn[p]) \/ Coming(p)

Engaged(p) == cPc[p] \in {"ready", "go", "punch"}
Led(p, q) == conn[q] = conn[p] /\ (Engaged(q) \/ HasInfo(q))
OwedInv(p) == Wanting(p) /\ Led(p, Other(p)) => Owed(p)

\* Between peer_info and GO.
Served(p) ==
  \/ Wanting(p) /\ HasInfo(p)
  \/ cPc[p] = "ready"
  \/ cPc[p] = "go" /\ Free(toClient[p], Go)

\* A task leads the clients to a GO for connection n, or will be started.
Arranged(n) ==
  \/ \E k \in Coordinators : coPc[k] = "ready" /\ coConn[k] = n
  \/ n \in Conns /\ retryWait[n] > 0
  \/ Retried(n)

ServedInv(p) ==
  Served(p) /\ Served(Other(p)) /\ conn[Other(p)] = conn[p] => Arranged(conn[p])

\* The first coordinator is started when both have been probed; before it, nobody is led.
Probed(p) == cPc[p] \notin {"register", "registered"} /\ Free(toServer[p], Probes)
Begun == \E k \in Coordinators : coPc[k] # "unused"
Fresh(p) ==
  /\ cPc[p] \in Early \cup {"register"} /\ (cPc[p] = "ack" => after[p] = "head")
  /\ saved[p] = NoPort
  /\ Free(toClient[p], Info) /\ Free(toClient[p], Replies) /\ Free(toServer[p], Request)
Unbegun ==
  /\ granted = {} /\ \A n \in Conns : retryNew[n] = 0
  /\ \A p \in Roles : Fresh(p)

StartInv ==
  /\ \A p \in Roles : Probed(p) => p \in probed
  /\ Begun => probed = Roles
  /\ (\A p \in Roles : Probed(p)) => Begun
  /\ Begun \/ Unbegun
  /\ \A k \in Coordinators : coPc[k] \in {"unused", "start"} => coConn[k] = 0

\* What each place a client can be at tells of it.
PlaceInv(p) ==
  /\ cPc[p] \notin {"ok", "err"}
  /\ cPc[p] \in {"register", "registered", "first", "extra"} => conn[p] = 0
  /\ cPc[p] = "registered" => Unheard(p) \/ toClient[p] # <<>>
  /\ saved[p] # NoPort /\ conn[p] = 0 =>
       cPc[p] = "head" \/ (cPc[p] = "ack" /\ after[p] = "head")
  /\ Engaged(p) => Reached(conn[p])
  /\ cPc[p] = "ack" => ~Free(toServer[p], Added) \/ ~Free(toClient[p], Ack)
  /\ \A x \in Of(toClient[p], Ack) : x.ports = reported[p]
  /\ sockets[p] # <<>>

CalmInv ==
  /\ StartInv
  /\ \A n \in granted : mapped[n] # Roles
  /\ \A p \in Roles : PlaceInv(p) /\ ReadyInv(p) /\ GoInv(p) /\ OwedInv(p) /\ ServedInv(p)

LeadInv == PortInv /\ Inv /\ (Calm => CalmInv)

\* The invariant where the property speaks.
Leading == PortInv /\ Inv /\ Calm /\ CalmInv

(***************************************************************************)
(* The lines of a kind.                                                    *)
(***************************************************************************)

LEMMA OfFree == \A s, T : Free(s, T) <=> Of(s, T) = {}
BY DEF Free, Of

LEMMA OfAppend ==
  ASSUME NEW s \in Seq(Msg), NEW m \in Msg, NEW T
  PROVE  /\ m.type \notin T => Of(Append(s, m), T) = Of(s, T)
         /\ m.type \in T => Of(Append(s, m), T) = Of(s, T) \cup {m}
         /\ Sole(s, T) /\ (Of(s, T) = {} \/ m.type \notin T) => Sole(Append(s, m), T)
<1>1. /\ Lines(Append(s, m)) = Lines(s) \cup {m}
      /\ Sole(s, T) /\ (Free(s, T) \/ m.type \notin T) => Sole(Append(s, m), T)
  BY AppendChannel
<1>. QED
  BY <1>1, OfFree DEF Of

LEMMA OfTail ==
  ASSUME NEW s \in Seq(Msg), s # <<>>, NEW T
  PROVE  /\ Head(s).type \notin T => Of(Tail(s), T) = Of(s, T)
         /\ Head(s).type \in T /\ Sole(s, T) =>
              Of(s, T) = {Head(s)} /\ Of(Tail(s), T) = {}
         /\ Sole(s, T) => Sole(Tail(s), T)
<1>. DEFINE r == Tail(s)
<1>1. /\ Len(s) \in Nat \ {0} /\ DOMAIN s = 1 .. Len(s)
      /\ DOMAIN r = 1 .. Len(r) /\ Len(r) = Len(s) - 1
      /\ \A i \in 1 .. Len(r) : r[i] = s[i + 1]
      /\ Head(s) = s[1]
  BY EmptySeq, LenProperties, HeadTailProperties
<1>2. /\ Lines(r) \subseteq Lines(s) /\ Head(s) \in Lines(s)
      /\ Sole(s, T) => Sole(r, T)
      /\ Sole(s, T) /\ Head(s).type \in T => Free(r, T)
  BY TailChannel
<1>. HIDE DEF r
<1>3. Lines(s) = Lines(r) \cup {Head(s)}
  <2>1. ASSUME NEW i \in DOMAIN s PROVE s[i] \in Lines(r) \cup {Head(s)}
    <3>1. i = 1 \/ (i - 1 \in DOMAIN r /\ r[i - 1] = s[i])
      BY <1>1
    <3>. QED
      BY <1>1, <3>1 DEF Lines
  <2>2. \A x \in Lines(s) : x \in Lines(r) \cup {Head(s)}
    BY <2>1 DEF Lines
  <2>. QED
    BY <1>2, <2>2
<1>. QED
  BY <1>2, <1>3, OfFree DEF Of, r

LEMMA OfWithout ==
  ASSUME NEW s \in Seq(Msg), NEW i \in DOMAIN s, NEW T, s[i].type \notin T
  PROVE  Of(Without(s, i), T) = Of(s, T)
<1>. DEFINE a == SubSeq(s, 1, i - 1)
            b == SubSeq(s, i + 1, Len(s))
            r == a \o b
<1>1. Len(s) \in Nat /\ DOMAIN s = 1 .. Len(s) /\ i \in 1 .. Len(s)
  BY LenProperties
<1>2. \A k \in 1 .. Len(s) : s[k] \in Msg
  BY <1>1, ElementOfSeq
<1>3. /\ a \in Seq(Msg) /\ Len(a) = i - 1 /\ \A k \in 1 .. i - 1 : a[k] = s[k]
  <2>1. \A k \in 1 .. i - 1 : s[k] \in Msg
    BY <1>1, <1>2
  <2>. QED
    BY <1>1, <2>1, SubSeqProperties
<1>4. /\ b \in Seq(Msg) /\ Len(b) = Len(s) - i
      /\ \A k \in 1 .. Len(s) - i : b[k] = s[i + k]
  <2>1. \A k \in i + 1 .. Len(s) : s[k] \in Msg
    BY <1>1, <1>2
  <2>2. /\ b \in Seq(Msg) /\ Len(b) = (IF i + 1 <= Len(s) THEN Len(s) - (i + 1) + 1 ELSE 0)
        /\ \A k \in 1 .. Len(s) - (i + 1) + 1 : b[k] = s[i + 1 + k - 1]
    BY <1>1, <2>1, SubSeqProperties
  <2>. HIDE DEF b
  <2>3. Len(b) = Len(s) - i
    BY <1>1, <2>2
  <2>4. ASSUME NEW k \in 1 .. Len(s) - i PROVE b[k] = s[i + k]
    <3>1. k \in 1 .. Len(s) - (i + 1) + 1 /\ i + 1 + k - 1 = i + k
      BY <1>1
    <3>. QED
      BY <2>2, <3>1
  <2>. QED
    BY <2>2, <2>3, <2>4
<1>. HIDE DEF a, b
<1>5. /\ r \in Seq(Msg) /\ Len(r) = Len(s) - 1
      /\ \A j \in 1 .. Len(s) - 1 : r[j] = IF j <= i - 1 THEN a[j] ELSE b[j - (i - 1)]
  <2>1. /\ r \in Seq(Msg) /\ Len(r) = Len(a) + Len(b)
        /\ \A j \in 1 .. Len(a) + Len(b) :
             r[j] = IF j <= Len(a) THEN a[j] ELSE b[j - Len(a)]
    BY <1>3, <1>4, ConcatProperties
  <2>2. Len(a) + Len(b) = Len(s) - 1
    BY <1>1, <1>3, <1>4
  <2>. QED
    BY <1>3, <2>1, <2>2
<1>6. DOMAIN r = 1 .. Len(s) - 1
  BY <1>5, LenProperties
<1>7. Lines(r) \subseteq Lines(s)
  BY WithoutLine DEF r, a, b
<1>. HIDE DEF r
<1>8. ASSUME NEW j \in DOMAIN s, j # i PROVE s[j] \in Lines(r)
  <2>1. CASE j < i
    <3>1. j \in 1 .. Len(s) - 1 /\ j <= i - 1 /\ j \in 1 .. i - 1
      BY <1>1, <2>1
    <3>2. r[j] = s[j]
      BY <1>3, <1>5, <3>1
    <3>. QED
      BY <1>6, <3>1, <3>2 DEF Lines
  <2>2. CASE j > i
    <3>1. /\ j - 1 \in 1 .. Len(s) - 1 /\ ~(j - 1 <= i - 1)
          /\ j - 1 - (i - 1) \in 1 .. Len(s) - i /\ i + (j - 1 - (i - 1)) = j
      BY <1>1, <2>2
    <3>2. r[j - 1] = s[j]
      BY <1>4, <1>5, <3>1
    <3>. QED
      BY <1>6, <3>1, <3>2 DEF Lines
  <2>. QED
    BY <1>1, <1>8, <2>1, <2>2
<1>9. \A x \in Lines(s) : x.type \in T => x \in Lines(r)
  BY <1>8 DEF Lines
<1>10. Of(r, T) = Of(s, T)
  BY <1>7, <1>9 DEF Of
<1>. QED
  BY <1>10 DEF r, a, b, Without

\* What a reader looks for and does not find is not there.
LEMMA NoPlace ==
  ASSUME NEW p \in Roles, NEW t, NEW n, Places(p, t, n) = {}
  PROVE  ~Brings(toClient[p], {t}, n)
BY DEF Places, Brings, Of, Lines

(***************************************************************************)
(* Where the session stands, and what it means that nothing moves.         *)
(***************************************************************************)

LEMMA CalmFacts ==
  ASSUME Leading
  PROVE  /\ Shape /\ TypeOK /\ Begin /\ ResultsTrue /\ ServedInTurn
         /\ cut = {} /\ early = 0 /\ unfilled = {}
         /\ StartInv /\ \A n \in granted : mapped[n] # Roles
         /\ \A p \in Roles :
              /\ PlaceInv(p) /\ ReadyInv(p) /\ GoInv(p) /\ OwedInv(p) /\ ServedInv(p)
              /\ p \in serving /\ ~lost[p]
              /\ p \in member => Regular(p) /\ InStep(p) /\ ~Unheard(p) /\ cPc[p] # "register"
              /\ p \notin member => Unheard(p) /\ NotHeard(p) /\ NoTasks
              /\ member = Roles => Retrying(p)
         /\ member # Roles => granted = {} /\ timer = {}
<1>1. /\ Shape /\ TypeOK /\ Begin /\ ResultsTrue /\ ServedInTurn
      /\ cut = {} /\ early = 0 /\ unfilled = {}
      /\ StartInv /\ \A n \in granted : mapped[n] # Roles
      /\ member \subseteq Roles
  BY DEF Leading, PortInv, Shape, Inv, Honest, Calm, CalmInv, TypeOK, ServerTypeOK
<1>2. member # Roles => granted = {} /\ timer = {}
  BY <1>1 DEF Begin
<1>3. ASSUME NEW p \in Roles
      PROVE  /\ PlaceInv(p) /\ ReadyInv(p) /\ GoInv(p) /\ OwedInv(p) /\ ServedInv(p)
             /\ p \in serving /\ ~lost[p]
             /\ p \in member => Regular(p) /\ InStep(p) /\ ~Unheard(p) /\ cPc[p] # "register"
             /\ p \notin member => Unheard(p) /\ NotHeard(p) /\ NoTasks
             /\ member = Roles => Retrying(p)
  <2>1. PlaceInv(p) /\ ReadyInv(p) /\ GoInv(p) /\ OwedInv(p) /\ ServedInv(p)
    BY DEF Leading, CalmInv
  <2>2. BeginOf(p)
    BY <1>1 DEF Begin
  <2>3. p \in serving /\ ~lost[p]
    BY <1>1, <2>2 DEF BeginOf
  <2>4. p \in member => Regular(p) /\ InStep(p)
    BY <1>1 DEF Leading, PortInv, Regular
  <2>5. p \in member => ~Unheard(p) /\ cPc[p] # "register"
    BY <1>1, <2>4, RegularFacts
  <2>6. p \notin member => Unheard(p) /\ NotHeard(p) /\ NoTasks
    BY <1>1, <2>2 DEF BeginOf
  <2>7. member = Roles => Retrying(p)
    BY <2>4 DEF InStep
  <2>. QED
    BY <2>1, <2>3, <2>4, <2>5, <2>6, <2>7
<1>. QED
  BY <1>1, <1>2, <1>3

\* Nothing begins before both are in the session.
LEMMA BegunFacts ==
  ASSUME Leading
  PROVE  /\ Begun => member = Roles
         /\ ~Unbegun => Begun
         /\ \A p \in Roles : cPc[p] \notin Early \cup {"register"} => Begun
         /\ \A n \in granted : Begun
<1>1. Begun => member = Roles
  <2>1. SUFFICES ASSUME Begun, member # Roles PROVE FALSE
    OBVIOUS
  <2>2. member \subseteq Roles
    BY CalmFacts DEF TypeOK, ServerTypeOK
  <2>3. PICK q \in Roles : q \notin member
    BY <2>1, <2>2
  <2>4. NoTasks
    BY <2>3, CalmFacts
  <2>. QED
    BY <2>1, <2>4 DEF Begun, NoTasks
<1>2. ~Unbegun => Begun
  BY CalmFacts DEF StartInv
<1>3. Unbegun => granted = {} /\ \A p \in Roles : cPc[p] \in Early \cup {"register"}
  BY DEF Unbegun, Fresh
<1>. QED
  BY <1>1, <1>2, <1>3

LEMMA QuietFacts ==
  ASSUME Leading, Quiet
  PROVE  /\ member = Roles /\ Begun /\ granted = {} /\ \A n \in Conns : retryNew[n] = 0
         /\ \A p \in Roles :
              /\ toServer[p] = <<>>
              /\ cPc[p] \in {"first", "peerinfo", "go", "retry", "punch"}
              /\ cPc[p] \in {"first", "peerinfo"} => ~HasInfo(p)
              /\ cPc[p] = "go" => Free(toClient[p], Go) /\ conn[p] \in ready[p]
              /\ cPc[p] = "retry" => Free(toClient[p], Grant)
              /\ ~Coming(p)
<1>1. \A p \in Roles : ~Unheard(p)
  BY NotQuiet, CalmFacts
<1>2. member = Roles
  <2>1. member \subseteq Roles
    BY CalmFacts DEF TypeOK, ServerTypeOK
  <2>. QED
    BY <1>1, <2>1, CalmFacts
<1>3. \A n \in Conns : retryNew[n] = 0
  BY DEF Quiet, ServerWaits, RetryWaits
<1>4. ASSUME NEW p \in Roles
      PROVE  /\ toServer[p] = <<>>
             /\ \A T : Free(toServer[p], T)
             /\ cPc[p] \in {"first", "peerinfo", "go", "retry", "punch"}
             /\ cPc[p] \in {"first", "peerinfo"} => ~HasInfo(p)
             /\ cPc[p] = "go" => Free(toClient[p], Go) /\ conn[p] \in ready[p]
             /\ cPc[p] = "retry" => Free(toClient[p], Grant)
  <2>1. /\ PlaceInv(p) /\ GoInv(p) /\ Retrying(p) /\ ~Unheard(p) /\ p \in serving
        /\ ClientWaits(p)
    BY <1>2, CalmFacts DEF Quiet
  <2>2. toServer[p] = <<>> /\ \A T : Free(toServer[p], T)
    BY <2>1, NoneFree DEF Quiet, ServerWaits
  <2>3. cPc[p] \notin {"ok", "err"}
    BY <2>1 DEF PlaceInv
  <2>4. cPc[p] # "ack"
    <3>1. SUFFICES ASSUME cPc[p] = "ack" PROVE FALSE
      OBVIOUS
    <3>2. Acks(p) = {}
      BY <2>1, <3>1 DEF ClientWaits
    <3>3. ~Free(toClient[p], Ack)
      BY <2>1, <2>2, <3>1 DEF PlaceInv
    <3>. QED
      BY <3>2, <3>3 DEF Acks, Free, Lines, Ack
  <2>5. cPc[p] # "registered"
    BY <2>1 DEF ClientWaits, PlaceInv
  <2>6. cPc[p] \in {"first", "peerinfo", "go", "retry", "punch"}
    BY <2>1, <2>3, <2>4, <2>5 DEF ClientWaits
  <2>7. ASSUME cPc[p] \in {"first", "peerinfo"} PROVE ~HasInfo(p)
    <3>1. Places(p, "peer_info", conn[p]) = {}
      BY <2>1, <2>7 DEF ClientWaits
    <3>2. ~Brings(toClient[p], Info, conn[p])
      BY <3>1, NoPlace DEF Info
    <3>. QED
      BY <2>1, <2>7, <3>2 DEF HasInfo, PlaceInv
  <2>8. ASSUME cPc[p] = "go" PROVE Free(toClient[p], Go) /\ conn[p] \in ready[p]
    <3>1. Places(p, "go", conn[p]) = {}
      BY <2>1, <2>8 DEF ClientWaits
    <3>2. ~Brings(toClient[p], Go, conn[p])
      BY <3>1, NoPlace DEF Go
    <3>3. Of(toClient[p], Go) = {}
      BY <2>1, <3>2 DEF GoInv, At, Brings
    <3>4. Free(toClient[p], Go)
      BY <3>3, OfFree
    <3>5. Of(toServer[p], Ready) = {}
      BY <2>2, OfFree
    <3>. QED
      BY <2>1, <2>8, <3>4, <3>5 DEF GoInv, Heard, Brings
  <2>9. ASSUME cPc[p] = "retry" PROVE Free(toClient[p], Grant)
    <3>1. Places(p, "retry_granted", conn[p]) = {}
      BY <2>1, <2>9 DEF ClientWaits
    <3>2. ~Brings(toClient[p], Grant, conn[p])
      BY <3>1, NoPlace DEF Grant
    <3>. QED
      BY <2>1, <3>2 DEF Retrying, Brings, Of, Free, Grant, Replies
  <2>. QED
    BY <2>2, <2>6, <2>7, <2>8, <2>9
<1>5. Begun
  BY <1>4, CalmFacts DEF StartInv, Probed
<1>6. granted = {}
  <2>1. SUFFICES ASSUME NEW n \in granted PROVE FALSE
    OBVIOUS
  <2>2. mapped[n] # Roles /\ mapped[n] \subseteq Roles
    BY CalmFacts DEF TypeOK, ServerTypeOK
  <2>3. PICK r \in Roles : r \notin mapped[n]
    BY <2>2
  <2>4. n \in Open(r) /\ Awaited(r) /\ Retrying(r)
    BY <1>2, <2>3, CalmFacts DEF Open, InStep
  <2>5. ~Free(toClient[r], Grant)
    BY <1>4, <2>4 DEF Awaited, Rebinding
  <2>6. cPc[r] = "retry"
    BY <2>4, <2>5, FreeSub DEF Retrying
  <2>. QED
    BY <1>4, <2>5, <2>6
<1>7. \A p \in Roles : bound[p] = Named(sockets[p]) /\ 0 < Len(bound[p])
  <2>1. SUFFICES ASSUME NEW p \in Roles PROVE bound[p] = Named(sockets[p]) /\ 0 < Len(bound[p])
    OBVIOUS
  <2>2. bound[p] = Named(sockets[p]) /\ sockets[p] # <<>>
    BY <1>2, <1>4, CalmFacts DEF InStep, OnRecord, PlaceInv
  <2>3. sockets[p] \in Seq(Nat)
    BY CalmFacts DEF TypeOK, ClientTypeOK
  <2>4. Len(bound[p]) = Len(sockets[p])
    BY <2>2, <2>3, NamedFacts
  <2>. QED
    BY <2>2, <2>3, <2>4, EmptySeq, LenProperties
<1>8. ASSUME NEW p \in Roles PROVE ~Coming(p)
  <2>1. cPc[p] # "registered" /\ Free(toServer[p], Probes)
    BY <1>4
  <2>2. \A k \in Coordinators : coPc[k] # "start" /\ ~(coPc[k] = "port" /\ coConn[k] = 0)
    BY <1>7 DEF Quiet, ServerWaits, CoordinatorWaits, BothPorts
  <2>. QED
    BY <2>1, <2>2 DEF Coming
<1>. QED
  BY <1>2, <1>3, <1>4, <1>5, <1>6, <1>8

\* Where nothing moves, the two clients are not both on the way to a GO.
LEMMA QuietServed ==
  ASSUME Leading, Quiet, NEW p \in Roles, Served(p), Served(Other(p)), conn[Other(p)] = conn[p]
  PROVE  FALSE
<1>. DEFINE q == Other(p)
            n == conn[p]
<1>1. q \in Roles /\ \A r \in Roles : r = p \/ r = q
  BY ConstantFacts
<1>2. Arranged(n)
  BY CalmFacts DEF ServedInv
<1>3. \A r \in Roles : Served(r) => cPc[r] = "go" /\ conn[r] \in ready[r]
  BY QuietFacts DEF Served, Wanting
<1>4. BothReady(n)
  BY <1>1, <1>3 DEF BothReady
<1>. HIDE DEF n, q
<1>5. ~\E k \in Coordinators : coPc[k] = "ready" /\ coConn[k] = n
  BY <1>4 DEF Quiet, ServerWaits, CoordinatorWaits
<1>6. ~(n \in Conns /\ retryWait[n] > 0)
  BY <1>4 DEF Quiet, ServerWaits, RetryWaits
<1>7. ~Retried(n)
  BY QuietFacts DEF Retried
<1>. QED
  BY <1>2, <1>5, <1>6, <1>7 DEF Arranged

\* A client that waits for GO where nothing moves waits in vain: its peer has gone on, or
\* asks for a retry.
LEMMA QuietGone ==
  ASSUME Leading, Quiet, NEW p \in Roles, NEW n, At(p, n)
  PROVE  Gone(Other(p), n) /\ n \notin ready[Other(p)]
<1>. DEFINE q == Other(p)
<1>1. q \in Roles /\ Other(q) = p
  BY ConstantFacts
<1>2. /\ PlaceInv(p) /\ GoInv(q) /\ ReadyInv(q) /\ OwedInv(q) /\ TypeOK
  BY <1>1, CalmFacts
<1>3. /\ cPc[p] = "go" /\ conn[p] = n /\ Free(toClient[p], Go) /\ n \in ready[p]
      /\ conn[q] \in Int /\ n \in Int
  BY <1>1, <1>2, QuietFacts, ConnLines DEF At
<1>4. n <= conn[q]
  BY <1>1, <1>2, <1>3 DEF PlaceInv, Engaged, Reached
<1>5. cPc[q] \in {"first", "peerinfo", "go", "retry", "punch"}
  BY <1>1, QuietFacts
<1>6. ~Past(p, n)
  BY <1>3 DEF Past, Gone, Asking
<1>7. ~(n = conn[q] /\ cPc[q] # "retry")
  <2>1. SUFFICES ASSUME n = conn[q], cPc[q] # "retry" PROVE FALSE
    OBVIOUS
  <2>2. cPc[q] \notin {"first", "peerinfo"}
    <3>1. SUFFICES ASSUME cPc[q] \in {"first", "peerinfo"} PROVE FALSE
      OBVIOUS
    <3>2. Wanting(q) /\ Led(q, p)
      BY <1>3, <2>1, <3>1 DEF Wanting, Led, Engaged
    <3>3. Owed(q)
      BY <1>1, <1>2, <3>2 DEF OwedInv
    <3>4. ~HasInfo(q) /\ ~Coming(q) /\ ~Retried(conn[q])
      BY <1>1, <3>1, QuietFacts DEF Retried
    <3>. QED
      BY <3>3, <3>4 DEF Owed
  <2>3. cPc[q] # "go"
    <3>1. SUFFICES ASSUME cPc[q] = "go" PROVE FALSE
      OBVIOUS
    <3>2. Served(p) /\ Served(q)
      BY <1>1, <1>3, <3>1, QuietFacts DEF Served
    <3>. QED
      BY <1>3, <2>1, <3>2, QuietServed
  <2>4. cPc[q] # "punch"
    BY <1>1, <1>2, <1>3, <1>6, <2>1 DEF GoInv
  <2>. QED
    BY <1>5, <2>1, <2>2, <2>3, <2>4
<1>8. Gone(q, n)
  <2>1. CASE n = conn[q]
    <3>1. cPc[q] = "retry" /\ Free(toClient[q], Grant)
      BY <1>1, <1>7, <2>1, QuietFacts
    <3>. QED
      BY <2>1, <3>1 DEF Gone, Asking
  <2>2. CASE n # conn[q]
    BY <1>3, <1>4, <2>2 DEF Gone
  <2>. QED
    BY <2>1, <2>2
<1>9. n \notin ready[q]
  BY <1>1, <1>2, <1>3, <1>7 DEF ReadyInv, At
<1>. QED
  BY <1>8, <1>9

(***************************************************************************)
(* The steps of a calm session.                                            *)
(***************************************************************************)

LEMMA CalmSteps ==
  ASSUME Leading, [Next]_vars, Calm'
  PROVE  \/ \E p \in Roles : CStep(p) /\ Orderly(p) /\ UNCHANGED server
         \/ SStep /\ (Server \/ Quiet) /\ UNCHANGED client
         \/ UNCHANGED <<server, client, link>>
<1>1. TypeOK /\ early' = 0 /\ cut' = {} /\ early \in Nat
  BY CalmFacts DEF Calm, TypeOK
<1>2. CASE Over \/ UNCHANGED vars
  BY <1>2 DEF Over, vars
<1>3. CASE \E p \in Roles : ClientStep(p)
  BY <1>3 DEF ClientStep, CStep, Orderly
<1>4. CASE \E p \in Roles : Drop(p)
  BY <1>1, <1>4 DEF Drop
<1>5. CASE ServerStep
  BY <1>5 DEF ServerStep, SStep
<1>6. CASE LimitPasses
  <2>1. Quiet /\ \/ ServerLimit /\ UNCHANGED client
                 \/ \E p \in Roles : ~RelayFirst(p) /\ ClientLimit(p) /\ UNCHANGED server
    BY <1>1, <1>6 DEF LimitPasses
  <2>. QED
    BY <2>1 DEF SStep, CStep, Orderly
<1>. QED
  BY <1>2, <1>3, <1>4, <1>5, <1>6 DEF Next

(***************************************************************************)
(* The steps of a client, each by what it does to what matters here.       *)
(***************************************************************************)

LEMMA LeadSends ==
  ASSUME NEW p \in Roles, CStep(p)
  PROVE  \/ toServer' = toServer
         \/ \E m : Send(p, m) /\ (m.type \in Ready => CReady(p))
<1>. USE DEF Ready, OfConn, OfPorts, Bare
<1>1. CASE CRegister(p)
  BY <1>1 DEF CRegister
<1>2. CASE CRegistered(p)
  BY <1>2 DEF CRegistered
<1>3. CASE CExtra(p) \/ CBind(p) \/ CRetryGranted(p)
  <2>1. ASSUME NEW ports, NEW pc, Report(p, ports, pc)
        PROVE  Send(p, OfPorts("add_ports", ports)) /\ OfPorts("add_ports", ports).type \notin Ready
    BY <2>1 DEF Report
  <2>2. CASE CExtra(p)
    BY <2>1, <2>2 DEF CExtra
  <2>3. CASE CBind(p) \/ CRetryGranted(p)
    BY <2>1, <2>3 DEF CBind, CRetryGranted
  <2>. QED
    BY <1>3, <2>2, <2>3
<1>4. CASE CReady(p) \/ CRetryRequest(p) \/ CEstablished(p)
  BY <1>4 DEF CReady, CRetryRequest, CEstablished
<1>5. CASE CBindFail(p) \/ CRebindFail(p)
  BY <1>5 DEF CBindFail, CRebindFail, Abandon
<1>6. CASE CPunchFail(p) \/ CPunchAlone(p) \/ CRetryRejected(p) \/ CTimeout(p)
  <2>1. Fail(p)
    BY <1>6 DEF CPunchFail, CPunchAlone, CRetryRejected, CTimeout
  <2>. QED
    BY <2>1 DEF Fail, Abandon
<1>7. CASE \/ CRegisterFail(p) \/ CFirstPeerInfo(p) \/ CFirstFail(p) \/ CFinish(p)
           \/ CStart(p) \/ CPeerInfo(p) \/ CGo(p) \/ CWriteError(p) \/ CAck(p)
           \/ CAckError(p) \/ CNotice(p) \/ CTransportLost(p)
           \/ CFirstTimeout(p) \/ CAckTimeout(p)
  BY <1>7 DEF CRegisterFail, CFirstPeerInfo, CFirstFail, CFinish, CStart, CPeerInfo, CGo,
     CWriteError, CAck, CAckError, CAckTimeout, CAckMissing, CNotice, CTransportLost,
     CFirstTimeout
<1>. QED
  BY <1>1, <1>2, <1>3, <1>4, <1>5, <1>6, <1>7 DEF CStep, Client, Punched, ClientLimit

\* What a step writes, it adds to what the client had written.
LEMMA LeadLines ==
  ASSUME Shape, NEW p \in Roles, p \notin cut, CStep(p)
  PROVE  /\ Lines(toServer[p]) \subseteq Lines(toServer'[p])
         /\ ~CReady(p) => Of(toServer'[p], Ready) = Of(toServer[p], Ready)
<1>1. CASE toServer' = toServer
  BY <1>1
<1>2. CASE \E m : Send(p, m) /\ (m.type \in Ready => CReady(p))
  <2>1. PICK m : Send(p, m) /\ (m.type \in Ready => CReady(p))
    BY <1>2
  <2>2. Lines(toServer'[p]) = Lines(toServer[p]) \cup {m}
    BY <2>1, NewLine
  <2>. QED
    BY <2>1, <2>2 DEF Of
<1>. QED
  BY <1>1, <1>2, LeadSends

Stays(p) == conn'[p] = conn[p] /\ saved'[p] = saved[p]
AlsoTold(p, T) == Of(toClient'[p], T) = Of(toClient[p], T)

KRegister(p) ==
  /\ cPc[p] = "register" /\ cPc'[p] = "registered" /\ Stays(p) /\ sockets' = sockets
  /\ toClient[p] = <<>> /\ saved[p] = NoPort /\ Unheard(p)'
KRegistered(p) ==
  /\ cPc[p] = "registered" /\ cPc'[p] \in {"first", "extra"} /\ Stays(p)
  /\ sockets' = sockets /\ ~Free(toServer'[p], Probes)
KFirst(p) ==
  /\ cPc[p] = "first" /\ cPc'[p] = "head" /\ conn'[p] = conn[p] /\ saved'[p] # NoPort
  /\ sockets' = sockets /\ Brings(toClient[p], Info, conn[p])
KWander(p) ==
  /\ cPc[p] \in {"extra", "head", "ack"} /\ cPc'[p] \in {"head", "ack", "peerinfo"}
  /\ Stays(p) /\ AlsoTold(p, Info)
  /\ cPc'[p] = "ack" =>
       cPc[p] # "ack" /\ after'[p] = "head" /\ ~Free(toServer'[p], Added)
  /\ cPc[p] = "ack" => cPc'[p] = after[p] /\ after'[p] = after[p]
  /\ cPc'[p] = "peerinfo" => cPc[p] = "ack" \/ ~(conn[p] = 0 /\ saved[p] # NoPort)
KStart(p) ==
  /\ cPc[p] = "head" /\ cPc'[p] = "ready" /\ conn'[p] = conn[p] /\ conn[p] = 0
  /\ saved[p] # NoPort /\ saved'[p] = NoPort
KInfo(p) ==
  /\ cPc[p] = "peerinfo" /\ cPc'[p] = "ready" /\ Stays(p) /\ sockets' = sockets
  /\ Brings(toClient[p], Info, conn[p])
KReady(p) ==
  /\ CReady(p) /\ cPc[p] = "ready" /\ cPc'[p] = "go" /\ Stays(p) /\ toClient' = toClient
KGo(p) ==
  /\ cPc[p] = "go" /\ cPc'[p] = "punch" /\ Stays(p)
  /\ ~Free(toClient[p], Go) /\ Free(toClient'[p], Go)
\* The connection is given up, the attempt failed, or there is a stream.
KEnds(p) ==
  /\ cPc[p] \in {"head", "peerinfo", "go", "retry", "punch"} /\ saved'[p] = saved[p]
  /\ \/ cPc'[p] = "head" /\ conn'[p] = conn[p] + 1
     \/ cPc'[p] = "failed" /\ conn'[p] = conn[p] /\ cPc[p] # "head"
  /\ cPc[p] \in {"peerinfo", "go"} => Quiet
  /\ cPc[p] = "retry" => Free(toClient[p], Grant)
KAsk(p) ==
  /\ cPc[p] = "failed" /\ cPc'[p] = "retry" /\ Stays(p) /\ Free(toClient[p], Grant)
KGranted(p) ==
  /\ cPc[p] = "retry" /\ cPc'[p] = "ack" /\ after'[p] = "peerinfo" /\ Stays(p)
  /\ ~Free(toClient[p], Grant) /\ ~Free(toServer'[p], Added) /\ conn[p] \in granted

Kinds(p) ==
  \/ KRegister(p) \/ KRegistered(p) \/ KFirst(p) \/ KWander(p) \/ KStart(p) \/ KInfo(p)
  \/ KReady(p) \/ KGo(p) \/ KEnds(p) \/ KAsk(p) \/ KGranted(p)

LEMMA ReceivedBrings ==
  ASSUME LinkTypeOK, NEW p \in Roles, NEW t, Receive(p, t)
  PROVE  Brings(toClient[p], {t}, conn[p])
<1>1. /\ First(p, t) \in Lines(toClient[p])
      /\ First(p, t).type = t /\ First(p, t).conn = conn[p]
  BY ReceivedLine
<1>. QED
  BY <1>1 DEF Brings, Of

LEMMA FailKind ==
  ASSUME TypeOK, NEW p \in Roles, Fail(p)
  PROVE  \/ cPc'[p] = "head" /\ conn'[p] = conn[p] + 1
         \/ cPc'[p] = "failed" /\ conn'[p] = conn[p]
<1>1. cPc \in [Roles -> ClientPcs] /\ conn \in [Roles -> 0 .. NumConns]
  BY DEF TypeOK, ClientTypeOK
<1>. QED
  BY <1>1 DEF Fail, Abandon, Goto

LEMMA RegisterKind ==
  ASSUME Leading, NEW p \in Roles, p \notin member, CStep(p)
  PROVE  KRegister(p) /\ cPc'[p] = "registered" /\ toServer'[p] # toServer[p]
<1>1. Shape /\ Unheard(p) /\ NotHeard(p) /\ cut = {}
  BY CalmFacts
<1>2. /\ cPc \in [Roles -> ClientPcs] /\ conn \in [Roles -> 0 .. NumConns]
  BY <1>1 DEF Shape, TypeOK, ClientTypeOK
<1>3. /\ toClient'[p] = <<>> /\ saved'[p] = saved[p] /\ sockets' = sockets
      /\ cPc'[p] = "registered"
      /\ toServer'[p] = <<OfPorts("register", Named(sockets[p]))>>
  BY <1>1, NotHeardClient
<1>4. Unheard(p)'
  BY <1>1, <1>3, RegisterLine, OneLine DEF Unheard, Registration
<1>5. CRegister(p)
  <2>1. cPc[p] \in {"register", "registered"}
    BY <1>1 DEF NotHeard
  <2>2. ~CRegistered(p) /\ ~CRegisterFail(p)
    BY <1>1 DEF CRegistered, CRegisterFail, NotHeard
  <2>. QED
    BY <2>1, <2>2 DEF CStep, Client, Punched, ClientLimit,
       CRegister, CRegisterFail, CFirstFail, CExtra, CFinish, CBind, CBindFail,
       CStart, CReady, CRetryRequest, CAckError, CAckMissing, CNotice, CTransportLost,
       CEstablished, CPunchFail, CFirstTimeout, CTimeout, CAckTimeout, CPunchAlone,
       CRegistered, CFirstPeerInfo, CPeerInfo, CGo, CRetryRejected, CRetryGranted,
       CRebindFail, CWriteError, CAck, Granted
<1>6. conn' = conn /\ cPc[p] = "register" /\ toServer[p] = <<>>
  BY <1>1, <1>5 DEF CRegister, NotHeard
<1>. QED
  BY <1>1, <1>3, <1>4, <1>6 DEF KRegister, Stays, NotHeard

LEMMA AckKind ==
  ASSUME Leading, NEW p \in Roles, CAck(p)
  PROVE  KWander(p) /\ \E i \in DOMAIN toClient[p] : toClient'[p] = Without(toClient[p], i)
<1>. DEFINE s == toClient[p]
            S == Acks(p)
            i == CHOOSE j \in S : \A k \in S : j <= k
<1>1. /\ TypeOK /\ PlaceInv(p)
  BY CalmFacts
<1>2. /\ toClient \in [Roles -> Seq(Msg)] /\ s \in Seq(Msg) /\ cPc \in [Roles -> ClientPcs]
      /\ after \in [Roles -> {"head", "peerinfo"}]
  BY <1>1 DEF TypeOK, LinkTypeOK, ClientTypeOK
<1>3. S \in SUBSET Nat /\ S # {}
  <2>1. DOMAIN s \subseteq Nat
    BY <1>2, LenProperties
  <2>. QED
    BY <2>1 DEF CAck, Acks
<1>4. i \in DOMAIN s /\ s[i].type = "ports_added_ack"
  BY <1>3, FirstOf DEF Acks
<1>5. /\ toClient' = [toClient EXCEPT ![p] = Without(s, i)]
      /\ cPc' = [cPc EXCEPT ![p] = IF s[i].ports = reported[p] THEN after[p] ELSE "ack"]
      /\ cPc[p] = "ack" /\ conn' = conn /\ saved' = saved /\ after' = after
  BY DEF CAck, Without
<1>. HIDE DEF i, S
<1>6. s[i] \in Of(s, Ack)
  BY <1>4 DEF Of, Lines, Ack
<1>7. s[i].ports = reported[p]
  BY <1>1, <1>6 DEF PlaceInv
<1>8. cPc'[p] = after[p] /\ after[p] \in {"head", "peerinfo"} /\ toClient'[p] = Without(s, i)
  BY <1>2, <1>5, <1>7
<1>. HIDE DEF s
<1>9. Of(Without(s, i), Info) = Of(s, Info)
  BY <1>2, <1>4, OfWithout DEF Info
<1>10. AlsoTold(p, Info) /\ Stays(p)
  BY <1>5, <1>8, <1>9 DEF AlsoTold, Stays, s
<1>. QED
  BY <1>4, <1>5, <1>8, <1>10 DEF KWander, s

LEMMA MemberKind ==
  ASSUME Leading, NEW p \in Roles, p \in member, CStep(p), Orderly(p), UNCHANGED server, Calm'
  PROVE  Kinds(p) /\ (CReady(p) => KReady(p))
<1>1. /\ Shape /\ TypeOK /\ Begin /\ LinkTypeOK /\ PlaceInv(p) /\ Regular(p) /\ InStep(p)
      /\ cut = {} /\ cut' = {} /\ unfilled' = {} /\ p \notin cut
  BY CalmFacts DEF Calm, TypeOK
<1>2. Regular(p)'
  BY <1>1 DEF Regular
<1>3. /\ cPc \in [Roles -> ClientPcs] /\ conn \in [Roles -> 0 .. NumConns]
      /\ after \in [Roles -> {"head", "peerinfo"}] /\ saved \in [Roles -> Ports \cup {NoPort}]
      /\ sockets \in [Roles -> Seq(Nat)] /\ conn[p] \in 0 .. NumConns
  BY <1>1 DEF TypeOK, ClientTypeOK
<1>4. CASE CRegistered(p)
  <2>1. ~Free(toServer'[p], Probes)
    <3>1. Send(p, Bare("probes_complete")) /\ Bare("probes_complete").type = "probes_complete"
      BY <1>4, MsgFacts DEF CRegistered
    <3>. QED
      BY <1>1, <3>1, NewLine DEF Probes
  <2>2. KRegistered(p)
    BY <1>3, <1>4, <2>1 DEF CRegistered, Goto, KRegistered, Stays
  <2>. QED
    BY <1>4, <2>2 DEF Kinds, CReady, CRegistered
<1>5. CASE CFirstPeerInfo(p)
  <2>1. Brings(toClient[p], Info, conn[p])
    BY <1>1, <1>5, ReceivedBrings DEF CFirstPeerInfo, Info
  <2>2. First(p, "peer_info").port \in Ports
    <3>1. First(p, "peer_info") \in Msg /\ First(p, "peer_info").type = "peer_info"
      BY <1>1, <1>5, ReceivedLine DEF CFirstPeerInfo
    <3>. QED
      BY <3>1, MsgFacts
  <2>3. NoPort \notin Ports
    BY ConstantFacts DEF NoPort, Ports
  <2>4. saved'[p] # NoPort
    BY <1>3, <1>5, <2>2, <2>3 DEF CFirstPeerInfo
  <2>5. KFirst(p)
    BY <1>3, <1>5, <2>1, <2>4 DEF CFirstPeerInfo, Goto, KFirst
  <2>. QED
    BY <1>5, <2>5 DEF Kinds, CReady, CFirstPeerInfo
<1>6. CASE CExtra(p) \/ CBind(p)
  <2>1. toClient' = toClient /\ conn' = conn /\ saved' = saved
    BY <1>6 DEF CExtra, CBind
  <2>2. \/ cPc'[p] = "head"
        \/ /\ cPc'[p] = "ack" /\ after'[p] = "head"
           /\ \E ports : Send(p, OfPorts("add_ports", ports))
    <3>1. CASE CExtra(p)
      BY <1>3, <3>1 DEF CExtra, Report, Goto
    <3>2. CASE CBind(p)
      BY <1>3, <3>2 DEF CBind, Report, Goto
    <3>. QED
      BY <1>6, <3>1, <3>2
  <2>3. \A ports : Send(p, OfPorts("add_ports", ports)) => ~Free(toServer'[p], Added)
    BY <1>1, NewLine DEF Added, OfPorts
  <2>4. cPc[p] \in {"extra", "head"}
    BY <1>6 DEF CExtra, CBind
  <2>5. KWander(p)
    BY <2>1, <2>2, <2>3, <2>4 DEF KWander, Stays, AlsoTold
  <2>. QED
    BY <2>4, <2>5 DEF Kinds, CReady
<1>7. CASE CBindFail(p) /\ UNCHANGED sockets
  <2>1. KEnds(p)
    BY <1>3, <1>7 DEF CBindFail, Abandon, Goto, KEnds
  <2>. QED
    BY <1>7, <2>1 DEF Kinds, CReady, CBindFail
<1>8. CASE CStart(p)
  <2>1. cPc[p] = "head" /\ conn' = conn /\ toClient' = toClient
    BY <1>8 DEF CStart
  <2>2. CASE conn[p] = 0 /\ saved[p] # NoPort
    <3>1. saved'[p] = NoPort /\ cPc'[p] = "ready"
      BY <1>3, <1>8, <2>2 DEF CStart, Goto
    <3>. QED
      BY <2>1, <2>2, <3>1 DEF KStart, Kinds, CReady
  <2>3. CASE ~(conn[p] = 0 /\ saved[p] # NoPort)
    <3>1. saved' = saved /\ cPc'[p] = "peerinfo"
      BY <1>3, <1>8, <2>3 DEF CStart, Goto
    <3>. QED
      BY <2>1, <2>3, <3>1 DEF KWander, Stays, AlsoTold, Kinds, CReady
  <2>. QED
    BY <2>2, <2>3
<1>9. CASE CPeerInfo(p)
  <2>1. Brings(toClient[p], Info, conn[p])
    BY <1>1, <1>9, ReceivedBrings DEF CPeerInfo, Info
  <2>2. KInfo(p)
    BY <1>3, <1>9, <2>1 DEF CPeerInfo, Goto, KInfo, Stays
  <2>. QED
    BY <1>9, <2>2 DEF Kinds, CReady, CPeerInfo
<1>10. CASE CReady(p)
  <2>1. KReady(p)
    BY <1>3, <1>10 DEF CReady, Goto, KReady, Stays
  <2>. QED
    BY <2>1 DEF Kinds
<1>11. CASE CGo(p)
  <2>1. ~Free(toClient[p], Go)
    <3>1. Brings(toClient[p], Go, conn[p])
      BY <1>1, <1>11, ReceivedBrings DEF CGo, Go
    <3>. QED
      BY <3>1, OfFree DEF Brings
  <2>3. Free(toClient'[p], Go)
    <3>1. Receive(p, "go") /\ Sole(toClient[p], Go)
      BY <1>11, CalmFacts DEF CGo, GoInv
    <3>. QED
      BY <1>1, <3>1, ReceivedChannel DEF Go
  <2>2. KGo(p)
    BY <1>3, <1>11, <2>1, <2>3 DEF CGo, Goto, KGo, Stays
  <2>. QED
    BY <1>11, <2>2 DEF Kinds, CReady, CGo
<1>12. CASE CEstablished(p)
  <2>1. KEnds(p)
    BY <1>3, <1>12 DEF CEstablished, Goto, KEnds
  <2>. QED
    BY <1>12, <2>1 DEF Kinds, CReady, CEstablished
<1>13. CASE CPunchFail(p) \/ CPunchAlone(p)
  <2>1. Fail(p) /\ cPc[p] = "punch" /\ saved' = saved
    BY <1>13 DEF CPunchFail, CPunchAlone
  <2>2. KEnds(p)
    BY <1>1, <2>1, FailKind DEF KEnds
  <2>. QED
    BY <2>1, <2>2 DEF Kinds, CReady
<1>14. CASE CRetryRequest(p)
  <2>1. Free(toClient[p], Grant)
    BY <1>1, <1>14, SettledThen, FreeSub DEF CRetryRequest, Settled
  <2>2. KAsk(p)
    BY <1>3, <1>14, <2>1 DEF CRetryRequest, Goto, KAsk, Stays
  <2>. QED
    BY <1>14, <2>2 DEF Kinds, CReady, CRetryRequest
<1>15. CASE CRetryRejected(p)
  <2>1. Fail(p) /\ cPc[p] = "retry" /\ saved' = saved /\ Receive(p, "retry_rejected")
    BY <1>15 DEF CRetryRejected
  <2>2. Free(toClient[p], Grant)
    BY <1>1, <2>1, AnswerFacts DEF Replies, Grant
  <2>3. KEnds(p)
    BY <1>1, <2>1, <2>2, FailKind DEF KEnds
  <2>. QED
    BY <2>1, <2>3 DEF Kinds, CReady
<1>16. CASE CRetryGranted(p)
  <2>. DEFINE ports == <<<<conn[p], newest'[p][conn[p]]>>>>
  <2>1. Report(p, ports, "peerinfo") /\ cPc[p] = "retry" /\ Receive(p, "retry_granted")
        /\ conn' = conn /\ saved' = saved
    BY <1>16 DEF CRetryGranted, Granted
  <2>. HIDE DEF ports
  <2>2. /\ ~Free(toClient[p], Grant) /\ Open(p) = {conn[p]}
    BY <1>1, <2>1, AnswerFacts DEF Replies, Grant
  <2>3. ~Free(toServer'[p], Added)
    BY <1>1, <2>1, NewLine DEF Report, Added, OfPorts
  <2>4. cPc'[p] = "ack" /\ after'[p] = "peerinfo"
    BY <1>3, <2>1 DEF Report, Goto
  <2>5. conn[p] \in granted
    BY <2>2 DEF Open
  <2>. QED
    BY <2>1, <2>2, <2>3, <2>4, <2>5 DEF KGranted, Stays, Kinds, CReady
<1>17. CASE CAck(p)
  <2>1. KWander(p)
    BY <1>17, AckKind
  <2>. QED
    BY <1>17, <2>1 DEF Kinds, CReady, CAck
<1>18. CASE Quiet /\ (CTimeout(p) \/ CAckTimeout(p))
  <2>1. ~CAckTimeout(p)
    BY <1>18, QuietFacts DEF CAckTimeout, CAckMissing
  <2>2. /\ Fail(p) /\ cPc[p] \in {"peerinfo", "go", "retry"} /\ saved' = saved
    BY <1>18, <2>1 DEF CTimeout
  <2>3. cPc[p] = "retry" => Free(toClient[p], Grant)
    BY <1>18, QuietFacts
  <2>4. KEnds(p)
    BY <1>1, <1>18, <2>2, <2>3, FailKind DEF KEnds
  <2>. QED
    BY <2>2, <2>4 DEF Kinds, CReady
<1>. QED
  BY <1>1, <1>2, <1>4, <1>5, <1>6, <1>7, <1>8, <1>9, <1>10, <1>11, <1>12, <1>13, <1>14, <1>15,
     <1>16, <1>17, <1>18, OpenSteps

LEMMA PortsStay ==
  ASSUME Leading, NEW p \in Roles, p \in member, CStep(p), Orderly(p), UNCHANGED server, Calm'
  PROVE  /\ sockets'[p] # <<>>
         /\ \A x \in Of(toClient'[p], Ack) : x.ports = reported'[p]
<1>1. /\ Shape /\ TypeOK /\ Begin /\ PlaceInv(p) /\ Regular(p) /\ InStep(p)
      /\ cut = {} /\ cut' = {} /\ unfilled' = {}
  BY CalmFacts DEF Calm
<1>2. Regular(p)'
  BY <1>1 DEF Regular
<1>3. /\ cPc \in [Roles -> ClientPcs] /\ reported \in [Roles -> Seq(Ports)]
      /\ sockets \in [Roles -> Seq(Nat)] /\ newest \in [Roles -> [Conns -> Nat]]
      /\ conn \in [Roles -> 0 .. NumConns]
  BY <1>1 DEF TypeOK, ClientTypeOK
<1>4. sockets[p] # <<>> /\ Len(sockets[p]) \in Nat \ {0}
  BY <1>1, <1>3, EmptySeq, LenProperties DEF PlaceInv
<1>5. ClientTypeOK' /\ Lines(toClient'[p]) \subseteq Lines(toClient[p])
  BY <1>1, ClientType, ClientTakes
<1>6. sockets'[p] \in Seq(Nat)
  BY <1>5 DEF ClientTypeOK
<1>7. Len(sockets'[p]) > 0 => sockets'[p] # <<>>
  BY <1>6, EmptySeq
<1>8. /\ Of(toClient'[p], Ack) \subseteq Of(toClient[p], Ack)
      /\ \A x \in Of(toClient[p], Ack) : x.ports = reported[p]
      /\ Free(toClient[p], Ack) => Of(toClient'[p], Ack) = {}
  BY <1>1, <1>5, OfFree DEF Of, PlaceInv
<1>9. CASE sockets' = sockets /\ reported' = reported
  BY <1>4, <1>8, <1>9
<1>10. CASE CExtra(p) \/ CBind(p)
  <2>1. Free(toClient[p], Ack)
    BY <1>1, <1>10, SettledThen DEF CExtra, CBind
  <2>2. Len(sockets'[p]) > 0
    <3>1. CASE CExtra(p)
      <4>1. PICK k \in 0 .. NumConns - Len(sockets[p]) :
              sockets' = [sockets EXCEPT ![p] = sockets[p] \o [i \in 1 .. k |-> 0]]
        BY <3>1 DEF CExtra
      <4>. DEFINE t == [i \in 1 .. k |-> 0]
      <4>2. k \in Nat
        BY <1>4, ConstantFacts
      <4>3. t \in [1 .. k -> Nat]
        OBVIOUS
      <4>4. t \in Seq(Nat) /\ Len(t) = k
        BY <4>2, <4>3, OfLength
      <4>5. sockets'[p] = sockets[p] \o t
        BY <1>3, <4>1
      <4>. HIDE DEF t
      <4>6. Len(sockets'[p]) = Len(sockets[p]) + k
        <5>1. sockets[p] \in Seq(Nat)
          BY <1>3
        <5>2. Len(sockets[p] \o t) = Len(sockets[p]) + Len(t)
          BY <4>4, <5>1, ConcatProperties
        <5>. QED
          BY <4>4, <4>5, <5>2
      <4>. QED
        BY <1>4, <4>2, <4>6
    <3>2. CASE CBind(p)
      <4>1. sockets'[p] = Append(sockets[p], 0)
        BY <1>3, <3>2 DEF CBind
      <4>2. Len(sockets'[p]) = Len(sockets[p]) + 1
        BY <1>3, <4>1, AppendProperties
      <4>. QED
        BY <1>4, <4>2
    <3>. QED
      BY <1>10, <3>1, <3>2
  <2>. QED
    BY <1>7, <1>8, <2>1, <2>2
<1>11. CASE CRetryGranted(p)
  <2>1. /\ cPc[p] = "retry" /\ Receive(p, "retry_granted") /\ Rebind(p)
    BY <1>11 DEF CRetryGranted, Granted
  <2>2. Free(toClient[p], Ack)
    BY <1>1, <2>1, AnswerFacts DEF Replies
  <2>3. conn[p] < NumConns /\ conn[p] < Len(sockets[p])
    BY <1>1, <2>1 DEF Shape, Slots, AtWork, Trying
  <2>4. Len(sockets'[p]) = Len(sockets[p])
    BY <1>1, <2>1, <2>3, RebindType
  <2>. QED
    BY <1>4, <1>7, <1>8, <2>2, <2>4
<1>12. CASE \/ CRegistered(p) \/ CFirstPeerInfo(p) \/ CStart(p) \/ CPeerInfo(p) \/ CReady(p)
            \/ CGo(p) \/ CEstablished(p) \/ CPunchFail(p) \/ CPunchAlone(p)
            \/ (CBindFail(p) /\ UNCHANGED sockets)
            \/ CRetryRequest(p) \/ CRetryRejected(p) \/ CAck(p) \/ CTimeout(p) \/ CAckTimeout(p)
  <2>1. sockets' = sockets /\ reported' = reported
    BY <1>12 DEF CRegistered, CFirstPeerInfo, CStart, CPeerInfo, CReady, CGo, CEstablished,
       CPunchFail, CPunchAlone, CBindFail, CRetryRequest, CRetryRejected, CAck, CTimeout,
       CAckTimeout, CAckMissing
  <2>. QED
    BY <1>9, <2>1
<1>. QED
  BY <1>1, <1>2, <1>10, <1>11, <1>12, OpenSteps

\* A step of client p.
LeadStep(p) == CStep(p) /\ Orderly(p) /\ UNCHANGED server

LEMMA ClientView ==
  ASSUME Leading, NEW p \in Roles, LeadStep(p), Calm'
  PROVE  /\ Kinds(p) /\ cut' = {} /\ UNCHANGED server
         /\ Lines(toClient'[p]) \subseteq Lines(toClient[p])
         /\ \A T : Free(toClient[p], T) => Free(toClient'[p], T)
         /\ Free(toClient'[p], Go)
         /\ Of(toServer[p], Ready) = {} /\ Sole(toServer'[p], Ready)
         /\ \/ Of(toServer'[p], Ready) = {}
            \/ KReady(p) /\ Of(toServer'[p], Ready) = {OfConn("ready", conn[p])}
         /\ KReady(p) => Of(toServer'[p], Ready) = {OfConn("ready", conn[p])}
         /\ Lines(toServer[p]) \subseteq Lines(toServer'[p])
         /\ cPc[p] # "failed" /\ Free(toServer[p], Request) => Free(toServer'[p], Request)
         /\ sockets'[p] # <<>>
         /\ \A x \in Of(toClient'[p], Ack) : x.ports = reported'[p]
<1>. USE DEF LeadStep
<1>1. /\ Shape /\ TypeOK /\ PlaceInv(p) /\ ReadyInv(p) /\ GoInv(p)
      /\ cut = {} /\ cut' = {} /\ p \notin cut
  BY CalmFacts DEF Calm
<1>2. /\ Kinds(p) /\ (CReady(p) => KReady(p)) /\ sockets'[p] # <<>>
      /\ \A x \in Of(toClient'[p], Ack) : x.ports = reported'[p]
  <2>1. CASE p \in member
    BY <2>1, MemberKind, PortsStay
  <2>2. CASE p \notin member
    <3>1. KRegister(p)
      BY <2>2, RegisterKind
    <3>2. toClient'[p] = <<>>
      BY <1>1, <2>2, CalmFacts, NotHeardClient
    <3>3. Of(toClient'[p], Ack) = {}
      BY <3>2, NoneFree, OfFree
    <3>. QED
      BY <1>1, <3>1, <3>3 DEF KRegister, Kinds, CReady, PlaceInv
  <2>. QED
    BY <2>1, <2>2
<1>3. /\ Lines(toClient'[p]) \subseteq Lines(toClient[p])
      /\ \A T : Free(toClient[p], T) => Free(toClient'[p], T)
  BY <1>1, ClientTakes, ClientChannels
<1>4. cPc[p] = "go" => KGo(p) \/ Quiet
  BY <1>2 DEF Kinds, KRegister, KRegistered, KFirst, KWander, KStart, KInfo, KReady, KEnds,
     KAsk, KGranted
<1>5. Free(toClient'[p], Go)
  <2>1. CASE Free(toClient[p], Go)
    BY <1>3, <2>1
  <2>2. CASE ~Free(toClient[p], Go)
    <3>1. cPc[p] = "go"
      BY <1>1, <2>2, OfFree DEF GoInv, At
    <3>. QED
      BY <1>4, <2>2, <3>1, QuietFacts DEF KGo
  <2>. QED
    BY <2>1, <2>2
<1>6. Of(toServer[p], Ready) = {}
  <2>1. SUFFICES ASSUME NEW x \in Of(toServer[p], Ready) PROVE FALSE
    OBVIOUS
  <2>2. cPc[p] = "go" /\ Free(toClient[p], Go)
    BY <1>1 DEF ReadyInv, At
  <2>3. toServer[p] # <<>>
    BY NoLine DEF Of
  <2>. QED
    BY <1>4, <2>2, <2>3, QuietFacts DEF KGo
<1>7. Free(toServer[p], Ready)
  BY <1>6, OfFree
<1>8. /\ Lines(toServer[p]) \subseteq Lines(toServer'[p])
      /\ ~CReady(p) => Of(toServer'[p], Ready) = {}
  BY <1>1, <1>6, LeadLines
<1>9. ASSUME CReady(p)
      PROVE  Of(toServer'[p], Ready) = {OfConn("ready", conn[p])} /\ Sole(toServer'[p], Ready)
  <2>. DEFINE m == OfConn("ready", conn[p])
  <2>1. Send(p, m) /\ m.type = "ready"
    BY <1>9 DEF CReady, OfConn
  <2>. HIDE DEF m
  <2>2. Lines(toServer'[p]) = Lines(toServer[p]) \cup {m} /\ Sole(toServer'[p], Ready)
    BY <1>1, <1>7, <2>1, NewLine
  <2>3. Of(toServer'[p], Ready) = {m}
    BY <1>6, <2>1, <2>2 DEF Of, Ready
  <2>. QED
    BY <2>2, <2>3 DEF m
<1>10. ~CReady(p) => Sole(toServer'[p], Ready)
  BY <1>8, OfFree, FreeSole
<1>11. KReady(p) => CReady(p)
  BY DEF KReady
<1>12. cPc[p] # "failed" /\ Free(toServer[p], Request) => Free(toServer'[p], Request)
  BY <1>1, ClientChannels DEF CRetryRequest
<1>. QED
  BY <1>1, <1>2, <1>3, <1>5, <1>6, <1>8, <1>9, <1>10, <1>11, <1>12

LEMMA PeerFrame ==
  ASSUME Leading, NEW p \in Roles, LeadStep(p), NEW q \in Roles, q # p
  PROVE  /\ SameClient(q) /\ toServer'[q] = toServer[q] /\ toClient'[q] = toClient[q]
         /\ ready' = ready
BY CalmFacts, ClientFrame DEF LeadStep

\* Who has gone on or asks for a retry does so until a retry is granted.
LEMMA GoneKept ==
  ASSUME Leading, NEW p \in Roles, LeadStep(p), Calm', NEW r \in Roles, NEW n \in Int
  PROVE  (Gone(r, n) => Gone(r, n)') /\ (Past(r, n) => Past(r, n)')
<1>1. CASE r # p
  <2>1. cPc'[r] = cPc[r] /\ conn'[r] = conn[r] /\ toClient'[r] = toClient[r]
    BY <1>1, PeerFrame DEF SameClient
  <2>. QED
    BY <2>1 DEF Gone, Past, Asking
<1>2. CASE r = p
  <2>1. conn[p] \in Int
    BY CalmFacts, ConnLines
  <2>2. Kinds(p) /\ (Free(toClient[p], Grant) => Free(toClient'[p], Grant))
    BY ClientView
  <2>3. conn'[p] = conn[p] \/ conn'[p] = conn[p] + 1
    BY <2>2 DEF Kinds, KRegister, KRegistered, KFirst, KWander, KStart, KInfo, KReady, KGo,
       KEnds, KAsk, KGranted, Stays
  <2>4. conn'[p] = conn[p] + 1 => (n <= conn[p] => Gone(p, n)')
    BY <2>1 DEF Gone
  <2>5. Past(p, n) => n <= conn[p]
    BY <2>1 DEF Past, Gone
  <2>6. ASSUME conn'[p] = conn[p], Asking(p) PROVE Asking(p)'
    BY <2>1, <2>2, <2>6 DEF Asking, Kinds, KRegister, KRegistered, KFirst, KWander, KStart,
       KInfo, KReady, KGo, KEnds, KAsk, KGranted, Stays
  <2>7. ASSUME conn'[p] = conn[p], cPc[p] = "punch" PROVE cPc'[p] = "failed"
    BY <2>1, <2>2, <2>7 DEF Kinds, KRegister, KRegistered, KFirst, KWander, KStart,
       KInfo, KReady, KGo, KEnds, KAsk, KGranted, Stays
  <2>. QED
    BY <1>2, <2>3, <2>4, <2>5, <2>6, <2>7 DEF Gone, Past, Asking
<1>. QED
  BY <1>1, <1>2

\* Nobody has been told of a connection the client is not yet at.
LEMMA NotAhead ==
  ASSUME Leading, NEW p \in Roles, NEW r \in Roles, conn[r] = conn[p] + 1 \/ r = p
  PROVE  ~Brings(toClient[r], Info, conn[p] + 1) /\ (r # p => ~Engaged(r) /\ ~HasInfo(r))
<1>1. TypeOK /\ ServedInTurn /\ PlaceInv(r)
  BY CalmFacts
<1>2. /\ conn[p] \in Int /\ ~Reached(conn[p] + 1)
      /\ conn[p] >= 0
  BY <1>1, ConnLines, ConstantFacts DEF Reached, TypeOK, ClientTypeOK
<1>3. ~Brings(toClient[r], Info, conn[p] + 1)
  BY <1>1, <1>2 DEF ServedInTurn, Brings, Of, Info
<1>4. r # p => ~Engaged(r)
  BY <1>1, <1>2 DEF PlaceInv
<1>5. r # p => ~HasInfo(r)
  BY <1>2, <1>3 DEF HasInfo
<1>. QED
  BY <1>3, <1>4, <1>5

LEMMA InfoKept ==
  ASSUME Leading, NEW p \in Roles, LeadStep(p), Calm'
  PROVE  /\ conn'[p] = conn[p] \/ (conn'[p] = conn[p] + 1 /\ cPc'[p] = "head")
         /\ HasInfo(p)' => HasInfo(p) /\ conn'[p] = conn[p]
<1>1. /\ Kinds(p) /\ Lines(toClient'[p]) \subseteq Lines(toClient[p])
      /\ conn[p] \in Int /\ conn[p] >= 0
  <2>1. Kinds(p) /\ Lines(toClient'[p]) \subseteq Lines(toClient[p])
    BY ClientView
  <2>2. conn[p] \in 0 .. NumConns
    BY CalmFacts DEF TypeOK, ClientTypeOK
  <2>. QED
    BY <2>1, <2>2, ConstantFacts
<1>2. conn'[p] = conn[p] \/ (conn'[p] = conn[p] + 1 /\ cPc'[p] = "head")
  BY <1>1 DEF Kinds, KRegister, KRegistered, KFirst, KWander, KStart, KInfo, KReady, KGo,
     KEnds, KAsk, KGranted, Stays
<1>3. KFirst(p) \/ saved'[p] = saved[p] \/ saved'[p] = NoPort
  BY <1>1 DEF Kinds, KRegister, KRegistered, KFirst, KWander, KStart, KInfo, KReady, KGo,
     KEnds, KAsk, KGranted, Stays
<1>4. KFirst(p) => HasInfo(p) /\ conn'[p] = conn[p]
  BY DEF KFirst, HasInfo
<1>5. \A n : Brings(toClient'[p], Info, n) => Brings(toClient[p], Info, n)
  BY <1>1 DEF Brings, Of
<1>6. ~Brings(toClient'[p], Info, conn[p] + 1)
  BY <1>5, NotAhead
<1>7. ASSUME HasInfo(p)' PROVE HasInfo(p) /\ conn'[p] = conn[p]
  <2>1. conn'[p] = conn[p]
    BY <1>1, <1>2, <1>6, <1>7 DEF HasInfo
  <2>. QED
    BY <1>3, <1>4, <1>5, <1>7, <2>1 DEF HasInfo
<1>. QED
  BY <1>2, <1>7

LEMMA ClientReadyInv ==
  ASSUME Leading, NEW p \in Roles, LeadStep(p), Calm', NEW r \in Roles
  PROVE  ReadyInv(r)'
<1>. DEFINE q == Other(p)
<1>1. /\ q \in Roles /\ q # p /\ Other(q) = p /\ (r = p \/ r = q)
      /\ ReadyInv(p) /\ ReadyInv(q) /\ ready \in [Roles -> SUBSET Conns] /\ Conns \subseteq Int
  BY ConstantFacts, CalmFacts DEF TypeOK, ServerTypeOK
<1>2. /\ cPc'[q] = cPc[q] /\ conn'[q] = conn[q] /\ toClient'[q] = toClient[q]
      /\ toServer'[q] = toServer[q] /\ ready' = ready
  BY <1>1, PeerFrame DEF SameClient
<1>3. \A s \in Roles, n \in Int : Gone(s, n) => Gone(s, n)'
  BY GoneKept
<1>. HIDE DEF q
<1>4. ReadyInv(q)'
  <2>1. /\ Sole(toServer'[q], Ready)
        /\ \A x \in Of(toServer'[q], Ready) :
             At(q, x.conn)' /\ x.conn \notin ready'[q] /\ Free(toClient'[q], Go)
    BY <1>1, <1>2 DEF ReadyInv, At
  <2>2. ASSUME NEW n \in ready'[q]
        PROVE  \/ At(q, n)' /\ Free(toClient'[q], Go)
               \/ Gone(q, n)' /\ Gone(p, n)' /\ n \notin ready'[p]
    <3>1. n \in ready[q] /\ n \in Int
      BY <1>1, <1>2
    <3>2. \/ At(q, n) /\ Free(toClient[q], Go)
          \/ Gone(q, n) /\ Gone(p, n) /\ n \notin ready[p]
      BY <1>1, <3>1 DEF ReadyInv
    <3>. QED
      BY <1>1, <1>2, <1>3, <3>1, <3>2 DEF At
  <2>. QED
    BY <1>1, <2>1, <2>2 DEF ReadyInv
<1>5. ReadyInv(p)'
  <2>1. /\ Kinds(p) /\ Free(toClient'[p], Go) /\ Sole(toServer'[p], Ready)
        /\ \/ Of(toServer'[p], Ready) = {}
           \/ KReady(p) /\ Of(toServer'[p], Ready) = {OfConn("ready", conn[p])}
    BY ClientView
  <2>2. ASSUME NEW x \in Of(toServer'[p], Ready)
        PROVE  At(p, x.conn)' /\ x.conn \notin ready'[p]
    <3>1. KReady(p) /\ x.conn = conn[p]
      BY <2>1, <2>2 DEF OfConn
    <3>2. conn[p] \notin ready[p]
      <4>1. cPc[p] = "ready"
        BY <3>1 DEF KReady
      <4>2. ~At(p, conn[p]) /\ ~Gone(p, conn[p])
        <5>1. conn[p] \in Int
          BY CalmFacts, ConnLines
        <5>. QED
          BY <4>1, <5>1 DEF At, Gone, Asking
      <4>. QED
        BY <1>1, <4>2 DEF ReadyInv
    <3>. QED
      BY <1>2, <3>1, <3>2 DEF KReady, Stays, At
  <2>3. ASSUME NEW n \in ready'[p]
        PROVE  \/ At(p, n)' /\ Free(toClient'[p], Go)
               \/ Gone(p, n)' /\ Gone(q, n)' /\ n \notin ready'[q]
    <3>1. n \in ready[p] /\ n \in Int
      BY <1>1, <1>2
    <3>2. CASE At(p, n) /\ Free(toClient[p], Go)
      <4>1. cPc[p] = "go" /\ conn[p] = n
        BY <3>2 DEF At
      <4>2. KEnds(p)
        BY <2>1, <3>2, <4>1 DEF Kinds, KRegister, KRegistered, KFirst, KWander, KStart,
           KInfo, KReady, KGo, KAsk, KGranted
      <4>3. Quiet
        BY <4>1, <4>2 DEF KEnds
      <4>4. Gone(q, n) /\ n \notin ready[q]
        BY <3>2, <4>3, QuietGone DEF q
      <4>5. Gone(p, n)'
        BY <3>1, <4>1, <4>2 DEF KEnds, Gone, Asking
      <4>. QED
        BY <1>1, <1>2, <1>3, <3>1, <4>4, <4>5
    <3>3. CASE Gone(p, n) /\ Gone(q, n) /\ n \notin ready[q]
      BY <1>1, <1>2, <1>3, <3>1, <3>3
    <3>. QED
      BY <1>1, <3>1, <3>2, <3>3 DEF ReadyInv, q
  <2>. QED
    BY <2>1, <2>2, <2>3 DEF ReadyInv, q
<1>. QED
  BY <1>1, <1>4, <1>5

LEMMA ClientGoInv ==
  ASSUME Leading, NEW p \in Roles, LeadStep(p), Calm', NEW r \in Roles
  PROVE  GoInv(r)'
<1>. DEFINE q == Other(p)
<1>1. /\ q \in Roles /\ q # p /\ Other(q) = p /\ (r = p \/ r = q)
      /\ GoInv(p) /\ GoInv(q) /\ conn[p] \in Int /\ conn[q] \in Int
  BY ConstantFacts, CalmFacts, ConnLines
<1>2. /\ cPc'[q] = cPc[q] /\ conn'[q] = conn[q] /\ toClient'[q] = toClient[q]
      /\ toServer'[q] = toServer[q] /\ ready' = ready
  BY <1>1, PeerFrame DEF SameClient
<1>3. \A s \in Roles, n \in Int : Past(s, n) => Past(s, n)'
  BY GoneKept
<1>4. Kinds(p) /\ Free(toClient'[p], Go)
      /\ (KReady(p) => Of(toServer'[p], Ready) = {OfConn("ready", conn[p])})
  BY ClientView
<1>5. /\ cPc'[p] = "go" => KReady(p)
      /\ cPc'[p] = "punch" \/ ~Free(toClient[p], Go) => KGo(p)
  <2>1. ~Free(toClient[p], Go) => cPc[p] = "go"
    BY <1>1, OfFree DEF GoInv, At
  <2>2. KEnds(p) /\ cPc[p] = "go" => Free(toClient[p], Go)
    BY QuietFacts DEF KEnds
  <2>. QED
    BY <1>4, <2>1, <2>2 DEF Kinds, KRegister, KRegistered, KFirst, KWander, KStart,
       KInfo, KReady, KGo, KEnds, KAsk, KGranted
<1>. HIDE DEF q
<1>6. GoInv(q)'
  <2>1. /\ Sole(toClient'[q], Go)
        /\ \A x \in Of(toClient'[q], Go) : At(q, x.conn)'
        /\ cPc'[q] = "go" => Heard(q, conn[q])' \/ ~Free(toClient'[q], Go)
    BY <1>1, <1>2 DEF GoInv, At, Heard
  <2>2. ASSUME cPc'[q] = "punch" \/ ~Free(toClient'[q], Go)
        PROVE  Past(p, conn[q])'
    <3>1. Past(p, conn[q]) \/ (conn[p] = conn[q] /\ ~Free(toClient[p], Go))
      BY <1>1, <1>2, <2>2 DEF GoInv
    <3>2. CASE Past(p, conn[q])
      BY <1>1, <1>2, <1>3, <3>2
    <3>3. CASE conn[p] = conn[q] /\ ~Free(toClient[p], Go)
      BY <1>2, <1>5, <3>3 DEF KGo, Stays, Past
    <3>. QED
      BY <3>1, <3>2, <3>3
  <2>. QED
    BY <1>1, <1>2, <2>1, <2>2 DEF GoInv
<1>7. GoInv(p)'
  <2>1. Sole(toClient'[p], Go) /\ Of(toClient'[p], Go) = {}
    BY <1>4, FreeSole, OfFree
  <2>2. ASSUME cPc'[p] = "go" PROVE Heard(p, conn[p])'
    <3>1. KReady(p) /\ conn'[p] = conn[p]
      BY <1>5, <2>2 DEF KReady, Stays
    <3>2. OfConn("ready", conn[p]) \in Of(toServer'[p], Ready)
      BY <1>4, <3>1
    <3>3. OfConn("ready", conn[p]).conn = conn'[p]
      BY <3>1 DEF OfConn
    <3>. QED
      BY <3>2, <3>3 DEF Heard, Brings
  <2>3. ASSUME cPc'[p] = "punch"
        PROVE  Past(q, conn[p])' \/ (conn'[q] = conn'[p] /\ ~Free(toClient'[q], Go))
    <3>1. KGo(p) /\ conn'[p] = conn[p] /\ ~Free(toClient[p], Go)
      BY <1>5, <2>3 DEF KGo, Stays
    <3>2. Past(q, conn[p]) \/ (conn[q] = conn[p] /\ ~Free(toClient[q], Go))
      BY <1>1, <3>1 DEF GoInv, q
    <3>. QED
      BY <1>1, <1>2, <1>3, <3>1, <3>2
  <2>. QED
    BY <1>4, <2>1, <2>2, <2>3 DEF GoInv, q
<1>. QED
  BY <1>1, <1>6, <1>7

LEMMA OwedFrame ==
  ASSUME Leading, NEW p \in Roles, LeadStep(p), Calm'
  PROVE  /\ \A n : Retried(n)' <=> Retried(n)
         /\ \A n : Arranged(n)' <=> Arranged(n)
         /\ \A r \in Roles \ {p} : (Coming(r)' <=> Coming(r)) /\ (HasInfo(r)' <=> HasInfo(r))
         /\ cPc[p] # "registered" /\ conn'[p] = conn[p] /\ Coming(p) => Coming(p)'
<1>1. UNCHANGED <<granted, retryNew, retryWait, coPc, coConn>>
  BY DEF LeadStep
<1>2. \A n : Retried(n)' <=> Retried(n)
  BY <1>1 DEF Retried
<1>3. \A n : Arranged(n)' <=> Arranged(n)
  BY <1>1, <1>2 DEF Arranged
<1>4. ASSUME NEW r \in Roles \ {p}
      PROVE  (Coming(r)' <=> Coming(r)) /\ (HasInfo(r)' <=> HasInfo(r))
  <2>1. /\ cPc'[r] = cPc[r] /\ conn'[r] = conn[r] /\ saved'[r] = saved[r]
        /\ toServer'[r] = toServer[r] /\ toClient'[r] = toClient[r]
    BY PeerFrame DEF SameClient
  <2>. QED
    BY <1>1, <2>1 DEF Coming, HasInfo
<1>5. ASSUME cPc[p] # "registered", conn'[p] = conn[p], Coming(p) PROVE Coming(p)'
  <2>1. Lines(toServer[p]) \subseteq Lines(toServer'[p])
    BY ClientView
  <2>2. ~Free(toServer[p], Probes) => ~Free(toServer'[p], Probes)
    BY <2>1 DEF Free
  <2>. QED
    BY <1>1, <1>5, <2>2 DEF Coming
<1>. QED
  BY <1>2, <1>3, <1>4, <1>5

LEMMA ClientOwed ==
  ASSUME Leading, NEW p \in Roles, LeadStep(p), Calm', NEW r \in Roles
  PROVE  OwedInv(r)'
<1>. DEFINE q == Other(p)
<1>1. /\ q \in Roles /\ q # p /\ Other(q) = p /\ (r = p \/ r = q)
      /\ OwedInv(p) /\ OwedInv(q)
  BY ConstantFacts, CalmFacts
<1>2. cPc'[q] = cPc[q] /\ conn'[q] = conn[q]
  BY <1>1, PeerFrame DEF SameClient
<1>3. /\ Kinds(p) /\ conn[p] \in Int
      /\ conn'[p] = conn[p] \/ (conn'[p] = conn[p] + 1 /\ cPc'[p] = "head")
      /\ HasInfo(p)' => HasInfo(p) /\ conn'[p] = conn[p]
  BY ClientView, InfoKept, CalmFacts, ConnLines
<1>4. /\ \A n : Retried(n)' <=> Retried(n)
      /\ (Coming(q)' <=> Coming(q)) /\ (HasInfo(q)' <=> HasInfo(q))
      /\ cPc[p] # "registered" /\ conn'[p] = conn[p] /\ Coming(p) => Coming(p)'
  BY <1>1, OwedFrame
<1>5. conn[q] = conn[p] + 1 => ~Engaged(q) /\ ~HasInfo(q)
  BY <1>1, NotAhead
<1>. HIDE DEF q
<1>6. OwedInv(q)'
  <2>1. SUFFICES ASSUME Wanting(q)', Led(q, p)' PROVE Owed(q)'
    BY <1>1 DEF OwedInv
  <2>2. Wanting(q) /\ conn'[p] = conn[q]
    BY <1>2, <2>1 DEF Wanting, Led
  <2>3. Engaged(p)' => conn'[p] = conn[p] /\ (Engaged(p) \/ HasInfo(p))
    <3>1. SUFFICES ASSUME Engaged(p)' PROVE conn'[p] = conn[p] /\ (Engaged(p) \/ HasInfo(p))
      OBVIOUS
    <3>2. KStart(p) \/ KInfo(p) \/ KReady(p) \/ KGo(p)
      BY <1>3, <3>1 DEF Engaged, Kinds, KRegister, KRegistered, KFirst, KWander, KEnds,
         KAsk, KGranted
    <3>. QED
      BY <3>2 DEF Engaged, HasInfo, KStart, KInfo, KReady, KGo, Stays
  <2>4. Led(q, p)
    BY <1>3, <2>1, <2>2, <2>3 DEF Led
  <2>5. Owed(q)
    BY <1>1, <2>2, <2>4 DEF OwedInv
  <2>. QED
    BY <1>2, <1>4, <2>5 DEF Owed
<1>7. OwedInv(p)'
  <2>1. SUFFICES ASSUME Wanting(p)', Led(p, q)' PROVE Owed(p)'
    BY <1>1 DEF OwedInv, q
  <2>2. conn'[p] = conn[p] /\ Led(p, q)
    BY <1>2, <1>3, <1>4, <1>5, <2>1 DEF Led, Engaged
  <2>3. CASE Wanting(p) /\ ~KRegistered(p) /\ ~KFirst(p)
    <3>1. Owed(p)
      BY <1>1, <2>2, <2>3 DEF OwedInv, q
    <3>2. KWander(p)
      BY <1>3, <2>1, <2>2, <2>3 DEF Wanting, Kinds, KRegister, KStart, KInfo, KReady, KGo, KEnds,
         KAsk, KGranted, Stays
    <3>3. HasInfo(p) => HasInfo(p)'
      BY <3>2 DEF KWander, Stays, AlsoTold, HasInfo, Brings
    <3>4. cPc[p] # "registered"
      BY <3>2 DEF KWander
    <3>. QED
      BY <1>4, <2>2, <3>1, <3>3, <3>4 DEF Owed
  <2>4. CASE KRegistered(p) \/ KRegister(p)
    <3>1. conn[p] = 0
      BY <2>4, CalmFacts DEF PlaceInv, KRegistered, KRegister
    <3>2. cPc'[p] = "registered" \/ ~Free(toServer'[p], Probes)
      BY <2>4 DEF KRegistered, KRegister
    <3>. QED
      BY <2>2, <3>1, <3>2 DEF Owed, Coming
  <2>5. CASE KFirst(p)
    <3>1. conn[p] = 0
      BY <2>5, CalmFacts DEF PlaceInv, KFirst
    <3>. QED
      BY <2>2, <2>5, <3>1 DEF KFirst, Owed, HasInfo
  <2>6. CASE KGranted(p)
    <3>1. Retried(conn[p])
      BY <2>6 DEF KGranted, Retried
    <3>. QED
      BY <1>4, <2>2, <3>1 DEF Owed
  <2>7. ~Wanting(p) => KRegister(p) \/ KGranted(p)
    BY <1>3, <2>1, <2>2 DEF Wanting, Kinds, KRegistered, KFirst, KWander, KStart,
       KInfo, KReady, KGo, KEnds, KAsk
  <2>. QED
    BY <2>3, <2>4, <2>5, <2>6, <2>7
<1>. QED
  BY <1>1, <1>6, <1>7

LEMMA ClientServed ==
  ASSUME Leading, NEW p \in Roles, LeadStep(p), Calm', NEW r \in Roles
  PROVE  ServedInv(r)'
<1>. DEFINE q == Other(p)
<1>1. /\ q \in Roles /\ q # p /\ Other(q) = p /\ (r = p \/ r = q)
      /\ ServedInv(p)
  BY ConstantFacts, CalmFacts
<1>2. cPc'[q] = cPc[q] /\ conn'[q] = conn[q] /\ toClient'[q] = toClient[q]
  BY <1>1, PeerFrame DEF SameClient
<1>3. /\ Kinds(p) /\ conn[p] \in Int
      /\ conn'[p] = conn[p] \/ (conn'[p] = conn[p] + 1 /\ cPc'[p] = "head")
      /\ HasInfo(p)' => HasInfo(p) /\ conn'[p] = conn[p]
  BY ClientView, InfoKept, CalmFacts, ConnLines
<1>4. /\ HasInfo(q)' <=> HasInfo(q)
      /\ \A n : Arranged(n)' <=> Arranged(n)
  BY <1>1, OwedFrame
<1>. HIDE DEF q
<1>5. Served(q)' => Served(q)
  BY <1>2, <1>4 DEF Served, Wanting
<1>6. ASSUME NEW n, n = conn'[p], Served(p)', Served(q)', conn'[q] = n PROVE Arranged(n)'
  <2>1. conn'[p] = conn[p]
    BY <1>3, <1>6 DEF Served
  <2>2. CASE KGranted(p)
    <3>1. Arranged(conn[p])
      BY <2>2 DEF KGranted, Retried, Arranged
    <3>. QED
      BY <1>4, <1>6, <2>1, <3>1
  <2>3. CASE ~KGranted(p)
    <3>1. Served(p)
      <4>1. CASE Wanting(p)' /\ HasInfo(p)'
        <5>1. HasInfo(p)
          BY <1>3, <4>1
        <5>2. ~KRegister(p)
          <6>1. KRegister(p) => ~Brings(toClient[p], Info, conn[p])
            BY NoLine DEF KRegister, Brings, Of
          <6>. QED
            BY <5>1, <6>1 DEF KRegister, HasInfo
        <5>3. Wanting(p)
          BY <1>3, <2>1, <2>3, <4>1, <5>2 DEF Wanting, Kinds, KRegistered, KFirst,
             KWander, KStart, KInfo, KReady, KGo, KEnds, KAsk
        <5>. QED
          BY <5>1, <5>3 DEF Served
      <4>2. CASE cPc'[p] = "ready"
        <5>1. KStart(p) \/ KInfo(p)
          BY <1>3, <4>2 DEF Kinds, KRegister, KRegistered, KFirst, KWander,
             KReady, KGo, KEnds, KAsk, KGranted
        <5>. QED
          BY <5>1 DEF KStart, KInfo, Served, Wanting, HasInfo
      <4>3. CASE cPc'[p] = "go"
        <5>1. KReady(p)
          BY <1>3, <4>3 DEF Kinds, KRegister, KRegistered, KFirst, KWander, KStart, KInfo,
             KGo, KEnds, KAsk, KGranted
        <5>. QED
          BY <5>1 DEF KReady, Served
      <4>. QED
        BY <1>6, <4>1, <4>2, <4>3 DEF Served
    <3>2. Arranged(conn[p])
      BY <1>1, <1>2, <1>5, <1>6, <2>1, <3>1 DEF ServedInv, q
    <3>. QED
      BY <1>4, <1>6, <2>1, <3>2
  <2>. QED
    BY <2>2, <2>3
<1>. QED
  BY <1>1, <1>6 DEF ServedInv, Arranged, Retried, q


\* A client at a connection of some time later is still at it, or further.
LEMMA ReachedKept ==
  ASSUME Leading, NEW p \in Roles, LeadStep(p), Calm', NEW n \in Int, Reached(n)
  PROVE  Reached(n)'
<1>1. ASSUME NEW r \in Roles PROVE n <= conn'[r]
  <2>1. n <= conn[r] /\ conn[r] \in Int
    BY CalmFacts, ConnLines DEF Reached
  <2>2. CASE r # p
    BY <2>1, <2>2, PeerFrame DEF SameClient
  <2>3. CASE r = p
    BY <2>1, <2>3, InfoKept
  <2>. QED
    BY <2>2, <2>3
<1>. QED
  BY <1>1 DEF Reached

LEMMA ClientPlace ==
  ASSUME Leading, NEW p \in Roles, LeadStep(p), Calm', NEW r \in Roles
  PROVE  PlaceInv(r)'
<1>1. PlaceInv(r) /\ PlaceInv(p) /\ ServedInTurn /\ conn[r] \in Int /\ conn[p] \in Int
  BY CalmFacts, ConnLines
<1>2. CASE r # p
  <2>1. /\ SameClient(r) /\ toServer'[r] = toServer[r] /\ toClient'[r] = toClient[r]
    BY <1>2, PeerFrame
  <2>. DEFINE n == conn[r]
  <2>2. n \in Int /\ (Engaged(r) => Reached(n))
    BY <1>1 DEF PlaceInv
  <2>. HIDE DEF n
  <2>3. Engaged(r) => \A s \in Roles : n <= conn'[s]
    BY <2>2, ReachedKept DEF Reached
  <2>4. Engaged(r)' => \A s \in Roles : conn'[r] <= conn'[s]
    BY <2>1, <2>3 DEF SameClient, Engaged, n
  <2>. QED
    BY <1>1, <2>1, <2>4 DEF PlaceInv, SameClient, Unheard, Reached
<1>3. CASE r = p
  <2>1. /\ Kinds(p) /\ sockets'[p] # <<>>
        /\ \A x \in Of(toClient'[p], Ack) : x.ports = reported'[p]
    BY ClientView
  <2>2. /\ cPc'[p] \notin {"ok", "err"}
        /\ cPc'[p] \in {"register", "registered", "first", "extra"} =>
             KRegister(p) \/ KRegistered(p)
        /\ cPc'[p] = "registered" => Unheard(p)'
        /\ Engaged(p)' => KStart(p) \/ KInfo(p) \/ KReady(p) \/ KGo(p)
        /\ cPc'[p] = "ack" => ~Free(toServer'[p], Added)
    BY <2>1 DEF Kinds, KRegister, KRegistered, KFirst, KWander, KStart, KInfo, KReady, KGo,
       KEnds, KAsk, KGranted, Engaged
  <2>3. cPc'[p] \in {"register", "registered", "first", "extra"} => conn'[p] = 0
    BY <1>1, <2>2 DEF KRegister, KRegistered, Stays, PlaceInv
  <2>4. ASSUME saved'[p] # NoPort, conn'[p] = 0
        PROVE  cPc'[p] = "head" \/ (cPc'[p] = "ack" /\ after'[p] = "head")
    <3>1. CASE cPc'[p] # "head"
      <4>1. saved'[p] = saved[p] /\ conn'[p] = conn[p] /\ ~KRegister(p)
        BY <2>1, <2>4, <3>1 DEF Kinds, KRegister, KRegistered, KFirst, KWander, KStart, KInfo,
           KReady, KGo, KEnds, KAsk, KGranted, Stays
      <4>2. cPc[p] = "head" \/ (cPc[p] = "ack" /\ after[p] = "head")
        BY <1>1, <2>4, <4>1 DEF PlaceInv
      <4>3. KWander(p)
        BY <2>1, <2>4, <3>1, <4>1, <4>2 DEF Kinds, KRegister, KRegistered, KFirst, KStart,
           KInfo, KReady, KGo, KEnds, KAsk, KGranted, Stays
      <4>. QED
        BY <2>4, <3>1, <4>1, <4>2, <4>3 DEF KWander
    <3>. QED
      BY <3>1
  <2>5. ASSUME Engaged(p)' PROVE \A s \in Roles : conn'[p] <= conn'[s]
    <3>1. Reached(conn[p]) /\ conn'[p] = conn[p]
      <4>1. CASE KStart(p)
        <5>1. \A s \in Roles : conn[s] \in 0 .. NumConns
          BY CalmFacts DEF TypeOK, ClientTypeOK
        <5>. QED
          BY <4>1, <5>1, ConstantFacts DEF KStart, Reached
      <4>2. CASE KInfo(p)
        BY <1>1, <4>2 DEF KInfo, Stays, Brings, Of, Info, ServedInTurn
      <4>3. CASE KReady(p) \/ KGo(p)
        BY <1>1, <4>3 DEF KReady, KGo, Stays, PlaceInv, Engaged
      <4>. QED
        BY <2>2, <2>5, <4>1, <4>2, <4>3
    <3>. DEFINE n == conn[p]
    <3>2. n \in Int /\ Reached(n)
      BY <1>1, <3>1
    <3>. HIDE DEF n
    <3>3. \A s \in Roles : n <= conn'[s]
      BY <3>2, ReachedKept DEF Reached
    <3>. QED
      BY <3>1, <3>3 DEF n
  <2>. QED
    BY <1>3, <2>1, <2>2, <2>3, <2>4, <2>5 DEF PlaceInv, Reached
<1>. QED
  BY <1>2, <1>3

LEMMA ClientStart ==
  ASSUME Leading, NEW p \in Roles, LeadStep(p), Calm'
  PROVE  StartInv'
<1>1. /\ StartInv /\ Kinds(p)
      /\ Lines(toServer[p]) \subseteq Lines(toServer'[p])
      /\ \A T : Free(toClient[p], T) => Free(toClient'[p], T)
      /\ cPc[p] # "failed" /\ Free(toServer[p], Request) => Free(toServer'[p], Request)
  BY CalmFacts, ClientView
<1>2. /\ UNCHANGED <<coPc, coConn, granted, retryNew, probed>>
  BY DEF LeadStep
<1>3. ASSUME NEW r \in Roles, Probed(r)' PROVE Probed(r)
  <2>1. CASE r # p
    BY <1>3, <2>1, PeerFrame DEF SameClient, Probed
  <2>2. CASE r = p
    <3>1. Free(toServer[p], Probes)
      BY <1>1, <1>3, <2>2 DEF Probed, Free
    <3>2. ~KRegister(p) /\ ~KRegistered(p)
      BY <1>3, <2>2 DEF Probed, KRegister, KRegistered
    <3>3. cPc[p] \notin {"register", "registered"}
      BY <1>1, <3>2 DEF Kinds, KFirst, KWander, KStart, KInfo, KReady, KGo, KEnds, KAsk,
         KGranted
    <3>. QED
      BY <2>2, <3>1, <3>3 DEF Probed
  <2>. QED
    BY <2>1, <2>2
<1>4. ASSUME ~Begun, NEW r \in Roles PROVE Fresh(r)'
  <2>1. Fresh(r) /\ Fresh(p)
    BY <1>1, <1>4 DEF StartInv, Unbegun
  <2>2. CASE r # p
    BY <2>1, <2>2, PeerFrame DEF SameClient, Fresh
  <2>3. CASE r = p
    <3>1. ~Brings(toClient[p], Info, conn[p])
      BY <2>1, OfFree DEF Fresh, Brings
    <3>2. ~Quiet
      BY <1>4, QuietFacts
    <3>3. /\ cPc'[p] \in Early /\ (cPc'[p] = "ack" => after'[p] = "head")
          /\ saved'[p] = NoPort
      BY <1>1, <2>1, <3>1, <3>2 DEF Fresh, Early, Kinds, KRegister, KRegistered, KFirst, KWander,
         KStart, KInfo, KReady, KGo, KEnds, KAsk, KGranted, Stays
    <3>4. cPc[p] # "failed"
      BY <2>1 DEF Fresh, Early
    <3>. QED
      BY <1>1, <2>1, <2>3, <3>3, <3>4 DEF Fresh
  <2>. QED
    BY <2>2, <2>3
<1>5. Begun' <=> Begun
  BY <1>2 DEF Begun
<1>6. ~Begun => Unbegun'
  BY <1>1, <1>2, <1>4 DEF StartInv, Unbegun
<1>7. /\ \A r \in Roles : Probed(r)' => r \in probed'
      /\ (\A r \in Roles : Probed(r)') => Begun
  BY <1>1, <1>2, <1>3 DEF StartInv
<1>. QED
  BY <1>1, <1>2, <1>5, <1>6, <1>7 DEF StartInv

LEMMA ClientLead ==
  ASSUME Leading, NEW p \in Roles, LeadStep(p), Calm'
  PROVE  CalmInv'
<1>1. \A n \in granted' : mapped'[n] # Roles
  BY CalmFacts DEF LeadStep
<1>2. StartInv'
  BY ClientStart
<1>3. ASSUME NEW r \in Roles
      PROVE  PlaceInv(r)' /\ ReadyInv(r)' /\ GoInv(r)' /\ OwedInv(r)' /\ ServedInv(r)'
  BY ClientPlace, ClientReadyInv, ClientGoInv, ClientOwed, ClientServed
<1>. QED
  BY <1>1, <1>2, <1>3 DEF CalmInv

(***************************************************************************)
(* The steps of the relay: what stays when they leave alone what it is     *)
(* about.                                                                  *)
(***************************************************************************)

\* A step of the relay.
ServeStep == SStep /\ (Server \/ Quiet) /\ UNCHANGED client

\* The step neither reads nor writes lines of these types.
Heeds(T) == \A r \in Roles :
  /\ Of(toServer'[r], T) = Of(toServer[r], T)
  /\ Sole(toServer[r], T) => Sole(toServer'[r], T)
Spares(T) == \A r \in Roles :
  /\ AlsoTold(r, T)
  /\ Sole(toClient[r], T) => Sole(toClient'[r], T)

LEMMA ServeReads ==
  ASSUME TypeOK, NEW q \in Roles, NEW t, Reads(q, t)
  PROVE  /\ \A T : t \notin T => Heeds(T)
         /\ \A r \in Roles \ {q} : toServer'[r] = toServer[r]
         /\ \A T : t \in T /\ Sole(toServer[q], T) =>
              /\ Of(toServer[q], T) = {Head(toServer[q])} /\ Of(toServer'[q], T) = {}
              /\ Sole(toServer'[q], T)
         /\ Head(toServer[q]) \in Msg /\ Head(toServer[q]).type = t
         /\ Head(toServer[q]) \in Lines(toServer[q])
<1>1. toServer \in [Roles -> Seq(Msg)]
  BY DEF TypeOK, LinkTypeOK
<1>2. /\ toServer[q] # <<>> /\ Head(toServer[q]).type = t
      /\ toServer' = [toServer EXCEPT ![q] = Tail(toServer[q])]
  BY DEF Reads, Line, TakeLine
<1>3. toServer'[q] = Tail(toServer[q]) /\ \A r \in Roles \ {q} : toServer'[r] = toServer[r]
  BY <1>1, <1>2
<1>4. ASSUME NEW T, t \notin T PROVE Heeds(T)
  <2>1. /\ Of(toServer'[q], T) = Of(toServer[q], T)
        /\ Sole(toServer[q], T) => Sole(toServer'[q], T)
    BY <1>1, <1>2, <1>3, <1>4, OfTail
  <2>. QED
    BY <1>3, <2>1 DEF Heeds
<1>5. ASSUME NEW T, t \in T, Sole(toServer[q], T)
      PROVE  /\ Of(toServer[q], T) = {Head(toServer[q])} /\ Of(toServer'[q], T) = {}
             /\ Sole(toServer'[q], T)
  BY <1>1, <1>2, <1>3, <1>5, OfTail
<1>6. Head(toServer[q]) \in Msg /\ Head(toServer[q]) \in Lines(toServer[q])
  BY <1>1, <1>2, HeadLine
<1>. QED
  BY <1>2, <1>3, <1>4, <1>5, <1>6

LEMMA NoReading ==
  ASSUME toServer' = toServer, NEW T
  PROVE  Heeds(T)
BY DEF Heeds

LEMMA NoTelling ==
  ASSUME toClient' = toClient, NEW T
  PROVE  Spares(T)
BY DEF Spares, AlsoTold

LEMMA ServeTells ==
  ASSUME TypeOK, cut = {}, NEW q \in Roles, NEW m \in Msg, Tell(q, m)
  PROVE  /\ toClient'[q] = Append(toClient[q], m)
         /\ \A r \in Roles \ {q} : toClient'[r] = toClient[r]
         /\ \A T : m.type \notin T => Spares(T)
<1>1. toClient \in [Roles -> Seq(Msg)]
  BY DEF TypeOK, LinkTypeOK
<1>2. toClient' = [toClient EXCEPT ![q] = Append(toClient[q], m)]
  BY DEF Tell, Written
<1>3. /\ toClient'[q] = Append(toClient[q], m)
      /\ \A r \in Roles \ {q} : toClient'[r] = toClient[r]
  BY <1>1, <1>2
<1>4. ASSUME NEW T, m.type \notin T PROVE Spares(T)
  <2>1. /\ Of(toClient'[q], T) = Of(toClient[q], T)
        /\ Sole(toClient[q], T) => Sole(toClient'[q], T)
    BY <1>1, <1>3, <1>4, OfAppend
  <2>. QED
    BY <1>3, <2>1 DEF Spares, AlsoTold
<1>. QED
  BY <1>3, <1>4

LEMMA ServeTellsBoth ==
  ASSUME TypeOK, cut = {}, NEW m, \A r \in Roles : m[r] \in Msg, TellBoth(m)
  PROVE  /\ \A r \in Roles : toClient'[r] = Append(toClient[r], m[r])
         /\ \A T : (\A r \in Roles : m[r].type \notin T) => Spares(T)
<1>1. toClient \in [Roles -> Seq(Msg)]
  BY DEF TypeOK, LinkTypeOK
<1>2. \A r \in Roles : toClient'[r] = Append(toClient[r], m[r])
  BY DEF TellBoth
<1>3. ASSUME NEW T, \A r \in Roles : m[r].type \notin T PROVE Spares(T)
  <2>1. SUFFICES ASSUME NEW r \in Roles
                 PROVE  AlsoTold(r, T) /\ (Sole(toClient[r], T) => Sole(toClient'[r], T))
    BY DEF Spares
  <2>. DEFINE x == m[r]
  <2>2. /\ toClient[r] \in Seq(Msg) /\ x \in Msg /\ x.type \notin T
        /\ toClient'[r] = Append(toClient[r], x)
    BY <1>1, <1>2, <1>3
  <2>. HIDE DEF x
  <2>. QED
    BY <2>2, OfAppend DEF AlsoTold
<1>. QED
  BY <1>2, <1>3

LEMMA SparesFree ==
  ASSUME NEW T, Spares(T), NEW r \in Roles
  PROVE  /\ Free(toClient'[r], T) <=> Free(toClient[r], T)
         /\ Of(toClient'[r], T) = Of(toClient[r], T)
         /\ \A n : Brings(toClient'[r], T, n) <=> Brings(toClient[r], T, n)
BY OfFree DEF Spares, AlsoTold, Brings

LEMMA HeedsFree ==
  ASSUME NEW T, Heeds(T), NEW r \in Roles
  PROVE  /\ Free(toServer'[r], T) <=> Free(toServer[r], T)
         /\ Of(toServer'[r], T) = Of(toServer[r], T)
         /\ \A n : Brings(toServer'[r], T, n) <=> Brings(toServer[r], T, n)
BY OfFree DEF Heeds, Brings

LEMMA ReadyGoKept ==
  ASSUME Leading, UNCHANGED client, Heeds(Ready), Spares(Go), Spares(Grant), ready' = ready,
         NEW r \in Roles
  PROVE  ReadyInv(r)' /\ GoInv(r)'
<1>1. Other(r) \in Roles /\ ReadyInv(r) /\ GoInv(r)
  BY ConstantFacts, CalmFacts
<1>2. \A s \in Roles :
        /\ Free(toClient'[s], Go) <=> Free(toClient[s], Go)
        /\ Of(toClient'[s], Go) = Of(toClient[s], Go)
        /\ Free(toClient'[s], Grant) <=> Free(toClient[s], Grant)
        /\ Of(toServer'[s], Ready) = Of(toServer[s], Ready)
  BY SparesFree, HeedsFree
<1>3. Sole(toServer'[r], Ready) /\ Sole(toClient'[r], Go)
  BY <1>1 DEF ReadyInv, GoInv, Heeds, Spares
<1>4. \A s \in Roles : Asking(s)' <=> Asking(s)
  BY <1>2 DEF Asking
<1>5. cPc' = cPc /\ conn' = conn
  OBVIOUS
<1>6. ReadyInv(r)'
  <2>1. \A x \in Of(toServer'[r], Ready) :
          At(r, x.conn)' /\ x.conn \notin ready'[r] /\ Free(toClient'[r], Go)
    BY <1>1, <1>2, <1>5 DEF ReadyInv, At
  <2>2. \A n \in ready'[r] :
          \/ At(r, n)' /\ Free(toClient'[r], Go)
          \/ Gone(r, n)' /\ Gone(Other(r), n)' /\ n \notin ready'[Other(r)]
    BY <1>1, <1>2, <1>4, <1>5 DEF ReadyInv, At, Gone
  <2>. QED
    BY <1>3, <2>1, <2>2 DEF ReadyInv
<1>7. GoInv(r)'
  BY <1>1, <1>2, <1>3, <1>4, <1>5 DEF GoInv, At, Heard, Brings, Past, Gone
<1>. QED
  BY <1>6, <1>7

\* As long as nothing has begun nobody is led.
LEMMA OwedKept ==
  ASSUME Leading, UNCHANGED client, Spares(Info), \A n : Retried(n) => Retried(n)',
         Begun => \A r \in Roles : Coming(r) => Coming(r)', NEW r \in Roles
  PROVE  OwedInv(r)'
<1>. DEFINE q == Other(r)
<1>1. q \in Roles /\ OwedInv(r) /\ StartInv
  BY ConstantFacts, CalmFacts
<1>2. \A s \in Roles : HasInfo(s)' <=> HasInfo(s)
  BY SparesFree DEF HasInfo
<1>3. Retried(conn[r]) => Retried(conn[r])'
  <2>. DEFINE n == conn[r]
  <2>1. Retried(n) => n \in granted' \/ (n \in Conns /\ retryNew'[n] > 0)
    BY DEF Retried
  <2>. QED
    BY <2>1 DEF Retried
<1>4. Led(r, q) => Begun
  <2>1. SUFFICES ASSUME Led(r, q), Unbegun PROVE FALSE
    BY <1>1 DEF StartInv
  <2>2. Fresh(q)
    BY <1>1, <2>1 DEF Unbegun
  <2>. QED
    BY <2>1, <2>2, OfFree DEF Led, Engaged, HasInfo, Brings, Fresh, Early
<1>. QED
  BY <1>1, <1>2, <1>3, <1>4 DEF OwedInv, Wanting, Led, Engaged, Owed

LEMMA ServedKept ==
  ASSUME Leading, UNCHANGED client, Spares(Info), Spares(Go),
         \A n : Arranged(n) => Arranged(n)', NEW r \in Roles
  PROVE  ServedInv(r)'
<1>1. Other(r) \in Roles /\ ServedInv(r)
  BY ConstantFacts, CalmFacts
<1>2. \A s \in Roles : (HasInfo(s)' <=> HasInfo(s))
                       /\ (Free(toClient'[s], Go) <=> Free(toClient[s], Go))
  BY SparesFree DEF HasInfo
<1>3. \A s \in Roles : Served(s)' <=> Served(s)
  BY <1>2 DEF Served, Wanting
<1>4. Arranged(conn[r]) => Arranged(conn[r])'
  <2>. DEFINE n == conn[r]
  <2>1. Arranged(n) => \/ \E k \in Coordinators : coPc'[k] = "ready" /\ coConn'[k] = n
                       \/ n \in Conns /\ retryWait'[n] > 0
                       \/ n \in granted' \/ (n \in Conns /\ retryNew'[n] > 0)
    BY DEF Arranged, Retried
  <2>. QED
    BY <2>1 DEF Arranged, Retried
<1>. QED
  BY <1>1, <1>3, <1>4 DEF ServedInv

LEMMA PlaceKept ==
  ASSUME Leading, UNCHANGED client, NEW r \in Roles, Heeds(Added), Spares(Ack),
         Unheard(r) => Unheard(r)' \/ toClient'[r] # <<>>,
         toClient[r] # <<>> => toClient'[r] # <<>>
  PROVE  PlaceInv(r)'
<1>1. PlaceInv(r)
  BY CalmFacts
<1>2. /\ Free(toServer'[r], Added) <=> Free(toServer[r], Added)
      /\ Free(toClient'[r], Ack) <=> Free(toClient[r], Ack)
      /\ Of(toClient'[r], Ack) = Of(toClient[r], Ack)
  BY SparesFree, HeedsFree
<1>. QED
  BY <1>1, <1>2 DEF PlaceInv, Engaged, Reached

LEMMA StartKept ==
  ASSUME Leading, UNCHANGED client, Heeds(Probes), probed \subseteq probed', probed' \subseteq Roles,
         Begun => Begun',
         \A k \in Coordinators : coPc'[k] \in {"unused", "start"} => coConn'[k] = 0,
         \/ Begun
         \/ /\ UNCHANGED <<granted, retryNew, coPc>>
            /\ Heeds(Request) /\ Spares(Info) /\ Spares(Replies)
  PROVE  StartInv'
<1>1. StartInv
  BY CalmFacts
<1>2. \A r \in Roles : Probed(r)' <=> Probed(r)
  BY HeedsFree DEF Probed
<1>3. CASE Begun
  BY <1>1, <1>2, <1>3 DEF StartInv
<1>4. CASE ~Begun
  <2>1. /\ UNCHANGED <<granted, retryNew, coPc>>
        /\ Heeds(Request) /\ Spares(Info) /\ Spares(Replies)
    BY <1>4
  <2>2. \A r \in Roles : Fresh(r)' <=> Fresh(r)
    BY <2>1, HeedsFree, SparesFree DEF Fresh
  <2>3. Unbegun' /\ ~Begun'
    BY <1>1, <1>4, <2>1, <2>2 DEF StartInv, Unbegun, Begun
  <2>. QED
    BY <1>1, <1>2, <1>4, <2>3 DEF StartInv
<1>. QED
  BY <1>3, <1>4

\* A task told both clients of connection n.
LEMMA InfoSent ==
  ASSUME Leading, UNCHANGED client, NEW n, NEW m,
         \A r \in Roles : m[r] \in Msg /\ m[r].type = "peer_info" /\ m[r].conn = n,
         \A r \in Roles : toClient'[r] = Append(toClient[r], m[r]),
         Arranged(n)',
         \A i : i # n => (Retried(i) => Retried(i)') /\ (Arranged(i) => Arranged(i)'),
         \A r \in Roles : conn[r] # n /\ Coming(r) => Coming(r)', NEW r \in Roles
  PROVE  OwedInv(r)' /\ ServedInv(r)'
<1>. DEFINE q == Other(r)
            i == conn[r]
<1>1. q \in Roles /\ OwedInv(r) /\ ServedInv(r) /\ toClient \in [Roles -> Seq(Msg)]
  BY ConstantFacts, CalmFacts DEF TypeOK, LinkTypeOK
<1>2. ASSUME NEW s \in Roles
      PROVE  /\ \A j : Brings(toClient'[s], Info, j) <=> (Brings(toClient[s], Info, j) \/ j = n)
             /\ Of(toClient'[s], Go) = Of(toClient[s], Go)
  <2>. DEFINE x == m[s]
  <2>1. /\ toClient[s] \in Seq(Msg) /\ x \in Msg /\ x.type = "peer_info" /\ x.conn = n
        /\ toClient'[s] = Append(toClient[s], x)
    BY <1>1
  <2>. HIDE DEF x
  <2>2. x.type \in Info /\ x.type \notin Go
    BY <2>1 DEF Info, Go
  <2>3. /\ Of(toClient'[s], Info) = Of(toClient[s], Info) \cup {x}
        /\ Of(toClient'[s], Go) = Of(toClient[s], Go)
    BY <2>1, <2>2, OfAppend
  <2>. QED
    BY <2>1, <2>3 DEF Brings
<1>3. \A s \in Roles : HasInfo(s)' <=> (HasInfo(s) \/ conn[s] = n)
  BY <1>2 DEF HasInfo
<1>4. \A s \in Roles : Free(toClient'[s], Go) <=> Free(toClient[s], Go)
  BY <1>2, OfFree
<1>5. CASE conn[r] = n
  <2>1. HasInfo(r)'
    BY <1>3, <1>5
  <2>2. Arranged(conn[r])'
    BY <1>5 DEF Arranged, Retried
  <2>. QED
    BY <2>1, <2>2 DEF OwedInv, Owed, ServedInv
<1>6. CASE conn[r] # n
  <2>1. conn[q] = conn[r] => \A s \in {r, q} : (HasInfo(s)' <=> HasInfo(s))
                                             /\ (Served(s)' <=> Served(s))
    BY <1>1, <1>3, <1>4, <1>6 DEF Served, Wanting
  <2>2. (Retried(i) => Retried(i)') /\ (Arranged(i) => Arranged(i)')
    <3>1. \A j : j = i => (Retried(j) => Retried(j)') /\ (Arranged(j) => Arranged(j)')
      BY <1>6
    <3>. QED
      BY <3>1 DEF Retried, Arranged
  <2>3. OwedInv(r)'
    BY <1>1, <1>3, <1>6, <2>1, <2>2 DEF OwedInv, Wanting, Led, Engaged, Owed
  <2>4. ServedInv(r)'
    BY <1>1, <2>1, <2>2 DEF ServedInv
  <2>. QED
    BY <2>3, <2>4
<1>. QED
  BY <1>5, <1>6

(***************************************************************************)
(* The steps of the relay, one by one.                                     *)
(***************************************************************************)

LEMMA ServeFacts ==
  ASSUME Leading, ServeStep, Calm'
  PROVE  /\ TypeOK /\ cut = {} /\ cut' = {} /\ UNCHANGED client /\ SStep
         /\ probed \in SUBSET Roles /\ ready \in [Roles -> SUBSET Conns]
         /\ toClient \in [Roles -> Seq(Msg)] /\ toServer \in [Roles -> Seq(Msg)]
         /\ coPc \in [Coordinators -> CoStates] /\ coConn \in [Coordinators -> Conns]
         /\ retryNew \in [Conns -> Nat] /\ retryWait \in [Conns -> Nat]
         /\ mapped \in [Conns -> SUBSET Roles] /\ granted \subseteq Conns
         /\ \A k \in Coordinators : coPc[k] \in {"unused", "start"} => coConn[k] = 0
BY CalmFacts DEF ServeStep, Calm, TypeOK, LinkTypeOK, ServerTypeOK, StartInv

\* The relay's tasks, as far as they matter here, are as they were.
Idle == UNCHANGED <<granted, mapped, retryNew, retryWait, coPc, coConn>>

LEMMA IdleKept ==
  ASSUME Idle, UNCHANGED client
  PROVE  /\ \A n : (Retried(n) => Retried(n)') /\ (Arranged(n) => Arranged(n)')
         /\ Heeds(Probes) => \A r \in Roles : Coming(r) => Coming(r)'
         /\ Begun' <=> Begun
<1>1. \A n : (Retried(n) => Retried(n)') /\ (Arranged(n) => Arranged(n)')
  BY DEF Idle, Retried, Arranged
<1>2. ASSUME Heeds(Probes), NEW r \in Roles, Coming(r) PROVE Coming(r)'
  BY <1>2, HeedsFree DEF Idle, Coming
<1>3. Begun' <=> Begun
  BY DEF Idle, Begun
<1>. QED
  BY <1>1, <1>2, <1>3

\* Lines that change nothing of this.
LEMMA ServePlain ==
  ASSUME Leading, ServeStep, Calm', Idle, ready' = ready,
         Heeds(Ready), Heeds(Probes), Heeds(Added),
         Spares(Go), Spares(Grant), Spares(Info), Spares(Ack),
         probed \subseteq probed', probed' \subseteq Roles,
         Begun \/ (Heeds(Request) /\ Spares(Replies)),
         \A r \in Roles : Unheard(r) => Unheard(r)' \/ toClient'[r] # <<>>,
         \A r \in Roles : toClient[r] # <<>> => toClient'[r] # <<>>
  PROVE  CalmInv'
<1>1. /\ UNCHANGED client
      /\ \A k \in Coordinators : coPc[k] \in {"unused", "start"} => coConn[k] = 0
      /\ \A n \in granted : mapped[n] # Roles
  BY ServeFacts, CalmFacts
<1>2. /\ \A n : (Retried(n) => Retried(n)') /\ (Arranged(n) => Arranged(n)')
      /\ \A r \in Roles : Coming(r) => Coming(r)'
      /\ Begun => Begun'
  BY <1>1, IdleKept
<1>3. /\ \A k \in Coordinators : coPc'[k] \in {"unused", "start"} => coConn'[k] = 0
      /\ \A n \in granted' : mapped'[n] # Roles
      /\ UNCHANGED <<granted, retryNew, coPc>>
  BY <1>1 DEF Idle
<1>4. StartInv'
  BY <1>1, <1>2, <1>3, StartKept
<1>5. ASSUME NEW r \in Roles
      PROVE  PlaceInv(r)' /\ ReadyInv(r)' /\ GoInv(r)' /\ OwedInv(r)' /\ ServedInv(r)'
  <2>1. PlaceInv(r)'
    BY <1>1, PlaceKept
  <2>2. ReadyInv(r)' /\ GoInv(r)'
    BY <1>1, ReadyGoKept
  <2>3. OwedInv(r)'
    BY <1>1, <1>2, OwedKept
  <2>4. ServedInv(r)'
    BY <1>1, <1>2, ServedKept
  <2>. QED
    BY <2>1, <2>2, <2>3, <2>4
<1>. QED
  BY <1>3, <1>4, <1>5 DEF CalmInv

\* A channel does not get shorter, nor is a registration read without an answer.
LEMMA Grown ==
  ASSUME TypeOK, NEW r \in Roles, NEW m \in Msg
  PROVE  Append(toClient[r], m) # <<>>
<1>. DEFINE s == toClient[r]
<1>1. s \in Seq(Msg)
  BY DEF TypeOK, LinkTypeOK
<1>. HIDE DEF s
<1>2. Len(Append(s, m)) = Len(s) + 1 /\ Len(s) \in Nat /\ Append(s, m) \in Seq(Msg)
  BY <1>1, AppendProperties, LenProperties
<1>. QED
  BY <1>2, EmptySeq DEF s

LEMMA ServeRegister ==
  ASSUME Leading, ServeStep, Calm', NEW q \in Roles, SRegister(q)
  PROVE  CalmInv'
<1>. DEFINE m == Bare("registered")
<1>1. /\ Reads(q, "register") /\ Tell(q, m) /\ m \in Msg /\ m.type = "registered"
      /\ probed' = IF q \in probing THEN probed ELSE probed \cup {q}
      /\ UNCHANGED <<ready, granted, mapped, retryNew, retryWait, coPc, coConn>>
  BY MsgFacts DEF SRegister
<1>. HIDE DEF m
<1>2. /\ TypeOK /\ cut = {} /\ probed \in SUBSET Roles
  BY ServeFacts
<1>3. /\ Heeds(Ready) /\ Heeds(Probes) /\ Heeds(Added) /\ Heeds(Request)
      /\ \A r \in Roles \ {q} : toServer'[r] = toServer[r]
  BY <1>1, <1>2, ServeReads DEF Ready, Probes, Added, Request
<1>4. /\ Spares(Go) /\ Spares(Grant) /\ Spares(Info) /\ Spares(Ack) /\ Spares(Replies)
      /\ \A r \in Roles \ {q} : toClient'[r] = toClient[r]
      /\ toClient'[q] = Append(toClient[q], m)
  BY <1>1, <1>2, ServeTells DEF Go, Grant, Info, Ack, Replies
<1>5. toClient'[q] # <<>>
  BY <1>1, <1>2, <1>4, Grown
<1>6. cPc' = cPc
  BY ServeFacts
<1>7. \A r \in Roles : Unheard(r) => Unheard(r)' \/ toClient'[r] # <<>>
  BY <1>3, <1>5, <1>6 DEF Unheard
<1>8. \A r \in Roles : toClient[r] # <<>> => toClient'[r] # <<>>
  BY <1>4, <1>5
<1>9. Idle /\ ready' = ready /\ probed \subseteq probed' /\ probed' \subseteq Roles
  BY <1>1, <1>2 DEF Idle
<1>. QED
  BY <1>3, <1>4, <1>7, <1>8, <1>9, ServePlain

LEMMA ServeResult ==
  ASSUME Leading, ServeStep, Calm', NEW q \in Roles,
         SConnResult(q, "established") \/ SConnResult(q, "abandoned")
  PROVE  CalmInv'
<1>1. /\ TypeOK /\ probed \in SUBSET Roles /\ cPc' = cPc
      /\ UNCHANGED <<toClient, ready, probed, granted, mapped, retryNew, retryWait, coPc, coConn>>
  BY ServeFacts DEF SConnResult
<1>2. PICK t \in {"conn_established", "conn_abandoned"} : Reads(q, t)
  BY DEF SConnResult, ResultLine
<1>3. Heeds(Ready) /\ Heeds(Probes) /\ Heeds(Added) /\ Heeds(Request) /\ Heeds(Registration)
  BY <1>1, <1>2, ServeReads DEF Ready, Probes, Added, Request, Registration
<1>4. \A T : Spares(T)
  BY <1>1, NoTelling
<1>5. \A r \in Roles : Unheard(r) => Unheard(r)'
  BY <1>1, <1>3, HeedsFree DEF Unheard
<1>. QED
  BY <1>1, <1>3, <1>4, <1>5, ServePlain DEF Idle

\* Only a session that has begun has requests.
LEMMA RequestBegun ==
  ASSUME Leading, NEW r \in Roles, ~Free(toServer[r], Request) \/ asked[r] # {}
  PROVE  Begun /\ member = Roles
<1>1. Begun
  <2>1. SUFFICES ASSUME ~Begun PROVE FALSE
    OBVIOUS
  <2>2. Unbegun /\ Fresh(r)
    BY <2>1, CalmFacts DEF StartInv, Unbegun
  <2>3. asked[r] # {} /\ cPc[r] \in Early \cup {"register"}
    BY <2>2 DEF Fresh
  <2>4. cPc[r] # "retry"
    BY <2>3 DEF Early
  <2>5. r \in member
    BY <2>3, CalmFacts DEF NotHeard
  <2>6. CASE member = Roles
    BY <2>3, <2>4, <2>6, CalmFacts DEF Retrying
  <2>7. CASE member # Roles
    <3>1. Other(r) \notin member
      <4>1. member \subseteq Roles
        BY CalmFacts DEF TypeOK, ServerTypeOK
      <4>2. PICK s \in Roles : s \notin member
        BY <2>7, <4>1
      <4>3. s = Other(r)
        BY <2>5, <4>2, ConstantFacts
      <4>. QED
        BY <4>2, <4>3
    <3>2. Unheard(Other(r)) /\ Alone(r)
      BY <2>5, <3>1, CalmFacts, ConstantFacts DEF InStep
    <3>. QED
      BY <2>3, <3>2 DEF Alone
  <2>. QED
    BY <2>6, <2>7
<1>. QED
  BY <1>1, BegunFacts

LEMMA ServeTimer ==
  ASSUME Leading, ServeStep, Calm', NEW n \in Conns, SRetryTimer(n)
  PROVE  CalmInv'
<1>. DEFINE m == OfConn("retry_rejected", n)
<1>1. PICK q \in Roles : n \in asked[q] /\ Tell(q, m)
  BY DEF SRetryTimer
<1>2. /\ m \in Msg /\ m.type = "retry_rejected"
      /\ UNCHANGED <<toServer, ready, probed, granted, mapped, retryNew, retryWait, coPc, coConn>>
  BY MsgFacts DEF SRetryTimer
<1>. HIDE DEF m
<1>3. TypeOK /\ cut = {} /\ probed \in SUBSET Roles /\ cPc' = cPc
  BY ServeFacts
<1>4. \A T : Heeds(T)
  BY <1>2, NoReading
<1>5. /\ Spares(Go) /\ Spares(Grant) /\ Spares(Info) /\ Spares(Ack)
      /\ \A r \in Roles \ {q} : toClient'[r] = toClient[r]
      /\ toClient'[q] = Append(toClient[q], m)
  BY <1>1, <1>2, <1>3, ServeTells DEF Go, Grant, Info, Ack
<1>6. \A r \in Roles : toClient[r] # <<>> => toClient'[r] # <<>>
  BY <1>2, <1>3, <1>5, Grown
<1>7. Begun
  BY <1>1, RequestBegun
<1>8. \A r \in Roles : Unheard(r) => Unheard(r)'
  BY <1>2, <1>3 DEF Unheard
<1>. QED
  BY <1>2, <1>3, <1>4, <1>5, <1>6, <1>7, <1>8, ServePlain DEF Idle

LEMMA ServeProbes ==
  ASSUME Leading, ServeStep, Calm', NEW q \in Roles, SProbesComplete(q)
  PROVE  CalmInv'
<1>1. /\ TypeOK /\ probed \in SUBSET Roles /\ UNCHANGED client
      /\ coPc \in [Coordinators -> CoStates]
      /\ \A k \in Coordinators : coPc[k] \in {"unused", "start"} => coConn[k] = 0
      /\ StartInv /\ \A n \in granted : mapped[n] # Roles
      /\ coConn \in [Coordinators -> Conns]
  BY ServeFacts, CalmFacts
<1>2. /\ Reads(q, "probes_complete") /\ probed' = probed \cup {q}
      /\ UNCHANGED <<toClient, ready, granted, mapped, retryNew, retryWait, coConn>>
  BY DEF SProbesComplete
<1>3. /\ Heeds(Ready) /\ Heeds(Added) /\ Heeds(Request) /\ Heeds(Registration)
      /\ \A r \in Roles \ {q} : toServer'[r] = toServer[r]
  BY <1>1, <1>2, ServeReads DEF Ready, Added, Request, Registration
<1>4. \A T : Spares(T)
  BY <1>2, NoTelling
<1>5. \/ member = Roles /\ probed' = Roles
         /\ \E k \in Coordinators : coPc[k] = "unused" /\ coPc' = [coPc EXCEPT ![k] = "start"]
      \/ ~(member = Roles /\ probed' = Roles) /\ coPc' = coPc
  BY DEF SProbesComplete
<1>6. /\ \A k \in Coordinators : \/ coPc'[k] = coPc[k]
                                 \/ coPc[k] = "unused" /\ coPc'[k] = "start"
      /\ Begun => Begun'
      /\ \A k \in Coordinators : coPc'[k] \in {"unused", "start"} => coConn'[k] = 0
  BY <1>1, <1>2, <1>5 DEF Begun
<1>7. /\ \A n : Retried(n) => Retried(n)'
      /\ \A n : Arranged(n) => Arranged(n)'
  BY <1>2, <1>6 DEF Retried, Arranged
<1>8. Begun => \E k \in Coordinators : coPc'[k] = "start" /\ coConn'[k] = 0
  <2>1. Begun => member = Roles /\ probed = Roles
    BY <1>1, BegunFacts DEF StartInv
  <2>2. Begun => \E k \in Coordinators : coPc[k] = "unused" /\ coPc' = [coPc EXCEPT ![k] = "start"]
    BY <1>2, <1>5, <2>1
  <2>. QED
    BY <1>1, <1>2, <2>2
<1>9. Begun => \A r \in Roles : Coming(r) => Coming(r)'
  BY <1>1, <1>8 DEF Coming
<1>10. StartInv'
  <2>1. \A r \in Roles \ {q} : Probed(r)' <=> Probed(r)
    BY <1>1, <1>3 DEF Probed
  <2>2. \A r \in Roles : Probed(r)' => r \in probed'
    BY <1>1, <1>2, <2>1 DEF StartInv
  <2>3. Begun' => probed' = Roles
    <3>1. Begun' => Begun \/ coPc' # coPc
      BY DEF Begun
    <3>2. Begun => probed' = Roles
      BY <1>1, <1>2 DEF StartInv
    <3>. QED
      BY <1>5, <3>1, <3>2
  <2>4. ASSUME \A r \in Roles : Probed(r)' PROVE Begun'
    <3>1. probed' = Roles
      BY <1>1, <1>2, <2>2, <2>4
    <3>2. \A r \in Roles : r \in member
      <4>1. \A r \in Roles : cPc[r] \notin {"register", "registered", "err"}
        BY <1>1, <2>4, CalmFacts DEF Probed, PlaceInv
      <4>. QED
        BY <4>1, CalmFacts DEF NotHeard
    <3>3. member = Roles
      BY <3>2, CalmFacts DEF TypeOK, ServerTypeOK
    <3>. QED
      BY <1>1, <1>5, <3>1, <3>3 DEF Begun
  <2>5. Begun' \/ Unbegun'
    <3>1. CASE Begun
      BY <1>6, <3>1
    <3>2. CASE ~Begun
      <4>1. Unbegun
        BY <1>1, <3>2 DEF StartInv
      <4>2. \A r \in Roles : Fresh(r)' <=> Fresh(r)
        BY <1>1, <1>3, <1>4, HeedsFree, SparesFree DEF Fresh
      <4>. QED
        BY <1>2, <4>1, <4>2 DEF Unbegun
    <3>. QED
      BY <3>1, <3>2
  <2>. QED
    BY <1>6, <2>2, <2>3, <2>4, <2>5 DEF StartInv
<1>11. ASSUME NEW r \in Roles
       PROVE  PlaceInv(r)' /\ ReadyInv(r)' /\ GoInv(r)' /\ OwedInv(r)' /\ ServedInv(r)'
  <2>1. PlaceInv(r)'
    <3>1. Unheard(r) => Unheard(r)'
      BY <1>1, <1>3, HeedsFree DEF Unheard
    <3>. QED
      BY <1>1, <1>2, <1>3, <1>4, <3>1, PlaceKept
  <2>2. ReadyInv(r)' /\ GoInv(r)'
    BY <1>1, <1>2, <1>3, <1>4, ReadyGoKept
  <2>3. OwedInv(r)'
    BY <1>1, <1>4, <1>7, <1>9, OwedKept
  <2>4. ServedInv(r)'
    BY <1>1, <1>4, <1>7, ServedKept
  <2>. QED
    BY <2>1, <2>2, <2>3, <2>4
<1>. QED
  BY <1>1, <1>2, <1>10, <1>11 DEF CalmInv

\* The READY that is read was said for the wait that is still on.
LEMMA ServeReady ==
  ASSUME Leading, ServeStep, Calm', NEW q \in Roles, SReady(q)
  PROVE  CalmInv'
<1>. DEFINE x == Head(toServer[q])
            i == x.conn
            o == Other(q)
<1>1. /\ TypeOK /\ probed \in SUBSET Roles /\ UNCHANGED client
      /\ ready \in [Roles -> SUBSET Conns]
      /\ \A k \in Coordinators : coPc[k] \in {"unused", "start"} => coConn[k] = 0
      /\ \A n \in granted : mapped[n] # Roles
      /\ \A r \in Roles : ReadyInv(r) /\ GoInv(r)
  BY ServeFacts, CalmFacts
<1>2. /\ Reads(q, "ready") /\ ready' = [ready EXCEPT ![q] = ready[q] \cup {i}]
      /\ UNCHANGED <<toClient, probed, granted, mapped, retryNew, retryWait, coPc, coConn>>
      /\ Idle
  BY DEF SReady, Idle
<1>3. /\ Heeds(Probes) /\ Heeds(Added) /\ Heeds(Request) /\ Heeds(Registration)
      /\ \A r \in Roles \ {q} : toServer'[r] = toServer[r]
  BY <1>1, <1>2, ServeReads DEF Probes, Added, Request, Registration
<1>4. /\ Of(toServer[q], Ready) = {x} /\ Of(toServer'[q], Ready) = {}
      /\ Sole(toServer'[q], Ready)
  BY <1>1, <1>2, ServeReads DEF Ready, ReadyInv
<1>5. o \in Roles /\ o # q /\ Other(o) = q /\ \A r \in Roles : r = q \/ r = o
  BY ConstantFacts
<1>6. At(q, i) /\ Free(toClient[q], Go)
  BY <1>1, <1>4 DEF ReadyInv
<1>7. ~Gone(q, i)
  <2>1. conn[q] \in Int
    BY <1>1, ConnLines
  <2>. QED
    BY <1>6, <2>1 DEF At, Gone, Asking
<1>8. ready'[q] = ready[q] \cup {i} /\ ready'[o] = ready[o]
  BY <1>1, <1>2, <1>5
<1>. HIDE DEF x, i, o
<1>9. \A T : Spares(T)
  BY <1>2, NoTelling
<1>10. cPc' = cPc /\ conn' = conn /\ toClient' = toClient
  BY <1>1, <1>2
<1>11. ReadyInv(q)'
  <2>1. \A n \in ready'[q] :
          \/ At(q, n)' /\ Free(toClient'[q], Go)
          \/ Gone(q, n)' /\ Gone(o, n)' /\ n \notin ready'[o]
    BY <1>1, <1>6, <1>8, <1>10 DEF ReadyInv, At, Gone, Asking, o
  <2>. QED
    BY <1>4, <2>1 DEF ReadyInv, o
<1>12. ReadyInv(o)'
  <2>1. \A n \in ready'[o] :
          \/ At(o, n)' /\ Free(toClient'[o], Go)
          \/ Gone(o, n)' /\ Gone(q, n)' /\ n \notin ready'[q]
    <3>1. SUFFICES ASSUME NEW n \in ready[o]
                   PROVE  \/ At(o, n)' /\ Free(toClient'[o], Go)
                          \/ Gone(o, n)' /\ Gone(q, n)' /\ n \notin ready'[q]
      BY <1>8
    <3>2. \/ At(o, n) /\ Free(toClient[o], Go)
          \/ Gone(o, n) /\ Gone(q, n) /\ n \notin ready[q]
      BY <1>1, <1>5 DEF ReadyInv
    <3>. QED
      BY <1>7, <1>8, <1>10, <3>2 DEF At, Gone, Asking
  <2>2. /\ Sole(toServer'[o], Ready)
        /\ \A y \in Of(toServer'[o], Ready) :
             At(o, y.conn)' /\ y.conn \notin ready'[o] /\ Free(toClient'[o], Go)
    BY <1>1, <1>3, <1>5, <1>8, <1>10 DEF ReadyInv, At
  <2>. QED
    BY <1>5, <2>1, <2>2 DEF ReadyInv
<1>13. ASSUME NEW r \in Roles PROVE GoInv(r)'
  <2>1. Heard(r, conn[r]) => conn[r] \in ready'[r] \/ Brings(toServer'[r], Ready, conn[r])
    <3>1. CASE r = q
      BY <1>4, <1>8, <3>1 DEF Heard, Brings, i
    <3>2. CASE r = o
      BY <1>3, <1>5, <1>8, <3>2 DEF Heard
    <3>. QED
      BY <1>5, <3>1, <3>2
  <2>2. cPc'[r] = "go" => Heard(r, conn[r])' \/ ~Free(toClient'[r], Go)
    BY <1>1, <1>10, <2>1 DEF GoInv, Heard
  <2>. QED
    BY <1>1, <1>10, <2>2 DEF GoInv, At, Past, Gone, Asking
<1>14. /\ \A n : (Retried(n) => Retried(n)') /\ (Arranged(n) => Arranged(n)')
       /\ \A r \in Roles : Coming(r) => Coming(r)'
       /\ Begun => Begun'
  BY <1>1, <1>2, <1>3, IdleKept
<1>15. StartInv'
  <2>1. \A k \in Coordinators : coPc'[k] \in {"unused", "start"} => coConn'[k] = 0
    BY <1>1, <1>2
  <2>. QED
    BY <1>1, <1>2, <1>3, <1>9, <1>14, <2>1, StartKept
<1>16. ASSUME NEW r \in Roles
       PROVE  PlaceInv(r)' /\ OwedInv(r)' /\ ServedInv(r)'
  <2>1. PlaceInv(r)'
    <3>1. Unheard(r) => Unheard(r)'
      BY <1>3, <1>10, HeedsFree DEF Unheard
    <3>. QED
      BY <1>1, <1>3, <1>9, <1>10, <3>1, PlaceKept
  <2>2. OwedInv(r)'
    BY <1>1, <1>9, <1>14, OwedKept
  <2>3. ServedInv(r)'
    BY <1>1, <1>9, <1>14, ServedKept
  <2>. QED
    BY <2>1, <2>2, <2>3
<1>17. \A r \in Roles : ReadyInv(r)'
  BY <1>5, <1>11, <1>12
<1>. QED
  BY <1>1, <1>2, <1>13, <1>15, <1>16, <1>17 DEF CalmInv

\* A report is answered with its own ports; one that fills a retry's last place leaves it
\* to a task.
LEMMA ServePorts ==
  ASSUME Leading, ServeStep, Calm', NEW q \in Roles, SAddPorts(q)
  PROVE  CalmInv'
<1>. DEFINE x == Head(toServer[q])
            m == OfPorts("ports_added_ack", x.ports)
            o == Other(q)
<1>1. /\ TypeOK /\ probed \in SUBSET Roles /\ UNCHANGED client /\ cut = {}
      /\ retryNew \in [Conns -> Nat] /\ mapped \in [Conns -> SUBSET Roles]
      /\ granted \subseteq Conns
      /\ \A k \in Coordinators : coPc[k] \in {"unused", "start"} => coConn[k] = 0
      /\ \A n \in granted : mapped[n] # Roles
      /\ \A r \in Roles : PlaceInv(r)
      /\ toClient \in [Roles -> Seq(Msg)] /\ toServer \in [Roles -> Seq(Msg)]
      /\ o \in Roles /\ o # q
  BY ServeFacts, CalmFacts, ConstantFacts
<1>2. /\ Reads(q, "add_ports") /\ Tell(q, m)
      /\ UNCHANGED <<ready, probed, retryWait, coPc, coConn>>
      /\ SNewPorts(q) \/ \E n \in Conns : SRetryPort(q, n)
  BY DEF SAddPorts
<1>3. /\ Heeds(Ready) /\ Heeds(Probes) /\ Heeds(Request) /\ Heeds(Registration)
      /\ \A r \in Roles \ {q} : toServer'[r] = toServer[r]
      /\ x \in Msg /\ x.type = "add_ports" /\ x \in Lines(toServer[q])
  BY <1>1, <1>2, ServeReads DEF Ready, Probes, Request, Registration
<1>4. x.ports \in Seq(Ports)
  BY <1>3, MsgFacts
<1>5. m \in Msg /\ m.type = "ports_added_ack" /\ m.ports = x.ports
  BY <1>4, MsgFacts
<1>6. q \in member
  <2>1. SUFFICES ASSUME q \notin member PROVE FALSE
    OBVIOUS
  <2>2. NotHeard(q)
    BY <2>1, CalmFacts
  <2>3. toServer[q] # <<>>
    BY <1>3, NoLine
  <2>4. toServer[q] = <<OfPorts("register", Named(sockets[q]))>>
    BY <2>2, <2>3 DEF NotHeard
  <2>5. x.type = "register"
    BY <2>4 DEF OfPorts
  <2>. QED
    BY <1>3, <2>5
<1>7. Answered(q)
  BY <1>6, CalmFacts DEF InStep
<1>8. /\ x.ports = reported[q] /\ ~Free(toServer[q], Added) /\ Of(toClient[q], Ack) = {}
  <2>1. x.type \in Added
    BY <1>3 DEF Added
  <2>2. ~Free(toServer[q], Added)
    BY <1>3, <2>1 DEF Free
  <2>. QED
    BY <1>3, <1>7, <2>1, <2>2, OfFree DEF Answered
<1>. HIDE DEF m, x, o
<1>9. /\ Spares(Go) /\ Spares(Grant) /\ Spares(Info) /\ Spares(Replies)
      /\ \A r \in Roles \ {q} : toClient'[r] = toClient[r]
      /\ toClient'[q] = Append(toClient[q], m)
  BY <1>1, <1>2, <1>5, ServeTells DEF Go, Grant, Info, Replies
<1>10. Of(toClient'[q], Ack) = {m}
  <2>1. m.type \in Ack
    BY <1>5 DEF Ack
  <2>2. Of(toClient'[q], Ack) = Of(toClient[q], Ack) \cup {m}
    BY <1>1, <1>5, <1>9, <2>1, OfAppend
  <2>. QED
    BY <1>8, <2>2
<1>11. \/ UNCHANGED <<granted, mapped, retryNew>>
       \/ \E n \in granted :
            /\ q \notin mapped[n]
            /\ \/ /\ granted' = granted \ {n} /\ retryNew' = [retryNew EXCEPT ![n] = retryNew[n] + 1]
                  /\ mapped' = [mapped EXCEPT ![n] = {}]
               \/ /\ UNCHANGED <<granted, retryNew>> /\ o \notin mapped[n]
                  /\ mapped' = [mapped EXCEPT ![n] = mapped[n] \cup {q}]
  <2>1. CASE SNewPorts(q)
    BY <2>1 DEF SNewPorts
  <2>2. CASE \E n \in Conns : SRetryPort(q, n)
    BY <2>2 DEF SRetryPort, o
  <2>. QED
    BY <1>2, <2>1, <2>2
<1>12. /\ \A n \in granted' : mapped'[n] # Roles
       /\ \A n \in granted : n \in granted' \/ (n \in Conns /\ retryNew'[n] > 0)
       /\ \A n \in Conns : retryNew[n] > 0 => retryNew'[n] > 0
  <2>1. CASE UNCHANGED <<granted, mapped, retryNew>>
    BY <1>1, <2>1
  <2>2. ASSUME NEW n \in granted, granted' = granted \ {n},
               retryNew' = [retryNew EXCEPT ![n] = retryNew[n] + 1],
               mapped' = [mapped EXCEPT ![n] = {}]
        PROVE  /\ \A i \in granted' : mapped'[i] # Roles
               /\ \A i \in granted : i \in granted' \/ (i \in Conns /\ retryNew'[i] > 0)
               /\ \A i \in Conns : retryNew[i] > 0 => retryNew'[i] > 0
    BY <1>1, <2>2
  <2>3. ASSUME NEW n \in granted, UNCHANGED <<granted, retryNew>>, o \notin mapped[n],
               mapped' = [mapped EXCEPT ![n] = mapped[n] \cup {q}]
        PROVE  /\ \A i \in granted' : mapped'[i] # Roles
               /\ \A i \in granted : i \in granted' \/ (i \in Conns /\ retryNew'[i] > 0)
               /\ \A i \in Conns : retryNew[i] > 0 => retryNew'[i] > 0
    BY <1>1, <2>3
  <2>. QED
    BY <1>11, <2>1, <2>2, <2>3
<1>13. \A n : Retried(n) => Retried(n)'
  BY <1>12 DEF Retried
<1>14. /\ \A n : Arranged(n) => Arranged(n)'
       /\ \A r \in Roles : Coming(r) => Coming(r)'
       /\ Begun' <=> Begun
  BY <1>1, <1>2, <1>3, <1>13, HeedsFree DEF Arranged, Coming, Begun
<1>15. Begun \/ UNCHANGED <<granted, retryNew, coPc>>
  BY <1>2, <1>11, BegunFacts
<1>16. StartInv'
  <2>1. \A k \in Coordinators : coPc'[k] \in {"unused", "start"} => coConn'[k] = 0
    BY <1>1, <1>2
  <2>. QED
    BY <1>1, <1>2, <1>3, <1>9, <1>14, <1>15, <2>1, StartKept
<1>17. ASSUME NEW r \in Roles PROVE PlaceInv(r)'
  <2>1. CASE r # q
    BY <1>1, <1>3, <1>9, <2>1 DEF PlaceInv, Engaged, Reached, Unheard
  <2>2. CASE r = q
    <3>1. \A y \in Of(toClient'[q], Ack) : y.ports = reported[q]
      BY <1>5, <1>8, <1>10
    <3>2. ~Free(toClient'[q], Ack)
      BY <1>10, OfFree
    <3>3. toClient'[q] # <<>>
      BY <1>1, <1>5, <1>9, Grown
    <3>. QED
      BY <1>1, <2>2, <3>1, <3>2, <3>3 DEF PlaceInv, Engaged, Reached
  <2>. QED
    BY <2>1, <2>2
<1>18. ASSUME NEW r \in Roles
       PROVE  ReadyInv(r)' /\ GoInv(r)' /\ OwedInv(r)' /\ ServedInv(r)'
  <2>1. ReadyInv(r)' /\ GoInv(r)'
    BY <1>1, <1>2, <1>3, <1>9, ReadyGoKept
  <2>2. OwedInv(r)'
    BY <1>1, <1>9, <1>13, <1>14, OwedKept
  <2>3. ServedInv(r)'
    BY <1>1, <1>9, <1>14, ServedKept
  <2>. QED
    BY <2>1, <2>2, <2>3
<1>. QED
  BY <1>12, <1>16, <1>17, <1>18 DEF CalmInv

\* A grant finds both asking for it, and what they said of the wait before is forgotten.
LEMMA ServeRequest ==
  ASSUME Leading, ServeStep, Calm', NEW q \in Roles, SRetryRequest(q)
  PROVE  CalmInv'
<1>. DEFINE x == Head(toServer[q])
            i == x.conn
            o == Other(q)
            m == [r \in Roles |-> OfConn("retry_granted", i)]
<1>1. /\ TypeOK /\ probed \in SUBSET Roles /\ UNCHANGED client /\ cut = {}
      /\ ready \in [Roles -> SUBSET Conns] /\ mapped \in [Conns -> SUBSET Roles]
      /\ \A k \in Coordinators : coPc[k] \in {"unused", "start"} => coConn[k] = 0
      /\ \A n \in granted : mapped[n] # Roles
      /\ \A r \in Roles : ReadyInv(r) /\ GoInv(r) /\ conn[r] \in Int
      /\ o \in Roles /\ \A r \in Roles : r = q \/ r = o
  BY ServeFacts, CalmFacts, ConstantFacts, ConnLines
<1>2. /\ Reads(q, "retry_request")
      /\ UNCHANGED <<probed, retryNew, retryWait, coPc, coConn>>
      /\ \/ member # Roles
         \/ UNCHANGED <<ready, granted, mapped, toClient>>
         \/ /\ i \in asked[o] /\ granted' = granted \cup {i}
            /\ ready' = [r \in Roles |-> ready[r] \ {i}]
            /\ mapped' = [mapped EXCEPT ![i] = {}]
            /\ TellBoth(m)
  BY DEF SRetryRequest
<1>3. /\ Heeds(Ready) /\ Heeds(Probes) /\ Heeds(Added) /\ Heeds(Registration)
      /\ x \in Msg /\ x.type = "retry_request" /\ x \in Lines(toServer[q])
  BY <1>1, <1>2, ServeReads DEF Ready, Probes, Added, Registration
<1>4. i \in Conns
  BY <1>3, MsgFacts
<1>5. ~Free(toServer[q], Request) /\ x.type \in Request
  BY <1>3 DEF Free, Request
<1>6. Begun /\ member = Roles
  BY <1>5, RequestBegun
<1>7. cPc[q] = "retry" /\ conn[q] = i
  <2>1. Retrying(q)
    BY <1>6, CalmFacts
  <2>. QED
    BY <1>3, <1>5, <2>1 DEF Retrying
<1>8. \A r \in Roles : m[r] \in Msg /\ m[r].type = "retry_granted"
  BY <1>4, MsgFacts
<1>. HIDE DEF m, x, o, i
<1>9. \A r \in Roles : Unheard(r) => Unheard(r)'
  BY <1>1, <1>3, HeedsFree DEF Unheard
<1>10. CASE UNCHANGED <<ready, granted, mapped, toClient>>
  <2>1. \A T : Spares(T)
    BY <1>10, NoTelling
  <2>. QED
    BY <1>1, <1>2, <1>3, <1>6, <1>9, <1>10, <2>1, ServePlain DEF Idle
<1>11. CASE /\ i \in asked[o] /\ granted' = granted \cup {i}
            /\ ready' = [r \in Roles |-> ready[r] \ {i}]
            /\ mapped' = [mapped EXCEPT ![i] = {}]
            /\ TellBoth(m)
  <2>1. \A r \in Roles : cPc[r] = "retry" /\ conn[r] = i
    <3>1. Retrying(o)
      BY <1>1, <1>6, CalmFacts
    <3>2. cPc[o] = "retry" /\ conn[o] = i
      BY <1>11, <3>1 DEF Retrying
    <3>. QED
      BY <1>1, <1>7, <3>2
  <2>2. /\ Spares(Go) /\ Spares(Info) /\ Spares(Ack)
        /\ \A r \in Roles : toClient'[r] = Append(toClient[r], m[r])
    BY <1>1, <1>8, <1>11, ServeTellsBoth DEF Go, Info, Ack
  <2>3. ASSUME NEW r \in Roles PROVE toClient'[r] # <<>>
    <3>. DEFINE y == m[r]
    <3>1. y \in Msg /\ toClient'[r] = Append(toClient[r], y)
      BY <1>8, <2>2
    <3>. HIDE DEF y
    <3>. QED
      BY <1>1, <3>1, Grown
  <2>4. \A n \in granted' : mapped'[n] # Roles
    <3>1. Roles # {}
      BY DEF Roles
    <3>2. \A n \in granted : n \in Conns
      BY <1>1, ServeFacts
    <3>. QED
      BY <1>1, <1>4, <1>11, <3>1, <3>2
  <2>5. /\ \A n : Retried(n) => Retried(n)'
        /\ \A n : Arranged(n) => Arranged(n)'
        /\ \A r \in Roles : Coming(r) => Coming(r)'
        /\ Begun'
    BY <1>1, <1>2, <1>3, <1>6, <1>11, HeedsFree DEF Retried, Arranged, Coming, Begun
  <2>6. StartInv'
    <3>1. \A k \in Coordinators : coPc'[k] \in {"unused", "start"} => coConn'[k] = 0
      BY <1>1, <1>2
    <3>. QED
      BY <1>1, <1>2, <1>3, <1>6, <2>5, <3>1, StartKept
  <2>7. ASSUME NEW r \in Roles PROVE ReadyInv(r)' /\ GoInv(r)'
    <3>1. /\ Of(toServer[r], Ready) = {} /\ Of(toClient[r], Go) = {}
      BY <1>1, <2>1 DEF ReadyInv, GoInv, At
    <3>2. /\ Of(toServer'[r], Ready) = {} /\ Of(toClient'[r], Go) = {}
          /\ Sole(toServer'[r], Ready) /\ Sole(toClient'[r], Go)
          /\ Free(toClient'[r], Go)
      BY <1>1, <1>3, <2>2, <3>1, HeedsFree, SparesFree, OfFree DEF Heeds, Spares, ReadyInv, GoInv
    <3>3. ASSUME NEW n \in ready'[r]
          PROVE  n < conn[r] /\ n < conn[Other(r)] /\ n \notin ready'[Other(r)]
      <4>1. n \in ready[r] /\ n # i /\ ready'[Other(r)] \subseteq ready[Other(r)]
            /\ Other(r) \in Roles
        BY <1>1, <1>11, ConstantFacts
      <4>2. Gone(r, n) /\ Gone(Other(r), n) /\ n \notin ready[Other(r)]
        BY <1>1, <2>1, <4>1 DEF ReadyInv, At
      <4>. QED
        BY <2>1, <4>1, <4>2 DEF Gone
    <3>4. ReadyInv(r)'
      BY <1>1, <3>2, <3>3 DEF ReadyInv, Gone
    <3>5. GoInv(r)'
      BY <1>1, <2>1, <3>2 DEF GoInv
    <3>. QED
      BY <3>4, <3>5
  <2>8. ASSUME NEW r \in Roles PROVE PlaceInv(r)' /\ OwedInv(r)' /\ ServedInv(r)'
    <3>1. PlaceInv(r)'
      BY <1>1, <1>3, <1>9, <2>2, <2>3, PlaceKept
    <3>2. OwedInv(r)'
      BY <1>1, <2>2, <2>5, OwedKept
    <3>3. ServedInv(r)'
      BY <1>1, <2>2, <2>5, ServedKept
    <3>. QED
      BY <3>1, <3>2, <3>3
  <2>. QED
    BY <2>4, <2>6, <2>7, <2>8 DEF CalmInv
<1>. QED
  BY <1>2, <1>6, <1>10, <1>11

\* A task goes on, and says nothing.
LEMMA ServeSilent ==
  ASSUME Leading, ServeStep, Calm',
         UNCHANGED <<toServer, toClient, ready, granted, mapped, probed, retryNew>>,
         Begun \/ coPc' = coPc, Begun => Begun',
         \A k \in Coordinators : coPc'[k] \in {"unused", "start"} => coConn'[k] = 0,
         \A r \in Roles : Coming(r) => Coming(r)',
         (\A n : Arranged(n) => Arranged(n)') \/ \A r \in Roles : ServedInv(r)'
  PROVE  CalmInv'
<1>1. /\ UNCHANGED client /\ probed \in SUBSET Roles /\ \A n \in granted : mapped[n] # Roles
      /\ (\A T : Heeds(T)) /\ \A T : Spares(T)
  BY ServeFacts, CalmFacts, NoReading, NoTelling
<1>2. \A n : Retried(n) => Retried(n)'
  BY DEF Retried
<1>3. StartInv'
  BY <1>1, StartKept
<1>4. ASSUME NEW r \in Roles
      PROVE  PlaceInv(r)' /\ ReadyInv(r)' /\ GoInv(r)' /\ OwedInv(r)' /\ ServedInv(r)'
  <2>1. PlaceInv(r)'
    <3>1. Unheard(r) => Unheard(r)'
      BY <1>1 DEF Unheard
    <3>. QED
      BY <1>1, <3>1, PlaceKept
  <2>2. ReadyInv(r)' /\ GoInv(r)'
    BY <1>1, ReadyGoKept
  <2>3. OwedInv(r)'
    BY <1>1, <1>2, OwedKept
  <2>4. ServedInv(r)'
    BY <1>1, ServedKept
  <2>. QED
    BY <2>1, <2>2, <2>3, <2>4
<1>. QED
  BY <1>1, <1>3, <1>4 DEF CalmInv

LEMMA ServeWalks ==
  ASSUME Leading, ServeStep, Calm', NEW k \in Coordinators,
         CoStart(k) \/ CoSkip(k) \/ CoResult(k) \/ CoResultTimeout(k)
  PROVE  CalmInv'
<1>1. /\ TypeOK /\ UNCHANGED client
      /\ coPc \in [Coordinators -> CoStates] /\ coConn \in [Coordinators -> Conns]
      /\ \A j \in Coordinators : coPc[j] \in {"unused", "start"} => coConn[j] = 0
      /\ ResultsTrue
  BY ServeFacts, CalmFacts
<1>2. /\ UNCHANGED <<toServer, toClient, ready, granted, mapped, probed, retryNew, retryWait>>
      /\ coPc[k] \in {"start", "port", "result"}
  BY DEF CoStart, CoSkip, CoResult, CoResultTimeout
<1>3. Begun /\ member = Roles
  BY <1>2, BegunFacts DEF Begun
<1>4. /\ \A j \in Coordinators \ {k} : coPc'[j] = coPc[j] /\ coConn'[j] = coConn[j]
      /\ coPc'[k] \in {"port", "end"}
      /\ coPc[k] = "start" => coPc'[k] = "port" /\ coConn'[k] = coConn[k]
  <2>1. Roles # {}
    BY DEF Roles
  <2>2. CASE CoStart(k)
    BY <1>1, <1>3, <2>2 DEF CoStart, Move
  <2>3. CASE CoSkip(k) \/ (CoResult(k) /\ CoNext(k))
    <3>1. CoNext(k) /\ coPc[k] # "start"
      BY <2>3 DEF CoSkip, CoResult
    <3>. QED
      BY <1>1, <3>1 DEF CoNext, Move
  <2>4. CASE CoResultTimeout(k)
    BY <1>1, <2>4 DEF CoResultTimeout, Move
  <2>5. CoResult(k) => CoNext(k)
    BY <1>3, <2>1 DEF CoResult
  <2>. QED
    BY <2>2, <2>3, <2>4, <2>5
<1>5. ASSUME coPc[k] = "port", coConn[k] = 0, NEW r \in Roles PROVE conn[r] # 0
  <2>1. CoSkip(k)
    BY <1>5 DEF CoStart, CoResult, CoResultTimeout
  <2>2. 0 \in Conns /\ result[r][0] # "none"
    BY <1>5, <2>1, ConstantFacts DEF CoSkip, BothResults
  <2>3. Moved(r, 0)
    BY <1>1, <2>2 DEF ResultsTrue
  <2>. QED
    BY <1>1, <2>3, ConnLines DEF Moved
<1>6. \A r \in Roles : Coming(r) => Coming(r)'
  BY <1>1, <1>2, <1>4, <1>5 DEF Coming
<1>7. \A n : Arranged(n) => Arranged(n)'
  BY <1>2, <1>4 DEF Arranged, Retried
<1>8. \A j \in Coordinators : coPc'[j] \in {"unused", "start"} => coConn'[j] = 0
  BY <1>1, <1>4
<1>9. Begun'
  BY <1>4 DEF Begun
<1>. QED
  BY <1>2, <1>3, <1>6, <1>7, <1>8, <1>9, ServeSilent

\* A limit of the relay passes when nothing moves: nobody waits for what it gives up.
LEMMA ServeGivesUp ==
  ASSUME Leading, ServeStep, Calm', Quiet,
         \/ \E k \in Coordinators : CoReadyTimeout(k)
         \/ \E n \in Conns : RetryReadyTimeout(n)
  PROVE  CalmInv'
<1>1. /\ TypeOK /\ UNCHANGED client
      /\ coPc \in [Coordinators -> CoStates] /\ coConn \in [Coordinators -> Conns]
      /\ \A j \in Coordinators : coPc[j] \in {"unused", "start"} => coConn[j] = 0
      /\ Begun
  BY ServeFacts, QuietFacts
<1>2. UNCHANGED <<toServer, toClient, ready, granted, mapped, probed, retryNew, coConn>>
  BY DEF CoReadyTimeout, RetryReadyTimeout
<1>3. \A j \in Coordinators : coPc'[j] = coPc[j] \/ (coPc[j] = "ready" /\ coPc'[j] = "gaveup")
  <2>1. CASE \E k \in Coordinators : CoReadyTimeout(k)
    BY <1>1, <2>1 DEF CoReadyTimeout, Move
  <2>2. CASE \E n \in Conns : RetryReadyTimeout(n)
    BY <2>2 DEF RetryReadyTimeout
  <2>. QED
    BY <2>1, <2>2
<1>4. ASSUME NEW r \in Roles PROVE ServedInv(r)'
  <2>1. Other(r) \in Roles
    BY ConstantFacts
  <2>2. \A s \in Roles : Served(s)' <=> Served(s)
    BY <1>1, <1>2 DEF Served, Wanting, HasInfo, Brings
  <2>3. ~(Served(r) /\ Served(Other(r)) /\ conn[Other(r)] = conn[r])
    BY QuietServed
  <2>. QED
    BY <1>1, <2>1, <2>2, <2>3 DEF ServedInv
<1>5. \A r \in Roles : Coming(r) => Coming(r)'
  BY QuietFacts
<1>6. /\ \A j \in Coordinators : coPc'[j] \in {"unused", "start"} => coConn'[j] = 0
      /\ Begun'
  BY <1>1, <1>2, <1>3 DEF Begun
<1>. QED
  BY <1>1, <1>2, <1>4, <1>5, <1>6, ServeSilent

\* The line of peer_info of a task.
LEMMA ServeInfo ==
  ASSUME Leading, ServeStep, Calm', NEW n \in Conns,
         \/ \E k \in Coordinators : CoPeerInfo(k) /\ coConn[k] = n
         \/ RetryStart(n)
  PROVE  CalmInv'
<1>. DEFINE m == [r \in Roles |-> PeerInfo(n, PortFor(Other(r), n))]
<1>1. /\ TypeOK /\ UNCHANGED client /\ cut = {} /\ probed \in SUBSET Roles
      /\ coPc \in [Coordinators -> CoStates] /\ coConn \in [Coordinators -> Conns]
      /\ retryNew \in [Conns -> Nat] /\ retryWait \in [Conns -> Nat]
      /\ \A j \in Coordinators : coPc[j] \in {"unused", "start"} => coConn[j] = 0
      /\ \A i \in granted : mapped[i] # Roles
  BY ServeFacts, CalmFacts
<1>2. Begun /\ member = Roles
  <2>1. CASE \E k \in Coordinators : CoPeerInfo(k)
    BY <2>1, BegunFacts DEF CoPeerInfo, Begun
  <2>2. CASE RetryStart(n)
    BY <1>1, <2>2, BegunFacts DEF RetryStart, Unbegun
  <2>. QED
    BY <2>1, <2>2
<1>3. \A r \in Roles : m[r] \in Msg /\ m[r].type = "peer_info" /\ m[r].conn = n
  BY <1>1, PortForType, MsgFacts, ConstantFacts
<1>4. /\ TellBoth(m)
      /\ UNCHANGED <<toServer, ready, granted, mapped, probed, coConn>>
  BY <1>2 DEF CoPeerInfo, RetryStart, TellPeerInfo
<1>. HIDE DEF m
<1>5. /\ Spares(Go) /\ Spares(Grant) /\ Spares(Ack)
      /\ \A r \in Roles : toClient'[r] = Append(toClient[r], m[r])
  BY <1>1, <1>3, <1>4, ServeTellsBoth DEF Go, Grant, Ack
<1>6. \A T : Heeds(T)
  BY <1>4, NoReading
<1>7. /\ \A j \in Coordinators :
           coPc'[j] = coPc[j] \/ (coPc[j] = "port" /\ coConn[j] = n /\ coPc'[j] = "ready")
      /\ \A i \in Conns \ {n} : retryNew'[i] = retryNew[i] /\ retryWait'[i] = retryWait[i]
      /\ retryWait'[n] > 0 \/ \E k \in Coordinators : coPc'[k] = "ready" /\ coConn[k] = n
  <2>1. CASE \E k \in Coordinators : CoPeerInfo(k) /\ coConn[k] = n
    BY <1>1, <2>1 DEF CoPeerInfo, Move
  <2>2. CASE RetryStart(n)
    BY <1>1, <1>2, <2>2 DEF RetryStart
  <2>. QED
    BY <2>1, <2>2
<1>8. Arranged(n)'
  BY <1>4, <1>7 DEF Arranged
<1>9. \A i : i # n => (Retried(i) => Retried(i)') /\ (Arranged(i) => Arranged(i)')
  BY <1>4, <1>7 DEF Arranged, Retried
<1>10. \A r \in Roles : conn[r] # n /\ Coming(r) => Coming(r)'
  BY <1>1, <1>4, <1>7 DEF Coming
<1>11. \A r \in Roles : OwedInv(r)' /\ ServedInv(r)'
  BY <1>1, <1>3, <1>5, <1>8, <1>9, <1>10, InfoSent
<1>12. StartInv'
  <2>1. /\ \A j \in Coordinators : coPc'[j] \in {"unused", "start"} => coConn'[j] = 0
        /\ Begun'
    BY <1>1, <1>2, <1>4, <1>7 DEF Begun
  <2>. QED
    BY <1>1, <1>2, <1>4, <1>6, <2>1, StartKept
<1>13. ASSUME NEW r \in Roles PROVE PlaceInv(r)' /\ ReadyInv(r)' /\ GoInv(r)'
  <2>1. toClient'[r] # <<>>
    <3>. DEFINE y == m[r]
    <3>1. y \in Msg /\ toClient'[r] = Append(toClient[r], y)
      BY <1>3, <1>5
    <3>. HIDE DEF y
    <3>. QED
      BY <1>1, <3>1, Grown
  <2>2. Unheard(r) => Unheard(r)'
    BY <1>1, <1>4 DEF Unheard
  <2>3. PlaceInv(r)'
    BY <1>1, <1>5, <1>6, <2>1, <2>2, PlaceKept
  <2>4. ReadyInv(r)' /\ GoInv(r)'
    BY <1>1, <1>4, <1>5, <1>6, ReadyGoKept
  <2>. QED
    BY <2>3, <2>4
<1>. QED
  BY <1>1, <1>4, <1>11, <1>12, <1>13 DEF CalmInv

\* Who is led to a GO waits for it: both are READY only while both are at it.
LEMMA BothAt ==
  ASSUME Leading, NEW n, BothReady(n)
  PROVE  \A r \in Roles : At(r, n) /\ Free(toClient[r], Go)
BY CalmFacts, ConstantFacts DEF BothReady, ReadyInv

LEMMA ServeGo ==
  ASSUME Leading, ServeStep, Calm', NEW n \in Conns,
         \/ \E k \in Coordinators : CoGo(k) /\ coConn[k] = n
         \/ RetryGo(n)
  PROVE  CalmInv'
<1>. DEFINE m == [r \in Roles |-> OfConn("go", n)]
<1>1. /\ TypeOK /\ UNCHANGED client /\ cut = {} /\ probed \in SUBSET Roles
      /\ toClient \in [Roles -> Seq(Msg)] /\ ready \in [Roles -> SUBSET Conns]
      /\ coPc \in [Coordinators -> CoStates]
      /\ \A j \in Coordinators : coPc[j] \in {"unused", "start"} => coConn[j] = 0
      /\ \A i \in granted : mapped[i] # Roles
      /\ \A r \in Roles : ReadyInv(r) /\ GoInv(r) /\ Other(r) \in Roles
  BY ServeFacts, CalmFacts, ConstantFacts
<1>2. /\ SendGo(n) /\ UNCHANGED <<granted, mapped, probed, coConn, retryNew>>
  BY DEF CoGo, RetryGo, SendGo
<1>3. /\ BothReady(n) /\ TellBoth(m) /\ toServer' = toServer
      /\ ready' = [r \in Roles |-> ready[r] \ {n}]
  BY <1>2 DEF SendGo
<1>4. \A r \in Roles : m[r] \in Msg /\ m[r].type = "go" /\ m[r].conn = n
  BY MsgFacts
<1>. HIDE DEF m
<1>5. /\ Spares(Info) /\ Spares(Grant) /\ Spares(Replies) /\ Spares(Ack)
      /\ \A r \in Roles : toClient'[r] = Append(toClient[r], m[r])
  BY <1>1, <1>3, <1>4, ServeTellsBoth DEF Info, Grant, Replies, Ack
<1>6. \A T : Heeds(T)
  BY <1>3, NoReading
<1>7. \A r \in Roles : At(r, n) /\ Free(toClient[r], Go)
  BY <1>3, BothAt
<1>8. /\ \A j \in Coordinators : coPc'[j] = coPc[j] \/ (coPc[j] = "ready" /\ coPc'[j] = "result")
      /\ Begun \/ coPc' = coPc
  <2>1. CASE \E k \in Coordinators : CoGo(k) /\ coConn[k] = n
    BY <1>1, <2>1 DEF CoGo, Move, Begun
  <2>2. CASE RetryGo(n)
    BY <2>2 DEF RetryGo
  <2>. QED
    BY <2>1, <2>2
<1>9. /\ \A i : Retried(i) => Retried(i)'
      /\ \A r \in Roles : Coming(r) => Coming(r)'
      /\ Begun => Begun'
      /\ \A j \in Coordinators : coPc'[j] \in {"unused", "start"} => coConn'[j] = 0
  BY <1>1, <1>2, <1>3, <1>8 DEF Retried, Coming, Begun
<1>10. ASSUME NEW r \in Roles
       PROVE  /\ toClient'[r] # <<>> /\ Sole(toClient'[r], Go)
              /\ Of(toClient'[r], Go) = {m[r]} /\ ~Free(toClient'[r], Go)
  <2>. DEFINE y == m[r]
  <2>1. /\ y \in Msg /\ y.type \in Go /\ toClient'[r] = Append(toClient[r], y)
        /\ toClient[r] \in Seq(Msg) /\ Of(toClient[r], Go) = {} /\ Sole(toClient[r], Go)
    BY <1>1, <1>4, <1>5, <1>7, OfFree, FreeSole DEF Go
  <2>. HIDE DEF y
  <2>2. toClient'[r] # <<>>
    BY <1>1, <2>1, Grown
  <2>3. Of(toClient'[r], Go) = {y} /\ Sole(toClient'[r], Go)
    BY <2>1, OfAppend
  <2>4. ~Free(toClient'[r], Go)
    BY <2>3, OfFree
  <2>. QED
    BY <2>2, <2>3, <2>4 DEF y
<1>11. StartInv'
  BY <1>1, <1>2, <1>5, <1>6, <1>8, <1>9, StartKept
<1>12. ASSUME NEW r \in Roles PROVE PlaceInv(r)' /\ OwedInv(r)' /\ ServedInv(r)'
  <2>1. PlaceInv(r)'
    <3>1. Unheard(r) => Unheard(r)'
      BY <1>1, <1>3 DEF Unheard
    <3>. QED
      BY <1>1, <1>5, <1>6, <1>10, <3>1, PlaceKept
  <2>2. OwedInv(r)'
    BY <1>1, <1>5, <1>9, OwedKept
  <2>3. ServedInv(r)'
    BY <1>1, <1>7, <1>10 DEF ServedInv, Served, Wanting, At
  <2>. QED
    BY <2>1, <2>2, <2>3
<1>13. ASSUME NEW r \in Roles PROVE ReadyInv(r)'
  <2>1. Of(toServer'[r], Ready) = {} /\ Sole(toServer'[r], Ready)
    <3>1. n \in ready[r] /\ conn[r] = n /\ ReadyInv(r)
      BY <1>1, <1>3, <1>7 DEF BothReady, At
    <3>2. Of(toServer[r], Ready) = {} /\ Sole(toServer[r], Ready)
      BY <3>1 DEF ReadyInv, At
    <3>. QED
      BY <1>3, <3>2
  <2>2. ASSUME NEW i \in ready'[r] PROVE Gone(r, i)' /\ Gone(Other(r), i)' /\ i \notin ready'[Other(r)]
    <3>1. i \in ready[r] /\ i # n /\ ready'[Other(r)] \subseteq ready[Other(r)]
      BY <1>1, <1>3
    <3>2. Gone(r, i) /\ Gone(Other(r), i) /\ i \notin ready[Other(r)]
      BY <1>1, <1>7, <3>1 DEF ReadyInv, At
    <3>3. \A s \in Roles : Free(toClient'[s], Grant) <=> Free(toClient[s], Grant)
      BY <1>5, SparesFree
    <3>. QED
      BY <1>1, <3>1, <3>2, <3>3 DEF Gone, Asking
  <2>. QED
    BY <2>1, <2>2 DEF ReadyInv
<1>14. ASSUME NEW r \in Roles PROVE GoInv(r)'
  <2>1. /\ \A x \in Of(toClient'[r], Go) : At(r, x.conn)'
        /\ conn'[Other(r)] = conn'[r] /\ ~Free(toClient'[Other(r)], Go)
    BY <1>1, <1>4, <1>7, <1>10 DEF At
  <2>. QED
    BY <1>10, <2>1 DEF GoInv
<1>. QED
  BY <1>1, <1>2, <1>11, <1>12, <1>13, <1>14 DEF CalmInv

LEMMA ServeLead ==
  ASSUME Leading, ServeStep, Calm'
  PROVE  CalmInv'
<1>1. cut = {} /\ TypeOK /\ coConn \in [Coordinators -> Conns] /\ (Server \/ Quiet)
      /\ (Server \/ ServerLimit)
  BY ServeFacts DEF ServeStep, SStep
<1>2. \A m : ~SendFails(m)
  BY <1>1 DEF SendFails
<1>3. ASSUME NEW q \in Roles, SHandler(q) PROVE CalmInv'
  <2>1. ~SGone(q)
    BY <1>1 DEF SGone
  <2>. QED
    BY <1>3, <2>1, ServeRegister, ServeProbes, ServeReady, ServePorts, ServeRequest, ServeResult
       DEF SHandler
<1>4. ASSUME NEW k \in Coordinators, Coordinator(k) PROVE CalmInv'
  <2>1. coConn[k] \in Conns /\ ~CoSendFail(k)
    BY <1>1, <1>2 DEF CoSendFail
  <2>2. CASE CoStart(k) \/ CoSkip(k) \/ CoResult(k)
    BY <2>2, ServeWalks
  <2>3. CASE CoPeerInfo(k)
    BY <2>1, <2>3, ServeInfo
  <2>4. CASE CoGo(k)
    BY <2>1, <2>4, ServeGo
  <2>. QED
    BY <1>4, <2>1, <2>2, <2>3, <2>4 DEF Coordinator
<1>5. ASSUME NEW n \in Conns, RetryCoordinator(n) PROVE CalmInv'
  <2>1. ~RetrySendFail(n)
    BY <1>2 DEF RetrySendFail
  <2>. QED
    BY <1>5, <2>1, ServeInfo, ServeGo DEF RetryCoordinator
<1>6. CASE ServerLimit /\ Quiet
  BY <1>6, ServeWalks, ServeGivesUp, ServeTimer DEF ServerLimit
<1>. QED
  BY <1>1, <1>3, <1>4, <1>5, <1>6 DEF Server

(***************************************************************************)
(* The invariant, and what it is for.                                      *)
(***************************************************************************)

LEMMA LeadInit == Init => LeadInv
<1>. SUFFICES ASSUME Init PROVE CalmInv
  BY PortInvInit, InvInit DEF LeadInv
<1>1. TypeOK
  BY ShapeInit DEF Shape
<1>2. PICK bind \in [Roles -> 1 .. NumConns] :
        sockets = [p \in Roles |-> [i \in 1 .. bind[p] |-> 0]]
  BY DEF Init, ClientInit
<1>3. /\ granted = {} /\ \A n \in Conns : retryNew[n] = 0
      /\ \A k \in Coordinators : coPc[k] = "unused" /\ coConn[k] = 0
  BY DEF Init, ServerInit
<1>4. ASSUME NEW p \in Roles
      PROVE  /\ cPc[p] = "register" /\ conn[p] = 0 /\ saved[p] = NoPort /\ ready[p] = {}
             /\ toServer[p] = <<>> /\ toClient[p] = <<>> /\ sockets[p] # <<>>
  <2>1. sockets[p] # <<>>
    <3>1. sockets[p] = [i \in 1 .. bind[p] |-> 0] /\ bind[p] \in 1 .. NumConns
      BY <1>2
    <3>2. 1 \in DOMAIN sockets[p]
      BY <3>1, ConstantFacts
    <3>3. DOMAIN <<>> = {}
      OBVIOUS
    <3>. QED
      BY <3>2, <3>3
  <2>. QED
    BY <2>1 DEF Init, LinkInit, ServerInit, ClientInit
<1>5. \A T : Free(<<>>, T) /\ Sole(<<>>, T) /\ Of(<<>>, T) = {}
  BY NoneFree, OfFree
<1>6. StartInv
  <2>1. \A p \in Roles : ~Probed(p) /\ Fresh(p)
    BY <1>4, <1>5 DEF Probed, Fresh
  <2>2. Roles # {}
    BY DEF Roles
  <2>. QED
    BY <1>3, <2>1, <2>2 DEF StartInv, Begun, Unbegun
<1>7. ASSUME NEW p \in Roles
      PROVE  PlaceInv(p) /\ ReadyInv(p) /\ GoInv(p) /\ OwedInv(p) /\ ServedInv(p)
  <2>1. PlaceInv(p) /\ ReadyInv(p)
    BY <1>4, <1>5 DEF PlaceInv, ReadyInv, Engaged
  <2>2. GoInv(p) /\ OwedInv(p) /\ ServedInv(p)
    BY <1>4, <1>5 DEF GoInv, OwedInv, ServedInv, Wanting, Served
  <2>. QED
    BY <2>1, <2>2
<1>. QED
  BY <1>3, <1>6, <1>7 DEF CalmInv

\* A session that is calm has been so.
LEMMA CalmBefore ==
  ASSUME Shape, [Next]_vars, Calm'
  PROVE  Calm
<1>1. TypeOK /\ early' = 0 /\ cut' = {} /\ unfilled' = {}
  BY DEF Shape, Calm
<1>2. CASE \E p \in Roles : CStep(p)
  BY <1>1, <1>2, Steps, ClientCuts, UnfilledStays DEF Calm
<1>3. CASE SStep /\ UNCHANGED client
  BY <1>1, <1>3, Steps, ServerSession DEF Calm
<1>4. CASE \E p \in Roles : Drop(p)
  BY <1>1, <1>4, Steps DEF Calm, Drop
<1>5. CASE UNCHANGED <<server, client, link>>
  BY <1>1, <1>5, Steps DEF Calm
<1>. QED
  BY <1>1, <1>2, <1>3, <1>4, <1>5, Steps

LEMMA LeadInvStep == LeadInv /\ [Next]_vars => LeadInv'
<1>. SUFFICES ASSUME LeadInv, [Next]_vars PROVE LeadInv'
  OBVIOUS
<1>1. PortInv' /\ Inv'
  BY PortInvStep, InvStep DEF LeadInv
<1>2. ASSUME Calm' PROVE CalmInv'
  <2>1. Leading
    BY <1>2, CalmBefore DEF LeadInv, Leading, PortInv
  <2>2. CASE \E p \in Roles : CStep(p) /\ Orderly(p) /\ UNCHANGED server
    BY <1>2, <2>1, <2>2, ClientLead DEF LeadStep
  <2>3. CASE SStep /\ (Server \/ Quiet) /\ UNCHANGED client
    BY <1>2, <2>1, <2>3, ServeLead DEF ServeStep
  <2>4. CASE UNCHANGED <<server, client, link>>
    <3>1. CalmInv
      BY <2>1 DEF Leading
    <3>. QED
      BY <2>4, <3>1 DEF CalmInv, StartInv, PlaceInv, ReadyInv, GoInv, OwedInv, ServedInv,
         Probed, Begun, Unbegun, Fresh, Engaged, Reached, Unheard, At, Gone, Past, Asking,
         Heard, Brings, Wanting, HasInfo, Coming, Retried, Owed, Led, Served, Arranged
  <2>. QED
    BY <1>2, <2>1, <2>2, <2>3, <2>4, CalmSteps
<1>. QED
  BY <1>1, <1>2 DEF LeadInv

LEMMA LeadInvariance == Spec => []LeadInv
BY LeadInit, LeadInvStep, PTL DEF Spec

\* The places of a GO among the lines.
LEMMA NoNewPlace ==
  ASSUME TypeOK, NEW r \in Roles, NEW n,
         \/ Places(r, "go", n)' = Places(r, "go", n) \/ Free(toClient'[r], Go)
  PROVE  ~(Cardinality(Places(r, "go", n)') > Cardinality(Places(r, "go", n)))
<1>. DEFINE S == Places(r, "go", n)
            T == Places(r, "go", n)'
<1>1. DOMAIN toClient[r] = 1 .. Len(toClient[r]) /\ Len(toClient[r]) \in Nat
  BY LenProperties DEF TypeOK, LinkTypeOK
<1>2. S \in SUBSET (1 .. Len(toClient[r]))
  BY <1>1 DEF Places
<1>3. IsFiniteSet(1 .. Len(toClient[r]))
  BY <1>1, FS_Interval
<1>4. IsFiniteSet(S)
  BY <1>2, <1>3, FS_Subset
<1>5. Cardinality(S) \in Nat
  BY <1>4, FS_CardinalityType
<1>6. Free(toClient'[r], Go) => T = {}
  BY DEF Places, Free, Lines, Go
<1>7. Cardinality({}) = 0
  BY FS_EmptySet
<1>. HIDE DEF S, T
<1>8. T = S \/ T = {}
  BY <1>6 DEF S, T
<1>9. ~(Cardinality(T) > Cardinality(S))
  BY <1>5, <1>7, <1>8
<1>. QED
  BY <1>9 DEF S, T

LEMMA OtherPlace ==
  ASSUME TypeOK, NEW r \in Roles, NEW n, NEW m \in Msg, m.type # "go" \/ m.conn # n,
         toClient'[r] = Append(toClient[r], m)
  PROVE  Places(r, "go", n)' = Places(r, "go", n)
<1>. DEFINE s == toClient[r]
            t == toClient'[r]
<1>1. s \in Seq(Msg)
  BY DEF TypeOK, LinkTypeOK
<1>. HIDE DEF s
<1>2. t = Append(s, m)
  BY DEF s
<1>. HIDE DEF t
<1>3. /\ t \in Seq(Msg) /\ Len(t) = Len(s) + 1 /\ t[Len(s) + 1] = m
      /\ \A i \in 1 .. Len(s) : t[i] = s[i]
      /\ DOMAIN s = 1 .. Len(s) /\ DOMAIN t = 1 .. Len(t) /\ Len(s) \in Nat
  BY <1>1, <1>2, AppendProperties, LenProperties
<1>4. {i \in DOMAIN t : t[i].type = "go" /\ t[i].conn = n}
        = {i \in DOMAIN s : s[i].type = "go" /\ s[i].conn = n}
  <2>1. DOMAIN t = DOMAIN s \cup {Len(s) + 1}
    BY <1>3
  <2>. QED
    BY <1>3, <2>1
<1>. QED
  BY <1>4 DEF Places, s, t

\* A client's step sends it no GO.
LEMMA ClientNoGo ==
  ASSUME Leading, NEW p \in Roles, CStep(p), NEW r \in Roles
  PROVE  toClient'[r] = toClient[r] \/ Free(toClient'[r], Go)
<1>1. Shape /\ TypeOK /\ LinkTypeOK /\ GoInv(p)
  BY CalmFacts DEF TypeOK
<1>2. CASE r # p
  BY <1>1, <1>2, ClientFrame
<1>3. CASE r = p /\ Free(toClient[p], Go)
  BY <1>1, <1>3, ClientChannels
<1>4. CASE r = p /\ ~Free(toClient[p], Go)
  <2>1. cPc[p] = "go"
    BY <1>1, <1>4, OfFree DEF GoInv, At
  <2>2. CASE CGo(p)
    <3>1. Receive(p, "go") /\ Sole(toClient[p], Go)
      BY <1>1, <2>2 DEF CGo, GoInv
    <3>. QED
      BY <1>1, <1>4, <3>1, ReceivedChannel DEF Go
  <2>3. CASE CTransportLost(p) \/ CTimeout(p) \/ CNotice(p)
    BY <1>4, <2>3 DEF CTransportLost, CTimeout, CNotice
  <2>4. CGo(p) \/ CTransportLost(p) \/ CTimeout(p) \/ CNotice(p)
    BY <2>1 DEF CStep, Client, Punched, ClientLimit,
       CRegister, CRegisterFail, CFirstFail, CExtra, CFinish, CBind, CBindFail,
       CStart, CReady, CRetryRequest, CAckError, CAckMissing, CNotice, CTransportLost,
       CEstablished, CPunchFail, CFirstTimeout, CTimeout, CAckTimeout, CPunchAlone,
       CRegistered, CFirstPeerInfo, CPeerInfo, CGo, CRetryRejected, CRetryGranted,
       CRebindFail, CWriteError, CAck, Granted
  <2>. QED
    BY <2>2, <2>3, <2>4
<1>. QED
  BY <1>2, <1>3, <1>4

\* Nor does a step of the relay that does not find both READY.
LEMMA ServerGo ==
  ASSUME TypeOK, cut = {}, SStep, NEW n \in Conns, ~BothReady(n), NEW r \in Roles
  PROVE  Places(r, "go", n)' = Places(r, "go", n)
<1>1. /\ coConn \in [Coordinators -> Conns] /\ \A m : ~SendFails(m)
  BY DEF TypeOK, ServerTypeOK, SendFails
<1>2. CASE toClient' = toClient
  BY <1>2 DEF Places
<1>3. ASSUME NEW q \in Roles, NEW m \in Msg, m.type # "go", Tell(q, m)
      PROVE  Places(r, "go", n)' = Places(r, "go", n)
  <2>1. toClient'[r] = toClient[r] \/ toClient'[r] = Append(toClient[r], m)
    BY <1>3, ServeTells
  <2>. QED
    BY <1>3, <2>1, OtherPlace DEF Places
<1>4. ASSUME NEW m, \A q \in Roles : m[q] \in Msg /\ (m[q].type # "go" \/ m[q].conn # n),
             TellBoth(m)
      PROVE  Places(r, "go", n)' = Places(r, "go", n)
  <2>. DEFINE x == m[r]
  <2>1. x \in Msg /\ (x.type # "go" \/ x.conn # n) /\ toClient'[r] = Append(toClient[r], x)
    BY <1>4, ServeTellsBoth
  <2>. HIDE DEF x
  <2>. QED
    BY <2>1, OtherPlace
<1>5. ASSUME NEW i \in Conns, TellPeerInfo(i)
      PROVE  Places(r, "go", n)' = Places(r, "go", n)
  <2>. DEFINE m == [p \in Roles |-> PeerInfo(i, PortFor(Other(p), i))]
  <2>1. \A q \in Roles : m[q] \in Msg /\ m[q].type # "go"
    BY PortForType, MsgFacts, ConstantFacts
  <2>2. TellBoth(m)
    BY <1>5 DEF TellPeerInfo
  <2>. HIDE DEF m
  <2>. QED
    BY <1>4, <2>1, <2>2
<1>6. ASSUME NEW i \in Conns, SendGo(i)
      PROVE  Places(r, "go", n)' = Places(r, "go", n)
  <2>. DEFINE m == [p \in Roles |-> OfConn("go", i)]
  <2>1. i # n /\ TellBoth(m)
    BY <1>6 DEF SendGo
  <2>2. \A q \in Roles : m[q] \in Msg /\ m[q].conn # n
    BY <2>1, MsgFacts
  <2>. HIDE DEF m
  <2>. QED
    BY <1>4, <2>1, <2>2
<1>7. ASSUME NEW q \in Roles, SHandler(q) PROVE Places(r, "go", n)' = Places(r, "go", n)
  <2>1. CASE SRegister(q)
    BY <1>3, <2>1, MsgFacts DEF SRegister
  <2>2. CASE SAddPorts(q)
    <3>. DEFINE x == Head(toServer[q])
    <3>1. Reads(q, "add_ports") /\ Tell(q, OfPorts("ports_added_ack", x.ports))
      BY <2>2 DEF SAddPorts
    <3>2. x \in Msg /\ x.type = "add_ports"
      BY <3>1, ServeReads
    <3>. HIDE DEF x
    <3>. DEFINE m == OfPorts("ports_added_ack", x.ports)
    <3>3. x.ports \in Seq(Ports)
      BY <3>2, MsgFacts
    <3>4. m \in Msg /\ m.type = "ports_added_ack" /\ Tell(q, m)
      BY <3>1, <3>3, MsgFacts
    <3>. HIDE DEF m
    <3>. QED
      BY <1>3, <3>4
  <2>3. CASE SRetryRequest(q)
    <3>. DEFINE x == Head(toServer[q])
                m == [p \in Roles |-> OfConn("retry_granted", x.conn)]
    <3>1. Reads(q, "retry_request") /\ (toClient' = toClient \/ TellBoth(m))
      BY <2>3 DEF SRetryRequest
    <3>2. x \in Msg /\ x.type = "retry_request"
      BY <3>1, ServeReads
    <3>3. x.conn \in Conns
      BY <3>2, MsgFacts
    <3>4. \A p \in Roles : m[p] \in Msg /\ m[p].type # "go"
      BY <3>3, MsgFacts
    <3>. HIDE DEF m
    <3>. QED
      BY <1>2, <1>4, <3>1, <3>4
  <2>4. CASE SProbesComplete(q) \/ SReady(q) \/ SConnResult(q, "established")
             \/ SConnResult(q, "abandoned") \/ SGone(q)
    BY <1>2, <2>4 DEF SProbesComplete, SReady, SConnResult, SGone
  <2>. QED
    BY <1>7, <2>1, <2>2, <2>3, <2>4 DEF SHandler
<1>8. ASSUME NEW k \in Coordinators, Coordinator(k) \/ CoReadyTimeout(k) \/ CoResultTimeout(k)
      PROVE  Places(r, "go", n)' = Places(r, "go", n)
  <2>1. coConn[k] \in Conns /\ ~CoSendFail(k)
    BY <1>1 DEF CoSendFail
  <2>2. CASE CoPeerInfo(k)
    BY <1>5, <2>1, <2>2 DEF CoPeerInfo
  <2>3. CASE CoGo(k)
    BY <1>6, <2>1, <2>3 DEF CoGo
  <2>4. CASE CoStart(k) \/ CoSkip(k) \/ CoResult(k) \/ CoReadyTimeout(k) \/ CoResultTimeout(k)
    BY <1>2, <2>4 DEF CoStart, CoSkip, CoResult, CoReadyTimeout, CoResultTimeout
  <2>. QED
    BY <1>8, <2>1, <2>2, <2>3, <2>4 DEF Coordinator
<1>9. ASSUME NEW i \in Conns, RetryCoordinator(i) \/ SRetryTimer(i) \/ RetryReadyTimeout(i)
      PROVE  Places(r, "go", n)' = Places(r, "go", n)
  <2>1. ~RetrySendFail(i)
    BY <1>1 DEF RetrySendFail
  <2>2. CASE RetryStart(i)
    BY <1>2, <1>5, <2>2 DEF RetryStart
  <2>3. CASE RetryGo(i)
    BY <1>6, <2>3 DEF RetryGo
  <2>4. CASE SRetryTimer(i)
    <3>. DEFINE m == OfConn("retry_rejected", i)
    <3>1. m \in Msg /\ m.type # "go" /\ \E q \in Roles : Tell(q, m)
      BY <2>4, MsgFacts DEF SRetryTimer
    <3>. HIDE DEF m
    <3>. QED
      BY <1>3, <3>1
  <2>5. CASE RetryReadyTimeout(i)
    BY <1>2, <2>5 DEF RetryReadyTimeout
  <2>. QED
    BY <1>9, <2>1, <2>2, <2>3, <2>4, <2>5 DEF RetryCoordinator
<1>. QED
  BY <1>7, <1>8, <1>9 DEF SStep, Server, ServerLimit

LEMMA GoStep ==
  ASSUME Leading, [Next]_vars, NEW n \in Conns, GoSent(n)
  PROVE  BothReady(n)
<1>. SUFFICES ASSUME ~BothReady(n) PROVE FALSE
  OBVIOUS
<1>1. TypeOK /\ cut = {}
  BY CalmFacts
<1>2. ASSUME NEW r \in Roles
      PROVE  Places(r, "go", n)' = Places(r, "go", n) \/ Free(toClient'[r], Go)
  <2>1. CASE \E p \in Roles : CStep(p)
    <3>1. toClient'[r] = toClient[r] \/ Free(toClient'[r], Go)
      BY <2>1, ClientNoGo
    <3>. QED
      BY <3>1 DEF Places
  <2>2. CASE SStep
    BY <1>1, <2>2, ServerGo
  <2>3. CASE (\E p \in Roles : Drop(p)) \/ UNCHANGED <<server, client, link>>
    BY <2>3 DEF Drop, Places
  <2>. QED
    BY <1>1, <2>1, <2>2, <2>3, Steps
<1>. QED
  BY <1>1, <1>2, NoNewPlace DEF GoSent

\* A GO goes out only while both clients are at that connection and wait for it
\* (coordinator.py:97-130 and 203-230), for any number of connections and attempts, with
\* both coordinators and any retries running - as long as no connection is lost, no limit
\* passes early and no client has left a retry it was granted without a port.
THEOREM GoIsAwaited == Spec => GoFindsBothWaiting
<1>1. LeadInv /\ [Next]_vars =>
        [\A n \in Conns : GoSent(n) /\ cut = {} /\ early = 0 /\ unfilled = {} =>
           \A p \in Roles : cPc[p] = "go" /\ conn[p] = n]_vars
  <2>1. SUFFICES ASSUME LeadInv, [Next]_vars, NEW n \in Conns, GoSent(n),
                        cut = {}, early = 0, unfilled = {}, NEW p \in Roles
                 PROVE  cPc[p] = "go" /\ conn[p] = n
    OBVIOUS
  <2>2. Leading
    BY <2>1 DEF LeadInv, Leading, Calm
  <2>3. BothReady(n)
    BY <2>1, <2>2, GoStep
  <2>4. At(p, n)
    BY <2>2, <2>3, BothAt
  <2>. QED
    BY <2>4 DEF At
<1>. QED
  BY <1>1, LeadInvariance, PTL DEF Spec, GoFindsBothWaiting

=============================================================================
