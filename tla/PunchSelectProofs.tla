-------------------------- MODULE PunchSelectProofs --------------------------
(***************************************************************************)
(* Theorems about PunchSelect, for any number of links, any random numbers *)
(* that differ and any options.                                            *)
(***************************************************************************)
EXTENDS PunchSelect, TLAPS

----------------------------------------------------------------------------
(* The order by which candidates are compared.                             *)

\* What a comparison depends on, and does not change during a punch.
WaysOK ==
  /\ lan \in [Peers -> [Links -> BOOLEAN]]
  /\ preferLan \in [Peers -> BOOLEAN]
  /\ drawn \in Draws

LEMMA KeyFacts ==
  ASSUME WaysOK, NEW p \in Peers, NEW c \in Links
  PROVE  /\ Key(p, c) \in Nat \X Nat
         /\ Key(p, c) = Key(Other(p), c)
<1>1. Other(p) \in Peers /\ Other(Other(p)) = p
  BY DEF Other, Peers
<1>2. drawn[p][c] \in Nat /\ drawn[Other(p)][c] \in Nat
  BY <1>1, PunchAssumption DEF WaysOK
<1>3. drawn[p][c] # drawn[Other(p)][c]
  BY <1>1, PunchAssumption DEF WaysOK, Other, Peers
<1> QED
  BY <1>1, <1>2, <1>3 DEF Key

\* Two links have different keys.
LEMMA KeysDiffer ==
  ASSUME WaysOK, NEW p \in Peers, NEW c \in Links, NEW d \in Links, c # d
  PROVE  Key(p, c) # Key(p, d)
<1>1. Other(p) \in Peers /\ Other(p) # p
  BY DEF Other, Peers
<1>2. \A q, r \in Peers : drawn[q][c] # drawn[r][d]
  BY PunchAssumption DEF WaysOK
<1> DEFINE own(x) == drawn[p][x]
           other(x) == drawn[Other(p)][x]
<1>3. Key(p, c)[1] \in {own(c), other(c)} /\ Key(p, d)[1] \in {own(d), other(d)}
  BY DEF Key
<1> QED
  BY <1>1, <1>2, <1>3

LEMMA SmallerIsTotal ==
  ASSUME NEW k \in Nat \X Nat, NEW l \in Nat \X Nat, k # l
  PROVE  Smaller(k, l) \/ Smaller(l, k)
BY DEF Smaller

LEMMA SmallerIsAsymmetric ==
  ASSUME NEW k \in Nat \X Nat, NEW l \in Nat \X Nat, Smaller(k, l)
  PROVE  ~Smaller(l, k)
BY DEF Smaller

LEMMA SmallerIsTransitive ==
  ASSUME NEW k \in Nat \X Nat, NEW l \in Nat \X Nat, NEW m \in Nat \X Nat,
         Smaller(k, l), Smaller(l, m)
  PROVE  Smaller(k, m)
BY DEF Smaller

LEMMA BetterIsTotal ==
  ASSUME WaysOK, NEW p \in Peers, NEW c \in Links, NEW d \in Links, c # d
  PROVE  IsBetter(p, c, d) \/ IsBetter(p, d, c)
<1>1. lan[p][c] \in BOOLEAN /\ lan[p][d] \in BOOLEAN /\ preferLan[p] \in BOOLEAN
  BY DEF WaysOK
<1>2. Smaller(Key(p, c), Key(p, d)) \/ Smaller(Key(p, d), Key(p, c))
  BY KeyFacts, KeysDiffer, SmallerIsTotal
<1> QED
  BY <1>1, <1>2 DEF IsBetter

LEMMA BetterIsAsymmetric ==
  ASSUME WaysOK, NEW p \in Peers, NEW c \in Links, NEW d \in Links,
         IsBetter(p, c, d)
  PROVE  ~IsBetter(p, d, c)
<1>1. lan[p][c] \in BOOLEAN /\ lan[p][d] \in BOOLEAN /\ preferLan[p] \in BOOLEAN
  BY DEF WaysOK
<1>2. ~(Smaller(Key(p, c), Key(p, d)) /\ Smaller(Key(p, d), Key(p, c)))
  BY KeyFacts, SmallerIsAsymmetric
<1> QED
  BY <1>1, <1>2 DEF IsBetter

LEMMA BetterIsTransitive ==
  ASSUME WaysOK, NEW p \in Peers, NEW c \in Links, NEW d \in Links, NEW e \in Links,
         IsBetter(p, c, d), IsBetter(p, d, e)
  PROVE  IsBetter(p, c, e)
<1>1. /\ lan[p][c] \in BOOLEAN /\ lan[p][d] \in BOOLEAN /\ lan[p][e] \in BOOLEAN
      /\ preferLan[p] \in BOOLEAN
  BY DEF WaysOK
<1>2. Smaller(Key(p, c), Key(p, d)) /\ Smaller(Key(p, d), Key(p, e))
        => Smaller(Key(p, c), Key(p, e))
  BY KeyFacts, SmallerIsTransitive
<1> QED
  BY <1>1, <1>2 DEF IsBetter

\* Sides that prefer alike and classify two links alike compare them alike.
LEMMA BothCompareAlike ==
  ASSUME WaysOK, NEW c \in Links, NEW d \in Links,
         preferLan["sender"] = preferLan["receiver"],
         lan["sender"][c] = lan["receiver"][c],
         lan["sender"][d] = lan["receiver"][d]
  PROVE  IsBetter("sender", c, d) <=> IsBetter("receiver", c, d)
<1>1. "sender" \in Peers /\ Other("sender") = "receiver"
  BY DEF Peers, Other
<1>2. Key("sender", c) = Key("receiver", c) /\ Key("sender", d) = Key("receiver", d)
  BY <1>1, KeyFacts
<1> QED
  BY <1>2 DEF IsBetter

----------------------------------------------------------------------------
(* Types.                                                                  *)

LEMMA InitType == Init => TypeOK
<1> SUFFICES ASSUME Init PROVE TypeOK
  OBVIOUS
<1>1. drawn \in [Peers -> [Links -> Nat]] /\ preferLan \in [Peers -> BOOLEAN]
  BY PunchAssumption DEF Init
<1>2. <<>> \in Seq(Links)
  OBVIOUS
<1>3. found \in [Peers -> Seq(Links)]
  BY <1>2 DEF Init
<1>4. at \in [Peers -> [Links -> LinkStates]]
  BY DEF Init, LinkStates
<1>5. coming \in [Peers -> [Links -> {"nothing", "number", "junk"}]]
  BY DEF Init
<1>6. /\ main \in [Peers -> {"wait", "grace", "ok", "err"}]
      /\ winner \in [Peers -> Links \cup {NoLink}]
      /\ seen \in [Peers -> SUBSET Links]
      /\ \A p \in Peers : winner[p] = NoLink <=> main[p] \in {"wait", "err"}
  BY DEF Init
<1>7. ends \in [Peers -> [Links -> Ends]] /\ lan \in [Peers -> [Links -> BOOLEAN]]
      /\ up \subseteq Links /\ listening \subseteq Peers /\ timeouts \in Nat
  BY DEF Init
<1> QED
  BY <1>1, <1>3, <1>4, <1>5, <1>6, <1>7 DEF TypeOK

LEMMA OtherType == \A p \in Peers : Other(p) \in Peers /\ Other(p) # p /\ Other(Other(p)) = p
BY DEF Other, Peers

LEMMA TaskType ==
  ASSUME TypeOK, NEW p \in Peers, NEW c \in Links, Task(p, c)
  PROVE  TypeOK'
<1> USE DEF LinkStates
<1>1. UNCHANGED <<ways, main, winner, seen>>
  BY DEF Task, Greet, Recognize, BecomesCandidate, Reject
<1>2. CASE Greet(p, c)
  <2>1. UNCHANGED <<listening, found, timeouts>> /\ up' \subseteq Links
    BY <1>2 DEF Greet, TypeOK
  <2>2. at' \in [Peers -> [Links -> LinkStates]]
    BY <1>2 DEF Greet, TypeOK
  <2>3. coming' \in [Peers -> [Links -> {"nothing", "number", "junk"}]]
    BY <1>2, OtherType DEF Greet, TypeOK
  <2> QED
    BY <1>1, <2>1, <2>2, <2>3 DEF TypeOK, ways
<1>3. CASE Recognize(p, c)
  <2>1. UNCHANGED <<up, coming, timeouts>>
    BY <1>3 DEF Recognize, BecomesCandidate
  <2>2. found' \in [Peers -> Seq(Links)]
    <3>1. found' = [found EXCEPT ![p] = Append(@, c)]
      BY <1>3 DEF Recognize, BecomesCandidate
    <3>2. Append(found[p], c) \in Seq(Links)
      BY DEF TypeOK
    <3> QED
      BY <3>1, <3>2 DEF TypeOK
  <2> DEFINE a == [at[p] EXCEPT ![c] = "candidate"]
  <2>3. a \in [Links -> LinkStates]
    BY DEF TypeOK
  <2>4. Refused(p, a) \in [Links -> LinkStates]
    BY <2>3 DEF Refused
  <2>5. \/ at' = [at EXCEPT ![p] = Refused(p, a)] /\ listening' = listening \ {p}
        \/ at' = [at EXCEPT ![p] = a] /\ UNCHANGED listening
    BY <1>3 DEF Recognize, BecomesCandidate
  <2>6. at' \in [Peers -> [Links -> LinkStates]] /\ listening' \subseteq Peers
    <3>1. PICK b \in [Links -> LinkStates] : at' = [at EXCEPT ![p] = b]
      BY <2>3, <2>4, <2>5
    <3>2. at \in [Peers -> [Links -> LinkStates]] /\ listening \subseteq Peers
      BY DEF TypeOK
    <3> QED
      BY <3>1, <3>2, <2>5
  <2> QED
    BY <1>1, <2>1, <2>2, <2>6 DEF TypeOK, ways
<1>4. CASE Reject(p, c)
  <2>1. UNCHANGED <<up, coming, listening, found>>
    BY <1>4 DEF Reject
  <2>2. at' \in [Peers -> [Links -> LinkStates]] /\ timeouts' \in Nat
    BY <1>4 DEF Reject, Fails, TypeOK
  <2> QED
    BY <1>1, <2>1, <2>2 DEF TypeOK, ways
<1> QED
  BY <1>2, <1>3, <1>4 DEF Task

\* What Stop leaves, if the winner is one.
LEMMA StopType ==
  ASSUME TypeOK, NEW p \in Peers, NEW o \in {"ok", "err"}, Stop(p, o)
  PROVE  /\ main' \in [Peers -> {"wait", "grace", "ok", "err"}]
         /\ at' \in [Peers -> [Links -> LinkStates]]
         /\ listening' \subseteq Peers
         /\ found' \in [Peers -> Seq(Links)]
<1>1. <<>> \in Seq(Links)
  OBVIOUS
<1>2. found' \in [Peers -> Seq(Links)]
  BY <1>1 DEF Stop, TypeOK
<1>3. at' \in [Peers -> [Links -> LinkStates]]
  BY DEF Stop, TypeOK, LinkStates
<1> QED
  BY <1>2, <1>3 DEF Stop, TypeOK

LEMMA LinksArePositive == NoLink \notin Links
BY PunchAssumption DEF NoLink, Links

LEMMA FirstType ==
  ASSUME TypeOK, NEW p \in Peers, First(p)
  PROVE  TypeOK'
<1> DEFINE c == Head(found[p])
<1>1. c \in Links /\ Tail(found[p]) \in Seq(Links)
  BY DEF First, TypeOK
<1>2. /\ UNCHANGED <<ways, up, coming, timeouts>>
      /\ winner' = [winner EXCEPT ![p] = c]
      /\ seen' = [seen EXCEPT ![p] = @ \cup {c}]
  BY DEF First
<1>3. \/ Stop(p, "ok")
      \/ /\ main' = [main EXCEPT ![p] = "grace"]
         /\ found' = [found EXCEPT ![p] = Tail(@)]
         /\ UNCHANGED <<at, listening>>
  BY DEF First
<1> HIDE DEF c
<1>4. winner' \in [Peers -> Links \cup {NoLink}] /\ seen' \in [Peers -> SUBSET Links]
  BY <1>1, <1>2 DEF TypeOK
<1>5. /\ main' \in [Peers -> {"wait", "grace", "ok", "err"}]
      /\ at' \in [Peers -> [Links -> LinkStates]]
      /\ listening' \subseteq Peers
      /\ found' \in [Peers -> Seq(Links)]
  <2>1. CASE Stop(p, "ok")
    BY <2>1, StopType
  <2>2. CASE ~Stop(p, "ok")
    BY <2>2, <1>1, <1>3, ZenonT(30) DEF TypeOK
  <2> QED
    BY <2>1, <2>2
<1>6. \A q \in Peers : winner'[q] = NoLink <=> main'[q] \in {"wait", "err"}
  <2>1. main' = [main EXCEPT ![p] = "ok"] \/ main' = [main EXCEPT ![p] = "grace"]
    BY <1>3 DEF Stop
  <2> QED
    BY <2>1, <1>1, <1>2, LinksArePositive DEF TypeOK
<1> QED
  BY <1>2, <1>4, <1>5, <1>6 DEF TypeOK, ways

LEMMA CompareType ==
  ASSUME TypeOK, NEW p \in Peers, Compare(p)
  PROVE  TypeOK'
<1> DEFINE c == Head(found[p])
           better == IsBetter(p, c, winner[p])
<1>1. c \in Links /\ Tail(found[p]) \in Seq(Links)
  BY DEF Compare, TypeOK
<1>2. /\ UNCHANGED <<ways, up, coming, listening, main, timeouts>>
      /\ main[p] = "grace"
      /\ winner' = [winner EXCEPT ![p] = IF better THEN c ELSE @]
      /\ seen' = [seen EXCEPT ![p] = @ \cup {c}]
      /\ at' = [at EXCEPT ![p][IF better THEN winner[p] ELSE c] = "gone"]
      /\ found' = [found EXCEPT ![p] = Tail(@)]
  BY DEF Compare
<1> HIDE DEF c, better
<1>3. winner' \in [Peers -> Links \cup {NoLink}] /\ seen' \in [Peers -> SUBSET Links]
  BY <1>1, <1>2 DEF TypeOK
<1>4. at' \in [Peers -> [Links -> LinkStates]]
  BY <1>2 DEF TypeOK, LinkStates
<1>5. found' \in [Peers -> Seq(Links)]
  BY <1>1, <1>2 DEF TypeOK
<1>6. \A q \in Peers : winner'[q] = NoLink <=> main'[q] \in {"wait", "err"}
  BY <1>1, <1>2, LinksArePositive DEF TypeOK
<1> QED
  BY <1>2, <1>3, <1>4, <1>5, <1>6 DEF TypeOK, ways

LEMMA EndType ==
  ASSUME TypeOK, NEW p \in Peers, GraceEnds(p) \/ GiveUp(p)
  PROVE  TypeOK'
<1>1. /\ UNCHANGED <<ways, up, coming, winner, seen, timeouts>>
      /\ \/ main[p] = "grace" /\ Stop(p, "ok")
         \/ main[p] = "wait" /\ Stop(p, "err")
  BY DEF GraceEnds, GiveUp
<1>2. \/ main[p] = "grace" /\ main' = [main EXCEPT ![p] = "ok"]
      \/ main[p] = "wait" /\ main' = [main EXCEPT ![p] = "err"]
  BY <1>1 DEF Stop
<1>3. /\ main' \in [Peers -> {"wait", "grace", "ok", "err"}]
      /\ at' \in [Peers -> [Links -> LinkStates]]
      /\ listening' \subseteq Peers
      /\ found' \in [Peers -> Seq(Links)]
  BY <1>1, StopType
<1>4. \A q \in Peers : winner'[q] = NoLink <=> main'[q] \in {"wait", "err"}
  BY <1>1, <1>2 DEF TypeOK
<1> QED
  BY <1>1, <1>3, <1>4 DEF TypeOK, ways

LEMMA NextType == TypeOK /\ [Next]_vars => TypeOK'
<1> SUFFICES ASSUME TypeOK, [Next]_vars PROVE TypeOK'
  OBVIOUS
<1>1. ASSUME NEW p \in Peers, NEW c \in Links, Task(p, c) PROVE TypeOK'
  BY <1>1, TaskType
<1>2. ASSUME NEW p \in Peers, Choice(p) \/ GiveUp(p) PROVE TypeOK'
  BY <1>2, FirstType, CompareType, EndType DEF Choice
<1>3. CASE UNCHANGED vars
  BY <1>3 DEF vars, ways, TypeOK
<1> QED
  BY <1>1, <1>2, <1>3 DEF Next, Over

\* Every variable keeps its type, and a side has a winner exactly from its first
\* candidate on, in every instance (strategy.rs:445-498).
THEOREM TypeCorrect == Spec => []TypeOK
<1> QED
  BY InitType, NextType, PTL DEF Spec

----------------------------------------------------------------------------
(* Each side holds the best candidate it has looked at.                    *)

\* Before the first candidate a side has looked at none; from then on it holds one it
\* has looked at, better than every other.
Best(p) ==
  /\ main[p] \in {"wait", "err"} => seen[p] = {}
  /\ main[p] \in {"grace", "ok"} =>
       /\ winner[p] \in seen[p]
       /\ \A c \in seen[p] : c = winner[p] \/ IsBetter(p, winner[p], c)

IInv == WaysOK /\ TypeOK /\ \A p \in Peers : Best(p)

LEMMA InitIInv == Init => IInv
<1> SUFFICES ASSUME Init PROVE IInv
  OBVIOUS
<1>1. WaysOK
  BY PunchAssumption DEF Init, WaysOK
<1>2. TypeOK
  BY InitType
<1>3. ASSUME NEW p \in Peers PROVE Best(p)
  BY DEF Init, Best
<1> QED
  BY <1>1, <1>2, <1>3 DEF IInv

\* Best of a side that this step leaves alone.
LEMMA BestKept ==
  ASSUME NEW p \in Peers, Best(p), UNCHANGED ways,
         main'[p] = main[p], winner'[p] = winner[p], seen'[p] = seen[p]
  PROVE  Best(p)'
BY DEF Best, ways, IsBetter, Key, Smaller

LEMMA BestOfAll ==
  ASSUME NEW p \in Peers, UNCHANGED ways, main'[p] = "grace",
         winner'[p] \in seen'[p],
         \A d \in seen'[p] : d = winner'[p] \/ IsBetter(p, winner'[p], d)
  PROVE  Best(p)'
BY DEF Best, ways, IsBetter, Key, Smaller

LEMMA TaskIInv ==
  ASSUME IInv, NEW p \in Peers, NEW c \in Links, Task(p, c)
  PROVE  IInv'
<1> USE DEF IInv
<1>1. UNCHANGED <<ways, main, winner, seen>>
  BY DEF Task, Greet, Recognize, BecomesCandidate, Reject
<1>2. WaysOK'
  BY <1>1 DEF WaysOK, ways
<1>3. TypeOK'
  BY TaskType
<1>4. ASSUME NEW q \in Peers PROVE Best(q)'
  BY <1>1, BestKept
<1> QED
  BY <1>2, <1>3, <1>4

\* The first candidate is the best of one.
LEMMA FirstIInv ==
  ASSUME IInv, NEW p \in Peers, First(p)
  PROVE  IInv'
<1> USE DEF IInv
<1> DEFINE c == Head(found[p])
<1>1. c \in Links /\ Tail(found[p]) \in Seq(Links)
  BY DEF First, TypeOK
<1>2. /\ UNCHANGED ways
      /\ main[p] = "wait"
      /\ winner' = [winner EXCEPT ![p] = c]
      /\ seen' = [seen EXCEPT ![p] = @ \cup {c}]
  BY DEF First
<1>3. /\ \/ main' = [main EXCEPT ![p] = "ok"]
         \/ main' = [main EXCEPT ![p] = "grace"]
      /\ \/ found' = [found EXCEPT ![p] = <<>>]
         \/ found' = [found EXCEPT ![p] = Tail(@)]
  BY DEF First, Stop
<1>4. WaysOK'
  BY <1>2 DEF WaysOK, ways
<1> HIDE DEF c
<1>5. TypeOK'
  BY FirstType
<1>6. ASSUME NEW q \in Peers PROVE Best(q)'
  <2>1. CASE q = p
    <3>1. seen'[p] = {c} /\ winner'[p] = c /\ main'[p] \in {"ok", "grace"}
      BY <1>2, <1>3 DEF Best, TypeOK
    <3> QED
      BY <2>1, <3>1 DEF Best
  <2>2. CASE q # p
    BY <2>2, <1>2, <1>3, BestKept DEF TypeOK
  <2> QED
    BY <2>1, <2>2
<1> QED
  BY <1>4, <1>5, <1>6

\* The better of two is better than all that the other was better than.
LEMMA CompareIInv ==
  ASSUME IInv, NEW p \in Peers, Compare(p)
  PROVE  IInv'
<1> USE DEF IInv
<1> DEFINE c == Head(found[p])
           w == winner[p]
           better == IsBetter(p, c, w)
<1>1. c \in Links /\ Tail(found[p]) \in Seq(Links)
  BY DEF Compare, TypeOK
<1>2. /\ UNCHANGED <<ways, main>>
      /\ main[p] = "grace"
      /\ winner' = [winner EXCEPT ![p] = IF better THEN c ELSE w]
      /\ seen' = [seen EXCEPT ![p] = @ \cup {c}]
      /\ found' = [found EXCEPT ![p] = Tail(@)]
  BY DEF Compare
<1>3. WaysOK'
  BY <1>2 DEF WaysOK, ways
<1>4. w \in seen[p] /\ seen[p] \subseteq Links
  BY <1>2 DEF Best, TypeOK
<1>5. TypeOK'
  BY CompareType
<1>6. ASSUME NEW q \in Peers PROVE Best(q)'
  <2>1. CASE q = p
    <3> DEFINE new == IF better THEN c ELSE w
    <3>1. seen'[p] = seen[p] \cup {c} /\ winner'[p] = new /\ main'[p] = "grace"
      BY <1>2 DEF TypeOK
    <3>2. ASSUME NEW d \in seen[p] \cup {c} PROVE d = new \/ IsBetter(p, new, d)
      <4>1. d \in Links /\ (d \in seen[p] => d = w \/ IsBetter(p, w, d))
        BY <1>1, <1>2, <1>4 DEF Best
      <4>2. CASE better
        BY <1>1, <1>4, <4>1, <4>2, BetterIsTransitive
      <4>3. CASE ~better
        BY <1>1, <1>4, <4>1, <4>3, BetterIsTotal
      <4> QED
        BY <4>2, <4>3
    <3>3. new \in seen[p] \cup {c}
      BY <1>4
    <3> HIDE DEF new
    <3> QED
      BY <2>1, <3>1, <3>2, <3>3, <1>2, BestOfAll
  <2>2. CASE q # p
    BY <2>2, <1>2, BestKept DEF TypeOK
  <2> QED
    BY <2>1, <2>2
<1> QED
  BY <1>3, <1>5, <1>6

\* GraceEnds and GiveUp keep the winner, or the want of one.
LEMMA StopIInv ==
  ASSUME IInv, NEW p \in Peers, GraceEnds(p) \/ GiveUp(p)
  PROVE  IInv'
<1> USE DEF IInv
<1>1. /\ UNCHANGED <<ways, winner, seen>>
      /\ found' = [found EXCEPT ![p] = <<>>]
      /\ \/ main[p] = "grace" /\ main' = [main EXCEPT ![p] = "ok"]
         \/ main[p] = "wait" /\ main' = [main EXCEPT ![p] = "err"]
  BY DEF GraceEnds, GiveUp, Stop
<1>2. WaysOK'
  BY <1>1 DEF WaysOK, ways
<1>3. TypeOK'
  BY EndType
<1>4. ASSUME NEW q \in Peers PROVE Best(q)'
  <2>1. CASE q = p
    BY <2>1, <1>1, ZenonT(30) DEF Best, TypeOK, ways, IsBetter, Key, Smaller
  <2>2. CASE q # p
    BY <2>2, <1>1, BestKept DEF TypeOK
  <2> QED
    BY <2>1, <2>2
<1> QED
  BY <1>2, <1>3, <1>4

LEMMA NextIInv == IInv /\ [Next]_vars => IInv'
<1> SUFFICES ASSUME IInv, [Next]_vars PROVE IInv'
  OBVIOUS
<1>1. ASSUME NEW p \in Peers, NEW c \in Links, Task(p, c) PROVE IInv'
  BY <1>1, TaskIInv
<1>2. ASSUME NEW p \in Peers, Choice(p) PROVE IInv'
  BY <1>2, FirstIInv, CompareIInv, StopIInv DEF Choice
<1>3. ASSUME NEW p \in Peers, GiveUp(p) PROVE IInv'
  BY <1>3, StopIInv
<1>4. CASE UNCHANGED vars
  BY <1>4 DEF vars, ways, IInv, WaysOK, TypeOK, Best, IsBetter, Key, Smaller
<1> QED
  BY <1>1, <1>2, <1>3, <1>4 DEF Next, Over

LEMMA Invariance == Spec => []IInv
<1>1. Init => IInv
  BY InitIInv
<1>2. IInv /\ [Next]_vars => IInv'
  BY NextIInv
<1> QED
  BY <1>1, <1>2, PTL DEF Spec

\* Of two links each side looked at, the winner is the better for both, so there is one.
LEMMA BestIsUnique == IInv => SameViewSameWinner
<1> SUFFICES ASSUME IInv,
                    \A p \in Peers : Established(p),
                    seen["sender"] = seen["receiver"],
                    preferLan["sender"] = preferLan["receiver"],
                    \A c \in seen["sender"] : lan["sender"][c] = lan["receiver"][c],
                    winner["sender"] # winner["receiver"]
             PROVE  FALSE
  BY DEF SameViewSameWinner
<1> DEFINE s == winner["sender"]
           r == winner["receiver"]
<1>1. "sender" \in Peers /\ "receiver" \in Peers
  BY DEF Peers
<1>2. s \in seen["sender"] /\ r \in seen["sender"] /\ seen["sender"] \subseteq Links
  BY <1>1 DEF IInv, Best, Established, TypeOK
<1>3. IsBetter("sender", s, r) /\ IsBetter("receiver", r, s)
  BY <1>1, <1>2 DEF IInv, Best, Established
<1>4. IsBetter("sender", r, s)
  BY <1>2, <1>3, BothCompareAlike DEF IInv
<1> QED
  BY <1>1, <1>2, <1>3, <1>4, BetterIsAsymmetric DEF IInv

\* Two sides that prefer alike, classify alike and have looked at the same candidates
\* keep the same one, however many links came about (strategy.rs:169-179).
THEOREM SameViewGivesSameWinner == Spec => []SameViewSameWinner
<1>1. Spec => []IInv
  BY Invariance
<1>2. IInv => SameViewSameWinner
  BY BestIsUnique
<1> QED
  BY <1>1, <1>2, PTL

----------------------------------------------------------------------------
(* A side keeps a connection to the other one.                             *)

\* The channel holds open candidates, each once, and not the one already taken.
Queue(p) ==
  /\ \A i \in 1 .. Len(found[p]) :
       at[p][found[p][i]] = "candidate" /\ found[p][i] # winner[p]
  /\ \A i, j \in 1 .. Len(found[p]) : found[p][i] = found[p][j] => i = j

Kept(p) == main[p] \in {"grace", "ok"} => at[p][winner[p]] = "candidate"

\* A number on its way, or taken, was sent by the other side.
Met(p, c) ==
  coming[p][c] = "number" \/ at[p][c] = "candidate"
    => ends[Other(p)][c] # "none" /\ at[Other(p)][c] # "idle"

LInv ==
  /\ TypeOK
  /\ \A p \in Peers : Queue(p) /\ Kept(p)
  /\ \A p \in Peers, c \in Links : Met(p, c)

LEMMA InitLInv == Init => LInv
<1> SUFFICES ASSUME Init PROVE LInv
  OBVIOUS
<1>1. ASSUME NEW p \in Peers PROVE Queue(p) /\ Kept(p)
  BY DEF Init, Queue, Kept
<1>2. ASSUME NEW p \in Peers, NEW c \in Links PROVE Met(p, c)
  BY OtherType DEF Init, Met
<1> QED
  BY <1>1, <1>2, InitType DEF LInv

\* What a step of the choice does to the links: it closes some.
LEMMA ChoiceCloses ==
  ASSUME TypeOK, NEW p \in Peers, Choice(p) \/ GiveUp(p),
         NEW q \in Peers, NEW d \in Links
  PROVE  at'[q][d] = at[q][d] \/ at'[q][d] = "gone"
<1>1. CASE Stop(p, "ok") \/ Stop(p, "err")
  <2> DEFINE kept == [e \in Links |-> IF e = winner'[p] THEN at[p][e] ELSE "gone"]
  <2>1. at' = [at EXCEPT ![p] = kept]
    BY <1>1 DEF Stop
  <2>2. kept[d] = at[p][d] \/ kept[d] = "gone"
    OBVIOUS
  <2> HIDE DEF kept
  <2> QED
    BY <2>1, <2>2 DEF TypeOK
<1>2. CASE UNCHANGED at
  BY <1>2
<1>3. CASE Compare(p)
  BY <1>3 DEF Compare, TypeOK
<1> QED
  BY <1>1, <1>2, <1>3 DEF Choice, First, GraceEnds, GiveUp

LEMMA ChoiceMet ==
  ASSUME LInv, NEW p \in Peers, Choice(p) \/ GiveUp(p), NEW q \in Peers, NEW d \in Links
  PROVE  Met(q, d)'
<1>1. UNCHANGED <<ends, coming>>
  BY DEF Choice, First, Compare, GraceEnds, GiveUp, ways
<1>2. Other(q) \in Peers /\ Met(q, d) /\ TypeOK
  BY OtherType DEF LInv
<1>3. /\ at'[q][d] = at[q][d] \/ at'[q][d] = "gone"
      /\ at'[Other(q)][d] = at[Other(q)][d] \/ at'[Other(q)][d] = "gone"
  BY <1>2, ChoiceCloses
<1> QED
  BY <1>1, <1>2, <1>3 DEF Met

\* What a step of a task does to the links: none becomes idle, a candidate stays one, and
\* becomes one only when the number has come.
LEMMA TaskMoves ==
  ASSUME TypeOK, NEW p \in Peers, NEW c \in Links, Task(p, c),
         NEW q \in Peers, NEW d \in Links
  PROVE  /\ at'[q][d] = "idle" => at[q][d] = "idle"
         /\ at[q][d] = "candidate" => at'[q][d] = "candidate"
         /\ at'[q][d] = "candidate" => at[q][d] = "candidate" \/ coming[q][d] = "number"
<1>1. CASE Greet(p, c)
  BY <1>1 DEF Greet, TypeOK
<1>2. CASE Recognize(p, c)
  <2>1. at[p][c] = "greeted" /\ coming[p][c] = "number"
    BY <1>2 DEF Recognize
  <2> DEFINE a == [at[p] EXCEPT ![c] = "candidate"]
  <2>2. a[d] = IF d = c THEN "candidate" ELSE at[p][d]
    BY DEF TypeOK
  <2>3. at' = [at EXCEPT ![p] = Refused(p, a)] \/ at' = [at EXCEPT ![p] = a]
    BY <1>2 DEF Recognize, BecomesCandidate
  <2>4. a[d] # "idle" => Refused(p, a)[d] = a[d]
    BY DEF Refused
  <2> HIDE DEF a
  <2>5. q = p => at'[q][d] = Refused(p, a)[d] \/ at'[q][d] = a[d]
    BY <2>3 DEF TypeOK
  <2>6. q # p => at'[q][d] = at[q][d]
    BY <2>3 DEF TypeOK
  <2>7. Refused(p, a)[d] \in {a[d], "gone"}
    BY DEF Refused
  <2> QED
    BY <2>1, <2>2, <2>4, <2>5, <2>6, <2>7
<1>3. CASE Reject(p, c)
  BY <1>3 DEF Reject, Fails, TypeOK
<1> QED
  BY <1>1, <1>2, <1>3 DEF Task

LEMMA TaskMet ==
  ASSUME LInv, NEW p \in Peers, NEW c \in Links, Task(p, c), NEW q \in Peers, NEW d \in Links
  PROVE  Met(q, d)'
<1>1. Other(q) \in Peers /\ Met(q, d) /\ TypeOK /\ UNCHANGED ends
  BY OtherType DEF LInv, Task, Greet, Recognize, BecomesCandidate, Reject, ways
<1>2. /\ at'[Other(q)][d] = "idle" => at[Other(q)][d] = "idle"
      /\ at'[q][d] = "candidate" => at[q][d] = "candidate" \/ coming[q][d] = "number"
  BY <1>1, TaskMoves
<1>3. CASE coming'[q][d] = "number" /\ coming[q][d] # "number"
  <2>1. Greet(p, c)
    BY <1>3 DEF Task, Recognize, BecomesCandidate, Reject
  <2>2. coming' = [coming EXCEPT ![Other(p)][c] = "number"]
    BY <2>1, <1>3 DEF Greet, TypeOK, LInv
  <2>3. q = Other(p) /\ d = c
    BY <2>2, <1>1, <1>3, OtherType DEF TypeOK
  <2>4. Other(q) = p /\ ends[p][c] # "none" /\ at'[p][c] = "greeted"
    BY <2>1, <2>3, <1>1, OtherType DEF Greet, TypeOK
  <2> QED
    BY <1>1, <2>3, <2>4 DEF Met
<1> QED
  BY <1>1, <1>2, <1>3 DEF Met

\* A task appends to the channel a link that was not yet a candidate.
LEMMA TaskQueue ==
  ASSUME LInv, NEW p \in Peers, NEW c \in Links, Task(p, c), NEW q \in Peers
  PROVE  Queue(q)' /\ Kept(q)'
<1>1. TypeOK /\ Queue(q) /\ Kept(q) /\ UNCHANGED <<main, winner>>
  BY DEF LInv, Task, Greet, Recognize, BecomesCandidate, Reject
<1>2. \A d \in Links : at[q][d] = "candidate" => at'[q][d] = "candidate"
  BY <1>1, TaskMoves
<1>3. Kept(q)'
  BY <1>1, <1>2, ZenonT(30) DEF Kept, TypeOK
<1>4. \A i \in 1 .. Len(found[q]) : found[q][i] \in Links
  BY <1>1 DEF TypeOK
<1>5. CASE found'[q] = found[q]
  BY <1>1, <1>2, <1>3, <1>4, <1>5 DEF Queue
<1>6. CASE found'[q] # found[q]
  <2>1. Recognize(p, c)
    BY <1>6 DEF Task, Greet, Reject
  <2>2. found' = [found EXCEPT ![p] = Append(@, c)] /\ at[p][c] = "greeted"
    BY <2>1 DEF Recognize, BecomesCandidate
  <2>3. q = p /\ found'[q] = Append(found[q], c)
    BY <2>2, <1>1, <1>6 DEF TypeOK
  <2>4. at'[q][c] = "candidate" /\ at[q][c] # "candidate"
    BY <2>1, <2>2, <2>3, <1>1 DEF Recognize, BecomesCandidate, Refused, TypeOK
  <2>5. c # winner[q]
    BY <2>4, <1>1, LinksArePositive DEF Kept, TypeOK
  <2>6. \A i \in 1 .. Len(found[q]) : found[q][i] # c
    BY <2>4, <1>1 DEF Queue
  <2> DEFINE f == found[q]
  <2>7. f \in Seq(Links) /\ Len(Append(f, c)) = Len(f) + 1
        /\ \A i \in 1 .. Len(f) + 1 :
             Append(f, c)[i] = IF i = Len(f) + 1 THEN c ELSE f[i]
    BY <1>1 DEF TypeOK
  <2> HIDE DEF f
  <2>8. \A i \in 1 .. Len(f) : at'[q][f[i]] = "candidate" /\ f[i] # winner[q]
    BY <1>1, <1>2, <1>4 DEF Queue, f
  <2>9. \A i, j \in 1 .. Len(f) : f[i] = f[j] => i = j
    BY <1>1 DEF Queue, f
  <2>10. \A i \in 1 .. Len(f) : f[i] # c
    BY <2>6 DEF f
  <2>11. Len(f) \in Nat /\ \A i \in 1 .. Len(f) + 1 : i = Len(f) + 1 \/ i \in 1 .. Len(f)
    BY <2>7
  <2> DEFINE g == Append(f, c)
  <2>12. \A i \in 1 .. Len(g) : at'[q][g[i]] = "candidate" /\ g[i] # winner[q]
    BY <2>4, <2>5, <2>7, <2>8, <2>11
  <2>13. \A i, j \in 1 .. Len(g) : g[i] = g[j] => i = j
    BY <2>7, <2>9, <2>10, <2>11
  <2>14. found'[q] = g /\ winner'[q] = winner[q]
    BY <2>3, <1>1 DEF f
  <2> QED
    BY <1>3, <2>12, <2>13, <2>14 DEF Queue
<1> QED
  BY <1>5, <1>6

\* A side the step of the other's choice leaves alone.
LEMMA ChoiceOfOther ==
  ASSUME LInv, NEW p \in Peers, Choice(p) \/ GiveUp(p), NEW q \in Peers, q # p
  PROVE  Queue(q)' /\ Kept(q)'
<1>1. /\ at'[q] = at[q] /\ found'[q] = found[q]
      /\ winner'[q] = winner[q] /\ main'[q] = main[q]
  <2>1. CASE First(p)
    BY <2>1 DEF First, Stop, LInv, TypeOK
  <2>2. CASE Compare(p)
    BY <2>2 DEF Compare, LInv, TypeOK
  <2>3. CASE GraceEnds(p) \/ GiveUp(p)
    BY <2>3 DEF GraceEnds, GiveUp, Stop, LInv, TypeOK
  <2> QED
    BY <2>1, <2>2, <2>3 DEF Choice
<1>2. Queue(q) /\ Kept(q)
  BY DEF LInv
<1> QED
  BY <1>1, <1>2 DEF Queue, Kept

\* What Stop leaves of the side itself.
LEMMA StopQueue ==
  ASSUME TypeOK, NEW p \in Peers, NEW o \in {"ok", "err"}, Stop(p, o),
         o = "ok" => winner'[p] \in Links /\ at[p][winner'[p]] = "candidate"
  PROVE  Queue(p)' /\ Kept(p)'
<1>1. found'[p] = <<>> /\ main'[p] = o
  BY DEF Stop, TypeOK
<1>2. o = "ok" => at'[p][winner'[p]] = "candidate"
  BY DEF Stop, TypeOK
<1>3. Queue(p)'
  BY <1>1 DEF Queue
<1> QED
  BY <1>1, <1>2, <1>3 DEF Kept

\* What is behind the head of the channel.
LEMMA TailOfQueue ==
  ASSUME TypeOK, NEW p \in Peers, Queue(p), found[p] # <<>>
  PROVE  /\ Head(found[p]) \in Links /\ at[p][Head(found[p])] = "candidate"
         /\ Head(found[p]) # winner[p]
         /\ \A i \in 1 .. Len(Tail(found[p])) :
              /\ Tail(found[p])[i] \in Links
              /\ at[p][Tail(found[p])[i]] = "candidate"
              /\ Tail(found[p])[i] \notin {winner[p], Head(found[p])}
         /\ \A i, j \in 1 .. Len(Tail(found[p])) :
              Tail(found[p])[i] = Tail(found[p])[j] => i = j
<1> DEFINE f == found[p]
<1>1. f \in Seq(Links) /\ Len(f) \in Nat /\ Len(f) > 0
  BY DEF TypeOK
<1>2. Head(f) = f[1] /\ Len(Tail(f)) = Len(f) - 1
  BY <1>1
<1>3. \A i \in 1 .. Len(f) - 1 : Tail(f)[i] = f[i + 1] /\ i + 1 \in 1 .. Len(f) /\ i + 1 # 1
  BY <1>1
<1>4. \A i \in 1 .. Len(f) : f[i] \in Links /\ at[p][f[i]] = "candidate" /\ f[i] # winner[p]
  BY <1>1 DEF Queue
<1>5. \A i, j \in 1 .. Len(f) : f[i] = f[j] => i = j
  BY DEF Queue
<1>6. 1 \in 1 .. Len(f)
  BY <1>1
<1> HIDE DEF f
<1>7. \A i, j \in 1 .. Len(f) - 1 : Tail(f)[i] = Tail(f)[j] => i = j
  BY <1>1, <1>3, <1>5
<1>8. \A i \in 1 .. Len(f) - 1 :
        /\ Tail(f)[i] \in Links /\ at[p][Tail(f)[i]] = "candidate"
        /\ Tail(f)[i] # winner[p] /\ Tail(f)[i] # f[1]
  BY <1>3, <1>4, <1>5, <1>6
<1>9. f[1] \in Links /\ at[p][f[1]] = "candidate" /\ f[1] # winner[p]
  BY <1>4, <1>6
<1> QED
  BY <1>2, <1>7, <1>8, <1>9 DEF f

LEMMA ChoiceQueue ==
  ASSUME LInv, NEW p \in Peers, Choice(p) \/ GiveUp(p)
  PROVE  Queue(p)' /\ Kept(p)'
<1> DEFINE c == Head(found[p])
           t == Tail(found[p])
<1>1. TypeOK /\ Queue(p) /\ Kept(p)
  BY DEF LInv
<1>2. ASSUME found[p] # <<>>
      PROVE  /\ c \in Links /\ at[p][c] = "candidate" /\ c # winner[p]
             /\ \A i \in 1 .. Len(t) :
                  t[i] \in Links /\ at[p][t[i]] = "candidate" /\ t[i] \notin {winner[p], c}
             /\ \A i, j \in 1 .. Len(t) : t[i] = t[j] => i = j
  BY <1>1, <1>2, TailOfQueue
<1>3. CASE First(p)
  <2>1. found[p] # <<>> /\ winner'[p] = c
    BY <1>3, <1>1 DEF First, TypeOK
  <2>2. CASE Stop(p, "ok")
    BY <1>1, <1>2, <2>1, <2>2, StopQueue
  <2>3. CASE ~Stop(p, "ok")
    <3>1. main'[p] = "grace" /\ found'[p] = t /\ UNCHANGED at
      BY <1>3, <1>1, <2>3 DEF First, TypeOK
    <3> HIDE DEF c, t
    <3> QED
      BY <1>2, <2>1, <3>1 DEF Queue, Kept
  <2> QED
    BY <2>2, <2>3
<1>4. CASE Compare(p)
  <2> DEFINE better == IsBetter(p, c, winner[p])
             best == IF better THEN c ELSE winner[p]
             worse == IF better THEN winner[p] ELSE c
  <2>1. /\ found[p] # <<>> /\ main[p] = "grace" /\ UNCHANGED main
        /\ winner'[p] = best /\ found'[p] = t
        /\ at' = [at EXCEPT ![p][worse] = "gone"]
    BY <1>4, <1>1 DEF Compare, TypeOK
  <2>2. winner[p] \in Links /\ at[p][winner[p]] = "candidate"
    BY <2>1, <1>1 DEF Kept, TypeOK
  <2>3. best \in Links /\ worse \in Links /\ best # worse
        /\ at[p][best] = "candidate" /\ best \in {c, winner[p]} /\ worse \in {c, winner[p]}
    BY <1>2, <2>1, <2>2
  <2> HIDE DEF best, worse, c, t
  <2>4. \A d \in Links : d # worse => at'[p][d] = at[p][d]
    BY <2>1, <2>3, <1>1 DEF TypeOK
  <2>5. Kept(p)'
    BY <2>1, <2>3, <2>4 DEF Kept
  <2>6. \A i \in 1 .. Len(t) : at'[p][t[i]] = "candidate" /\ t[i] # best
    BY <1>2, <2>1, <2>3, <2>4
  <2> QED
    BY <1>2, <2>1, <2>5, <2>6 DEF Queue
<1>5. CASE GraceEnds(p)
  <2>1. main[p] = "grace" /\ UNCHANGED winner /\ Stop(p, "ok")
    BY <1>5 DEF GraceEnds
  <2>2. winner[p] \in Links /\ at[p][winner[p]] = "candidate"
    BY <2>1, <1>1 DEF Kept, TypeOK
  <2> QED
    BY <2>1, <2>2, <1>1, StopQueue
<1>6. CASE GiveUp(p)
  BY <1>6, <1>1, StopQueue DEF GiveUp
<1> QED
  BY <1>3, <1>4, <1>5, <1>6 DEF Choice

LEMMA NextLInv == LInv /\ [Next]_vars => LInv'
<1> SUFFICES ASSUME LInv, [Next]_vars PROVE LInv'
  OBVIOUS
<1>1. TypeOK'
  BY NextType DEF LInv
<1>2. ASSUME NEW p \in Peers, NEW c \in Links, Task(p, c) PROVE LInv'
  BY <1>1, <1>2, TaskMet, TaskQueue DEF LInv
<1>3. ASSUME NEW p \in Peers, Choice(p) \/ GiveUp(p) PROVE LInv'
  BY <1>1, <1>3, ChoiceMet, ChoiceQueue, ChoiceOfOther DEF LInv
<1>4. CASE UNCHANGED vars
  BY <1>1, <1>4 DEF LInv, vars, ways, Queue, Kept, Met
<1> QED
  BY <1>2, <1>3, <1>4 DEF Next, Over

\* The connection a side keeps is open and leads to the other side, whoever else has
\* reached a punch port (helpers.rs:80-82, strategy.rs:372-394).
THEOREM WinnerIsOfPeer == Spec => []WinnerLeadsToPeer
<1>1. LInv => WinnerLeadsToPeer
  <2> SUFFICES ASSUME LInv, NEW p \in Peers, Established(p)
               PROVE  /\ at[p][winner[p]] = "candidate"
                      /\ ends[Other(p)][winner[p]] # "none"
                      /\ at[Other(p)][winner[p]] # "idle"
    BY DEF WinnerLeadsToPeer
  <2>1. TypeOK /\ Kept(p) /\ main[p] = "ok"
    BY DEF LInv, Established
  <2>2. winner[p] \in Links /\ at[p][winner[p]] = "candidate"
    BY <2>1 DEF TypeOK, Kept
  <2>3. Met(p, winner[p])
    BY <2>2 DEF LInv
  <2> QED
    BY <2>2, <2>3 DEF Met
<1> QED
  BY <1>1, InitLInv, NextLInv, PTL DEF Spec
=============================================================================
