------------------------------ MODULE BenchProofs ------------------------------
(***************************************************************************)
(* Proofs about Bench: for all lists of connections, all amounts, any      *)
(* number of round trips, samples, breaks and units on their way.          *)
(*                                                                         *)
(* Five of its properties follow from one invariant, Inv, which says what  *)
(* each side has written and read, and what is under way between them.     *)
(* The measurement rests on sums: the shares make up the whole, a counter  *)
(* is the sum of what the tasks have done, and two lists with the same sum *)
(* of which one nowhere exceeds the other are the same.  A sum is given by *)
(* its partial sums, a function; what holds of all sums is shown from the  *)
(* least place at which it would not.                                      *)
(*                                                                         *)
(* The order: sums; what a step leaves alone and what it does to a         *)
(* connection; the sender's steps; the steps that fail; the receiver's;    *)
(* the connections'; the theorems.                                         *)
(***************************************************************************)
EXTENDS Bench, FiniteSetTheorems, SequenceTheorems, WellFoundedInduction, TLAPS

(***************************************************************************)
(* The invariant.  Each direction of the control connection carries one    *)
(* sequence of frames, whatever the timing; what each side has done says   *)
(* how far it has got in them, and what is under way is what lies between. *)
(***************************************************************************)

\* Both sides take the same connection for control.
SameControl == Control("sender") = Control("receiver")

Working(d) == pc[d] \in {"tasks", "result", "ok"}

\* The i-th item the sender puts on the control connection, and the receiver.
Param(i) == IF i = 1 THEN Gross ELSE IF i = 2 THEN 250 ELSE setup.rtt
FromSender(i) ==
  IF i <= 3 THEN Frame("PARAMS", Param(i))
  ELSE IF i <= 3 + setup.rtt THEN Frame("PING", i - 4)
  ELSE IF i = 4 + setup.rtt THEN Frame("GO", 0)
  ELSE Payload
FromReceiver(i) ==
  IF i <= setup.rtt THEN Frame("PONG", i - 1) ELSE Frame("RESULT", Report[i - setup.rtt])

\* Frames the sender has written, and the receiver read.
FramesSent ==
  IF pc["sender"] = "params" THEN 3 - left["sender"]
  ELSE IF pc["sender"] = "ping" THEN 3 + setup.rtt - left["sender"]
  ELSE IF pc["sender"] = "pong" THEN 4 + setup.rtt - left["sender"]
  ELSE IF pc["sender"] = "go" THEN 3 + setup.rtt
  ELSE 4 + setup.rtt
FramesRead ==
  IF pc["receiver"] = "params" THEN 3 - left["receiver"]
  ELSE IF pc["receiver"] = "ping" THEN 3 + setup.rtt - left["receiver"]
  ELSE IF pc["receiver"] = "go" THEN 3 + setup.rtt
  ELSE 4 + setup.rtt

\* Units of payload side d has written to connection z, or read from it.
Units(d, z) ==
  IF Working(d) /\ z \in Range(List(d)) THEN Share(List(d), Gross, z) - todo[d][z] ELSE 0

Sent(z) == Units("sender", z) + IF z = Control("sender") THEN FramesSent ELSE 0
Read(z) == Units("receiver", z) + IF z = Control("receiver") THEN FramesRead ELSE 0

\* Frames the receiver has written, and the sender read.
Total == setup.rtt + 3 + Len(series)
Written ==
  IF pc["receiver"] = "params" THEN 0
  ELSE IF pc["receiver"] = "ping" THEN setup.rtt - left["receiver"]
  ELSE IF pc["receiver"] \in {"go", "tasks"} THEN setup.rtt
  ELSE IF pc["receiver"] = "result" THEN Total - left["receiver"]
  ELSE Total
Taken ==
  IF pc["sender"] = "params" THEN 0
  ELSE IF pc["sender"] \in {"ping", "pong"} THEN setup.rtt - left["sender"]
  ELSE setup.rtt + Len(got)

\* What each side has done.
SenderState ==
  /\ pc["sender"] = "params" => left["sender"] \in 1 .. 3
  /\ pc["sender"] \in {"ping", "pong"} => left["sender"] \in 1 .. setup.rtt
  /\ pc["sender"] \in {"params", "ping", "pong", "go", "tasks"} => got = <<>>
  /\ pc["sender"] = "result" => Len(got) < 3 + Len(series)
  /\ pc["sender"] = "ok" => Len(got) = 3 + Len(series)
ReceiverState ==
  /\ pc["receiver"] = "params" => left["receiver"] \in 1 .. 3 /\ Len(param) = 3 - left["receiver"]
  /\ pc["receiver"] \in {"ping", "go", "tasks", "result", "ok"} => Len(param) = 3
  /\ pc["receiver"] = "ping" /\ SameControl => left["receiver"] \in 1 .. setup.rtt
  /\ pc["receiver"] = "result" => left["receiver"] \in 1 .. 3 + Len(series)
  /\ pc["receiver"] \in {"params", "ping", "go"} =>
       measured = -1 /\ received = 0 /\ series = <<>> /\ sampled = 0
  /\ SameControl => \A k \in DOMAIN param : param[k] = Param(k)
TaskState(d) ==
  Working(d) => \A z \in Range(List(d)) :
    /\ todo[d][z] <= Share(List(d), Gross, z)
    /\ task[d][z] = "ok" => todo[d][z] = 0
    /\ pc[d] # "tasks" => task[d][z] = "ok"
Holding ==
  \A d \in Sides :
    open[d] = IF pc[d] = "error" \/ (pc[d] = "ok" /\ ~setup.then) THEN {} ELSE Range(List(d))

\* What is under way to the receiver.
WireOut ==
  SameControl /\ pc["receiver"] # "error" =>
    /\ \A k \in DOMAIN wire["sender"][Control("sender")] :
         wire["sender"][Control("sender")][k] = FromSender(Read(Control("sender")) + k)
    /\ pc["sender"] # "error" => \A z \in Connections \ broken :
         Len(wire["sender"][z]) = Sent(z) - Read(z)
NumbersOut == \A z \in Connections : \A k \in DOMAIN wire["sender"][z] : wire["sender"][z][k].v \in Nat

\* What is under way to the sender.
WireBack ==
  /\ \A z \in Connections \ {Control("receiver")} : wire["receiver"][z] = <<>>
  /\ SameControl /\ pc["sender"] # "error" =>
       LET line == wire["receiver"][Control("sender")]
       IN /\ \A k \in DOMAIN line : line[k] = FromReceiver(Taken + k)
          /\ \A k \in DOMAIN got : got[k] = Report[k]
          /\ pc["receiver"] # "error" => /\ Taken + Len(line) <= Written
                                         /\ Control("sender") \notin broken => Taken + Len(line) = Written
          /\ pc["receiver"] = "error" => Taken + Len(line) < Total

\* A receiver that waits for its frames on another connection finds nothing but payload.
Apart ==
  ~SameControl =>
    /\ pc["receiver"] \in {"params", "ping", "error"} /\ pc["sender"] # "ok"
    /\ got = <<>>
    /\ \A z \in Connections : wire["receiver"][z] = <<>>
    /\ \A k \in DOMAIN wire["sender"][Control("receiver")] :
         wire["sender"][Control("receiver")][k] = Payload
    /\ \A k \in DOMAIN param : param[k] = 99

\* What is read adds up, connection after connection, to what the counter says; the values
\* of the time series to what the last one was taken at.
Sums(g, l, f) ==
  /\ g \in [0 .. Len(l) -> Int] /\ g[0] = 0
  /\ \A i \in 1 .. Len(l) : g[i] = g[i - 1] + f[l[i]]
ReadAddsUp ==
  Working("receiver") =>
    \E g : /\ Sums(g, List("receiver"), [z \in Connections |-> Units("receiver", z)])
           /\ g[Len(List("receiver"))] = received
SeriesAddsUp ==
  \E g : /\ g \in [0 .. Len(series) -> Int] /\ g[0] = 0
         /\ \A i \in 1 .. Len(series) : g[i] = g[i - 1] + series[i]
         /\ g[Len(series)] = sampled

\* Tasks that will mark the end of the warm-up if nobody has.
Marking ==
  {z \in Range(List("receiver")) : task["receiver"][z] = "mark" /\ before[z] >= WARM_UP}
Warming ==
  /\ \A z \in Connections : before[z] <= received
  /\ measured = -1 => /\ received < WARM_UP + BLOCK * Cardinality(Marking)
                      /\ received >= WARM_UP => Marking # {}
  /\ measured # -1 => /\ measured >= WARM_UP
                      /\ measured < WARM_UP + BLOCK * Len(List("receiver"))

\* Nothing has happened that could make a side fail.
Sound == broken = {} /\ ~late /\ List("sender") = List("receiver")
Unfailing ==
  Sound => \A d \in Sides :
    pc[d] # "error" /\ \A z \in Range(List(d)) : task[d][z] # "error"

Inv ==
  /\ TypeOK /\ NumbersOut /\ Holding
  /\ SenderState /\ ReceiverState /\ TaskState("sender") /\ TaskState("receiver")
  /\ WireOut /\ WireBack /\ Apart
  /\ ReadAddsUp /\ SeriesAddsUp /\ Warming /\ Unfailing

----------------------------------------------------------------------------
(* The lists and the shares.                                               *)

\* A set of natural numbers that is not empty has a least element.
LEMMA Least ==
  ASSUME NEW S \in SUBSET Nat, S # {}
  PROVE  \E x \in S : \A y \in S : x <= y
<1>. DEFINE Less == OpToRel(<, Nat)
<1>1. \E x \in S : \A y \in S : <<y, x>> \notin Less
  <2>1. IsWellFoundedOn(Less, Nat)
    BY NatLessThanWellFounded
  <2>. QED
    BY <2>1, WFMin
<1>2. \A x, y \in Nat : <<y, x>> \in Less <=> y < x
  BY DEF OpToRel
<1>. HIDE DEF Less
<1>3. PICK x \in S : \A y \in S : <<y, x>> \notin Less
  BY <1>1
<1>4. ASSUME NEW y \in S PROVE x <= y
  <2>1. x \in Nat /\ y \in Nat
    BY <1>3
  <2>2. ~(y < x)
    BY <1>2, <1>3, <2>1
  <2>. QED
    BY <2>1, <2>2
<1>. QED
  BY <1>4

\* There are two sides, each the other of the other.
LEMMA SideFacts ==
  /\ Sides = {"sender", "receiver"}
  /\ Other("sender") = "receiver" /\ Other("receiver") = "sender"
BY DEF Sides, Other

\* What is assumed of the constants.
LEMMA ConstantFacts ==
  /\ WARM_UP \in Nat \ {0} /\ BLOCK \in Nat \ {0} /\ Buffer \in Nat \ {0}
  /\ MaxSamples \in Nat /\ MaxBreaks \in Nat
BY BenchAssumption

\* The lists of a setup: without repetition, and never empty.
LEMMA ListFacts ==
  ASSUME setup \in Setups, NEW d \in Sides
  PROVE  /\ List(d) \in Seq(Range(List(d))) /\ List(d) # <<>> /\ IsInjective(List(d))
         /\ Range(List(d)) \subseteq Connections
         /\ Control(d) \in Range(List(d)) /\ Control(d) = List(d)[1]
         /\ Len(List(d)) \in Nat \ {0}
         /\ setup.total \in Nat /\ setup.rtt \in Nat /\ Gross \in Nat /\ Gross >= WARM_UP
<1>1. /\ List(d) \in {setup.sender, setup.receiver}
      /\ Range(List(d)) \subseteq Range(setup.sender) \cup Range(setup.receiver)
  BY SideFacts DEF List
<1>2. List(d) \in Seq(Range(List(d))) \ {<<>>} /\ IsInjective(List(d))
  BY <1>1, BenchAssumption
<1>3. Range(List(d)) \subseteq Connections
  BY <1>1 DEF Connections
<1>4. Len(List(d)) \in Nat \ {0} /\ Control(d) = List(d)[1] /\ 1 \in DOMAIN List(d)
  <2>. DEFINE l == List(d)
  <2>. HIDE DEF l
  <2>1. l \in Seq(Range(l)) /\ l # <<>>
    BY <1>2 DEF l
  <2>2. Len(l) \in Nat \ {0} /\ Head(l) = l[1] /\ 1 \in DOMAIN l
    BY <2>1, EmptySeq, LenProperties
  <2>. QED
    BY <2>2 DEF l, Control
<1>5. Control(d) \in Range(List(d))
  BY <1>4 DEF Range
<1>6. setup.total \in Nat /\ setup.rtt \in Nat
  BY BenchAssumption
<1>7. Gross \in Nat /\ Gross >= WARM_UP
  BY <1>6, ConstantFacts DEF Gross
<1>. QED
  BY <1>2, <1>3, <1>4, <1>5, <1>6, <1>7

\* What a connection's share is, by its place in the list.
LEMMA ShareFacts ==
  ASSUME NEW l, l \in Seq(Range(l)), l # <<>>, IsInjective(l), NEW all \in Nat
  PROVE  /\ Len(l) \in Nat \ {0}
         /\ all \div Len(l) \in Nat /\ all % Len(l) \in Nat /\ all % Len(l) < Len(l)
         /\ all = Len(l) * (all \div Len(l)) + (all % Len(l))
         /\ \A j \in 1 .. Len(l) :
              Share(l, all, l[j]) = all \div Len(l) + IF j <= all % Len(l) THEN 1 ELSE 0
         /\ \A z \in Range(l) : Share(l, all, z) \in Nat
<1>1. Len(l) \in Nat \ {0} /\ DOMAIN l = 1 .. Len(l)
  BY EmptySeq, LenProperties
<1>2. \A n \in Nat \ {0} : /\ all \div n \in Nat /\ all % n \in Nat /\ all % n < n
                           /\ all = n * (all \div n) + (all % n)
  OBVIOUS
<1>3. ASSUME NEW j \in 1 .. Len(l)
      PROVE  Share(l, all, l[j]) = all \div Len(l) + IF j <= all % Len(l) THEN 1 ELSE 0
  <2>1. (CHOOSE i \in DOMAIN l : l[i] = l[j]) = j
    BY <1>1 DEF IsInjective
  <2>. QED
    BY <2>1 DEF Share
<1>4. ASSUME NEW z \in Range(l) PROVE Share(l, all, z) \in Nat
  <2>1. PICK j \in 1 .. Len(l) : z = l[j]
    BY <1>1 DEF Range
  <2>. QED
    BY <2>1, <1>1, <1>2, <1>3
<1>. QED
  BY <1>1, <1>2, <1>3, <1>4

\* A part that grows makes the sum grow by as much.
OnePartMore(Names, l, f, F, z, x, h) ==
  /\ l \in Seq(Names) /\ IsInjective(l) /\ z \in Range(l) /\ x \in Int
  /\ f \in [Names -> Int] /\ h \in [Names -> Int] /\ Sums(F, l, f)
  /\ (\A y \in Names \ {z} : h[y] = f[y]) /\ h[z] = f[z] + x

\* See OnePartMore: from the grown part on, every partial sum is greater by as much.
LEMMA PartGrows ==
  ASSUME NEW Names, NEW l, NEW f, NEW F, NEW z, NEW x, NEW h, OnePartMore(Names, l, f, F, z, x, h)
  PROVE  \E H : Sums(H, l, h) /\ H[Len(l)] = F[Len(l)] + x
<1>0. /\ l \in Seq(Names) /\ IsInjective(l) /\ z \in Range(l) /\ x \in Int
      /\ f \in [Names -> Int] /\ h \in [Names -> Int] /\ Sums(F, l, f)
      /\ (\A y \in Names \ {z} : h[y] = f[y]) /\ h[z] = f[z] + x
  BY DEF OnePartMore
<1>. DEFINE n == Len(l)
<1>1. n \in Nat /\ DOMAIN l = 1 .. n /\ \A i \in 1 .. n : l[i] \in Names
  BY <1>0, LenProperties, ElementOfSeq
<1>2. PICK j \in 1 .. n : z = l[j]
  BY <1>0, <1>1 DEF Range
<1>3. /\ F \in [0 .. n -> Int] /\ F[0] = 0
      /\ \A i \in 1 .. n : F[i] = F[i - 1] + f[l[i]]
  BY <1>0 DEF Sums
<1>. DEFINE H == [i \in 0 .. n |-> IF i >= j THEN F[i] + x ELSE F[i]]
<1>4. H \in [0 .. n -> Int] /\ H[0] = 0 /\ H[n] = F[n] + x
  BY <1>0, <1>1, <1>3
<1>5. ASSUME NEW i \in 1 .. n PROVE H[i] = H[i - 1] + h[l[i]]
  <2>0. i - 1 \in 0 .. n /\ i \in 0 .. n
    BY <1>1
  <2>1. F[i] \in Int /\ F[i - 1] \in Int /\ f[l[i]] \in Int /\ x \in Int
    BY <1>0, <1>1, <1>3, <2>0
  <2>2. F[i] = F[i - 1] + f[l[i]]
    BY <1>3
  <2>3. h[l[i]] = IF i = j THEN f[l[i]] + x ELSE f[l[i]]
    <3>1. l[i] = z <=> i = j
      BY <1>0, <1>1, <1>2 DEF IsInjective
    <3>. QED
      BY <1>0, <3>1, <1>1
  <2>4. /\ H[i] = (IF i >= j THEN F[i] + x ELSE F[i])
        /\ H[i - 1] = IF i - 1 >= j THEN F[i - 1] + x ELSE F[i - 1]
    BY <2>0
  <2>5. i \in Int /\ j \in Int
    BY <1>1
  <2>. HIDE DEF H
  <2>6. CASE i < j
    BY <2>5, <2>1, <2>2, <2>3, <2>4, <2>6
  <2>7. CASE i = j
    BY <2>5, <2>1, <2>2, <2>3, <2>4, <2>7
  <2>8. CASE i > j
    BY <2>5, <2>1, <2>2, <2>3, <2>4, <2>8
  <2>. QED
    BY <2>5, <2>6, <2>7, <2>8
<1>6. Sums(H, l, h)
  BY <1>4, <1>5 DEF Sums
<1>. QED
  BY <1>4, <1>6

\* The sum of the shares is what there was to share.
LEMMA SharesAddUp ==
  ASSUME NEW l, l \in Seq(Range(l)), l # <<>>, IsInjective(l), NEW all \in Nat,
         NEW f, NEW g, Sums(g, l, f), \A z \in Range(l) : f[z] = Share(l, all, z)
  PROVE  g[Len(l)] = all
<1>. DEFINE n == Len(l)
            q == all \div n
            m == all % n
            Good(i) == g[i] = i * q + IF i <= m THEN i ELSE m
            bad == {i \in 0 .. n : ~Good(i)}
<1>1. n \in Nat \ {0} /\ q \in Nat /\ m \in Nat /\ m < n /\ all = n * q + m
  BY ShareFacts
<1>2. ASSUME NEW i \in 1 .. n PROVE g[i] = g[i - 1] + (q + IF i <= m THEN 1 ELSE 0)
  <2>1. l[i] \in Range(l)
    BY LenProperties DEF Range
  <2>2. g[i] = g[i - 1] + f[l[i]]
    BY DEF Sums
  <2>3. Share(l, all, l[i]) = q + IF i <= m THEN 1 ELSE 0
    BY ShareFacts
  <2>. QED
    BY <2>1, <2>2, <2>3
<1>3. \A i \in 0 .. n : g[i] \in Int
  BY DEF Sums
<1>0. g[0] = 0
  BY DEF Sums
<1>. HIDE DEF n, q, m
<1>4. bad = {}
  <2>1. SUFFICES ASSUME bad # {} PROVE FALSE
    OBVIOUS
  <2>2. bad \in SUBSET Nat
    BY <1>1
  <2>3. PICK i \in bad : \A k \in bad : i <= k
    BY <2>1, <2>2, Least
  <2>4. i \in 0 .. n /\ ~Good(i)
    BY <2>3
  <2>5. i # 0
    <3>1. Good(0)
      BY <1>0, <1>1
    <3>. QED
      BY <2>4, <3>1
  <2>6. i \in 1 .. n /\ i - 1 \in 0 .. n /\ i - 1 \notin bad
    BY <1>1, <2>3, <2>4, <2>5
  <2>7. g[i - 1] = (i - 1) * q + IF i - 1 <= m THEN i - 1 ELSE m
    BY <2>6
  <2>8. g[i] = g[i - 1] + (q + IF i <= m THEN 1 ELSE 0)
    BY <1>2, <2>6
  <2>9. (i - 1) * q + q = i * q
    BY <1>1, <2>6
  <2>10. (i - 1) * q \in Int /\ i * q \in Int /\ g[i] \in Int /\ g[i - 1] \in Int
    BY <1>1, <1>3, <2>6 DEF n
  <2>11. g[i] = i * q + IF i <= m THEN i ELSE m
    <3>. DEFINE a == (i - 1) * q
                b == i * q
    <3>1. a + q = b /\ a \in Int /\ b \in Int
      BY <2>9, <2>10
    <3>. HIDE DEF a, b
    <3>2. g[i - 1] = a + IF i - 1 <= m THEN i - 1 ELSE m
      BY <2>7 DEF a
    <3>3. g[i] = b + IF i <= m THEN i ELSE m
      BY <1>1, <2>6, <2>8, <2>10, <3>1, <3>2
    <3>. QED
      BY <3>3 DEF b
  <2>. QED
    BY <2>4, <2>11
<1>5. Good(n)
  BY <1>1, <1>4
<1>6. g[n] = n * q + m
  BY <1>1, <1>5
<1>7. g[n] = all
  BY <1>1, <1>6
<1>. QED
  BY <1>7 DEF n

\* Sums of natural numbers are not negative.
LEMMA SumIsNat ==
  ASSUME NEW Names, NEW l \in Seq(Names), NEW f \in [Names -> Nat], NEW F, Sums(F, l, f)
  PROVE  F[Len(l)] >= 0 /\ F[Len(l)] \in Int
<1>. DEFINE n == Len(l)
            bad == {i \in 0 .. n : F[i] < 0}
<1>1. n \in Nat /\ \A i \in 1 .. n : l[i] \in Names
  BY LenProperties, ElementOfSeq
<1>2. /\ F \in [0 .. n -> Int] /\ F[0] = 0
      /\ \A i \in 1 .. n : F[i] = F[i - 1] + f[l[i]]
  BY DEF Sums
<1>. HIDE DEF n
<1>3. bad = {}
  <2>1. SUFFICES ASSUME bad # {} PROVE FALSE
    OBVIOUS
  <2>2. bad \in SUBSET Nat
    BY <1>1
  <2>3. PICK i \in bad : \A k \in bad : i <= k
    BY <2>1, <2>2, Least
  <2>4. i \in 1 .. n /\ F[i] < 0 /\ i - 1 \in 0 .. n /\ i - 1 \notin bad
    BY <1>1, <1>2, <2>3
  <2>5. F[i - 1] \in Int /\ F[i - 1] >= 0 /\ f[l[i]] \in Nat /\ F[i] = F[i - 1] + f[l[i]]
    BY <1>1, <1>2, <2>4
  <2>. QED
    BY <2>4, <2>5
<1>4. F[n] \in Int /\ n \in 0 .. n
  BY <1>1, <1>2
<1>5. F[n] >= 0
  BY <1>3, <1>4
<1>. QED
  BY <1>4, <1>5 DEF n

\* Without one part the sum is less by it.
LEMMA PartTaken ==
  ASSUME NEW Names, NEW l \in Seq(Names), IsInjective(l), NEW f \in [Names -> Nat],
         NEW F, Sums(F, l, f), NEW z \in Range(l)
  PROVE  \E H : Sums(H, l, [f EXCEPT ![z] = 0]) /\ H[Len(l)] = F[Len(l)] - f[z]
<1>. DEFINE h == [f EXCEPT ![z] = 0]
            x == -f[z]
<1>1. z \in Names
  BY LenProperties, ElementOfSeq DEF Range
<1>2. f \in [Names -> Int] /\ h \in [Names -> Int] /\ x \in Int /\ h[z] = f[z] + x
  BY <1>1
<1>3. \A y \in Names \ {z} : h[y] = f[y]
  BY <1>1
<1>4. F[Len(l)] + x = F[Len(l)] - f[z]
  BY <1>1, SumIsNat
<1>. HIDE DEF h, x
<1>5. OnePartMore(Names, l, f, F, z, x, h)
  BY <1>2, <1>3 DEF OnePartMore
<1>6. \E H : Sums(H, l, h) /\ H[Len(l)] = F[Len(l)] + x
  BY <1>5, PartGrows
<1>. QED
  BY <1>4, <1>6 DEF h

\* If no part of a list is greater than that part of another list, its sum is not; parts
\* have names, and a name that is not on the list has no part.
Below(Names, l, m, f, h, F, H) ==
  /\ l \in Seq(Names) /\ m \in Seq(Names) /\ IsInjective(l) /\ IsInjective(m)
  /\ f \in [Names -> Nat] /\ h \in [Names -> Nat]
  /\ \A z \in Names : f[z] <= h[z]
  /\ \A z \in Names \ Range(m) : h[z] = 0
  /\ Sums(F, l, f) /\ Sums(H, m, h)
Dominates(k) ==
  \A Names, l, m, f, h, F, H :
    Below(Names, l, m, f, h, F, H) /\ Len(l) = k => F[Len(l)] <= H[Len(m)]

\* One part more: the first of the list, taken from both sides.
LEMMA DominatesMore ==
  ASSUME NEW k \in Nat \ {0}, Dominates(k - 1)
  PROVE  Dominates(k)
<1>. SUFFICES ASSUME NEW Names, NEW l, NEW m, NEW f, NEW h, NEW F, NEW H,
                     Below(Names, l, m, f, h, F, H), Len(l) = k
              PROVE  F[Len(l)] <= H[Len(m)]
  BY DEF Dominates
<1>0. /\ l \in Seq(Names) /\ m \in Seq(Names) /\ IsInjective(l) /\ IsInjective(m)
      /\ f \in [Names -> Nat] /\ h \in [Names -> Nat]
      /\ \A z \in Names : f[z] <= h[z]
      /\ \A z \in Names \ Range(m) : h[z] = 0
      /\ Sums(F, l, f) /\ Sums(H, m, h)
  BY DEF Below
<1>. DEFINE z == l[k]
            l1 == [i \in 1 .. k - 1 |-> l[i]]
            f1 == [f EXCEPT ![z] = 0]
            h1 == [h EXCEPT ![z] = 0]
            F1 == [i \in 0 .. k - 1 |-> F[i]]
<1>1. DOMAIN l = 1 .. k /\ \A i \in 1 .. k : l[i] \in Names
  BY <1>0, LenProperties, ElementOfSeq
<1>2. z \in Names /\ k \in 1 .. k
  BY <1>1
<1>3. l1 \in Seq(Names) /\ Len(l1) = k - 1 /\ DOMAIN l1 = 1 .. k - 1
  BY <1>1
<1>4. IsInjective(l1)
  <2>1. \A i \in 1 .. k - 1 : l1[i] = l[i] /\ i \in 1 .. k
    OBVIOUS
  <2>2. \A i, j \in 1 .. k : l[i] = l[j] => i = j
    BY <1>0, <1>1 DEF IsInjective
  <2>. HIDE DEF l1
  <2>. QED
    BY <1>3, <2>1, <2>2 DEF IsInjective
<1>5. f1 \in [Names -> Nat] /\ h1 \in [Names -> Nat] /\ \A y \in Names : f1[y] <= h1[y]
  BY <1>0, <1>2
<1>6. \A y \in Names \ Range(m) : h1[y] = 0
  BY <1>0, <1>2
<1>7. /\ F \in [0 .. k -> Int] /\ F[0] = 0 /\ \A i \in 1 .. k : F[i] = F[i - 1] + f[l[i]]
  BY <1>0 DEF Sums
<1>8. Sums(F1, l1, f1)
  <2>1. F1 \in [0 .. k - 1 -> Int] /\ F1[0] = 0
    BY <1>7
  <2>2. ASSUME NEW i \in 1 .. k - 1 PROVE F1[i] = F1[i - 1] + f1[l1[i]]
    <3>0. i \in 1 .. k /\ k \in 1 .. k /\ i # k
      OBVIOUS
    <3>1. l[i] # z /\ l1[i] = l[i] /\ i \in 1 .. k
      BY <1>0, <1>1, <3>0 DEF IsInjective
    <3>2. f1[l1[i]] = f[l[i]]
      BY <1>0, <3>1, <1>1
    <3>3. F1[i] = F[i] /\ F1[i - 1] = F[i - 1]
      OBVIOUS
    <3>. QED
      BY <3>1, <3>2, <3>3, <1>7
  <2>. QED
    BY <1>3, <2>1, <2>2 DEF Sums
<1>9. \E H1 : Sums(H1, m, h1) /\ H1[Len(m)] = H[Len(m)] - h[z]
  <2>1. CASE z \in Range(m)
    <3>1. m \in Seq(Names) /\ IsInjective(m) /\ h \in [Names -> Nat] /\ Sums(H, m, h)
      BY <1>0
    <3>. HIDE DEF z
    <3>2. \E G : Sums(G, m, [h EXCEPT ![z] = 0]) /\ G[Len(m)] = H[Len(m)] - h[z]
      BY <2>1, <3>1, PartTaken
    <3>. QED
      BY <3>2
  <2>2. CASE z \notin Range(m)
    <3>1. h[z] = 0 /\ h1 = h
      BY <1>0, <1>2, <2>2
    <3>2. H[Len(m)] \in Int
      BY <1>0, SumIsNat
    <3>3. H[Len(m)] = H[Len(m)] - h[z]
      BY <3>1, <3>2
    <3>. HIDE DEF h1, z
    <3>. QED
      BY <1>0, <3>1, <3>3
  <2>. QED
    BY <2>1, <2>2
<1>10. PICK H1 : Sums(H1, m, h1) /\ H1[Len(m)] = H[Len(m)] - h[z]
  BY <1>9
<1>11. F1[Len(l1)] <= H1[Len(m)]
  <2>. HIDE DEF l1, f1, h1, F1
  <2>. QED
    <3>1. Below(Names, l1, m, f1, h1, F1, H1)
      BY <1>0, <1>3, <1>4, <1>5, <1>6, <1>8, <1>10 DEF Below
    <3>. QED
      BY <1>3, <3>1 DEF Dominates
<1>12. F1[Len(l1)] = F[k - 1] /\ F[k] = F[k - 1] + f[z] /\ F[k - 1] \in Int
  BY <1>3, <1>7, <1>2
<1>13. f[z] \in Nat /\ h[z] \in Nat /\ f[z] <= h[z] /\ H[Len(m)] \in Int
  BY <1>0, <1>2, SumIsNat
<1>14. F[k] <= H[Len(m)]
  <2>. HIDE DEF z, F1, l1
  <2>. QED
    BY <1>10, <1>11, <1>12, <1>13
<1>. QED
  BY <1>14

\* So a sum whose parts are nowhere greater is not greater, however long the lists.
LEMMA Dominated == \A k \in Nat : Dominates(k)
<1>. DEFINE bad == {k \in Nat : ~Dominates(k)}
<1>1. Dominates(0)
  <2>. SUFFICES ASSUME NEW Names, NEW l, NEW m, NEW f, NEW h, NEW F, NEW H,
                       Below(Names, l, m, f, h, F, H), Len(l) = 0
                PROVE  F[Len(l)] <= H[Len(m)]
    BY DEF Dominates
  <2>1. F[Len(l)] = 0
    BY DEF Below, Sums
  <2>2. H[Len(m)] >= 0 /\ H[Len(m)] \in Int
    BY SumIsNat DEF Below
  <2>. QED
    BY <2>1, <2>2
<1>2. SUFFICES ASSUME bad # {} PROVE FALSE
  OBVIOUS
<1>3. PICK k \in bad : \A j \in bad : k <= j
  BY <1>2, Least
<1>4. k \in Nat \ {0} /\ k - 1 \in Nat /\ k - 1 \notin bad
  BY <1>1, <1>3
<1>5. Dominates(k - 1)
  BY <1>4
<1>. QED
  BY <1>3, <1>4, <1>5, DominatesMore

----------------------------------------------------------------------------
(* What stays as it is.                                                    *)

Items == [t : FrameTypes \cup {"payload"}, v : Int]
SenderHalf == <<pc["sender"], left["sender"], todo["sender"], task["sender"], got>>
ReceiverHalf == <<pc["receiver"], left["receiver"], todo["receiver"], task["receiver"], receiving>>

\* What is under way on a connection is a sequence of items; control is a connection.
LEMMA LineTypes ==
  ASSUME TypeOK
  PROVE  /\ \A d \in Sides, z \in Connections : wire[d][z] \in Seq(Items)
         /\ \A d \in Sides : Control(d) \in Connections
<1>1. wire \in [Sides -> [Connections -> Seq(Items)]]
  BY DEF TypeOK, Items
<1>2. setup \in Setups
  BY DEF TypeOK
<1>3. \A d \in Sides : Control(d) \in Connections
  BY <1>2, ListFacts
<1>. QED
  BY <1>1, <1>3

\* While the setup stays, so do the lists and what the sender has to say.
LEMMA SetupKept ==
  ASSUME UNCHANGED setup
  PROVE  /\ \A d \in Sides : List(d)' = List(d) /\ Control(d)' = Control(d)
         /\ List("sender")' = List("sender") /\ Control("sender")' = Control("sender")
         /\ List("receiver")' = List("receiver") /\ Control("receiver")' = Control("receiver")
         /\ Gross' = Gross /\ (SameControl' <=> SameControl)
         /\ \A i \in Int : Param(i)' = Param(i) /\ FromSender(i)' = FromSender(i)
<1>1. \A d : List(d)' = List(d)
  BY DEF List
<1>2. \A d : Control(d)' = Control(d)
  BY <1>1 DEF Control
<1>3. Gross' = Gross
  BY DEF Gross
<1>4. SameControl' <=> SameControl
  BY <1>2 DEF SameControl
<1>5. \A i \in Int : Param(i)' = Param(i)
  BY <1>3 DEF Param
<1>6. \A i \in Int : FromSender(i)' = FromSender(i)
  BY <1>5 DEF FromSender
<1>. QED
  BY <1>1, <1>2, <1>3, <1>4, <1>5, <1>6

\* What is said of the sender alone holds as long as its own state stays.
LEMMA SenderKept ==
  ASSUME UNCHANGED setup, UNCHANGED SenderHalf
  PROVE  /\ Working("sender")' <=> Working("sender")
         /\ FramesSent' = FramesSent /\ Taken' = Taken
         /\ \A z \in Connections : Units("sender", z)' = Units("sender", z) /\ Sent(z)' = Sent(z)
         /\ TaskState("sender") => TaskState("sender")'
         /\ SenderState /\ Len(series)' = Len(series) => SenderState'
<1>. USE SetupKept DEF SenderHalf
<1>1. Working("sender")' <=> Working("sender")
  BY DEF Working
<1>2. FramesSent' = FramesSent
  BY DEF FramesSent
<1>3. Taken' = Taken
  BY DEF Taken
<1>4. \A z : Units("sender", z)' = Units("sender", z)
  BY <1>1 DEF Units
<1>5. \A z : Sent(z)' = Sent(z)
  BY <1>2, <1>4 DEF Sent
<1>6. TaskState("sender") => TaskState("sender")'
  BY <1>1 DEF TaskState
<1>7. SenderState /\ Len(series)' = Len(series) => SenderState'
  BY DEF SenderState
<1>. QED
  BY <1>1, <1>2, <1>3, <1>4, <1>5, <1>6, <1>7

\* What is said of the receiver alone holds as long as its own state stays.
LEMMA ReceiverKept ==
  ASSUME UNCHANGED setup, UNCHANGED ReceiverHalf
  PROVE  /\ Working("receiver")' <=> Working("receiver")
         /\ FramesRead' = FramesRead /\ Written' = Written /\ Total' = Total
         /\ \A i \in Int : Report[i]' = Report[i] /\ FromReceiver(i)' = FromReceiver(i)
         /\ \A z \in Connections : Units("receiver", z)' = Units("receiver", z) /\ Read(z)' = Read(z)
         /\ TaskState("receiver") => TaskState("receiver")'
         /\ ReceiverState => ReceiverState'
         /\ ReadAddsUp => ReadAddsUp'
         /\ SeriesAddsUp => SeriesAddsUp'
         /\ Warming => Warming'
         /\ series' = series
<1>. USE SetupKept DEF ReceiverHalf, receiving
<1>1. Working("receiver")' <=> Working("receiver")
  BY DEF Working
<1>2. FramesRead' = FramesRead
  BY DEF FramesRead
<1>3. Written' = Written /\ Total' = Total
  BY DEF Written, Total
<1>4. \A z : Units("receiver", z)' = Units("receiver", z)
  BY <1>1 DEF Units
<1>5. \A z : Read(z)' = Read(z)
  BY <1>2, <1>4 DEF Read
<1>6. TaskState("receiver") => TaskState("receiver")'
  BY <1>1 DEF TaskState
<1>7. ReceiverState => ReceiverState'
  <2>1. ASSUME SameControl => \A k \in DOMAIN param : param[k] = Param(k)
        PROVE  (SameControl => \A k \in DOMAIN param : param[k] = Param(k))'
    BY <2>1 DEF Param
  <2>. QED
    BY <2>1 DEF ReceiverState
<1>8. Report' = Report
  BY DEF Report
<1>9. \A i \in Int : FromReceiver(i)' = FromReceiver(i)
  BY <1>8 DEF FromReceiver
<1>10. ReadAddsUp => ReadAddsUp'
  <2>1. [z \in Connections |-> Units("receiver", z)]' = [z \in Connections |-> Units("receiver", z)]
    BY <1>4
  <2>. QED
    BY <1>1, <2>1 DEF ReadAddsUp
<1>11. SeriesAddsUp => SeriesAddsUp'
  BY DEF SeriesAddsUp
<1>12. Marking' = Marking
  BY DEF Marking
<1>13. Warming => Warming'
  BY <1>12 DEF Warming
<1>. QED
  BY <1>1, <1>2, <1>3, <1>4, <1>5, <1>6, <1>7, <1>8, <1>9, <1>10, <1>11, <1>13

\* The counts are numbers.
LEMMA CountTypes ==
  ASSUME TypeOK
  PROVE  /\ \A d \in Sides, z \in Connections : Units(d, z) \in Int
         /\ FramesSent \in Int /\ FramesRead \in Int
         /\ \A z \in Connections : Sent(z) \in Int /\ Read(z) \in Int
         /\ Written \in Int /\ Taken \in Int /\ Total \in Int /\ Total = setup.rtt + 3 + Len(series)
         /\ Len(series) \in Nat /\ Len(got) \in Nat /\ Len(param) \in Nat
<1>. USE SideFacts
<1>1. setup.rtt \in Nat
  BY ListFacts DEF TypeOK
<1>2. left["sender"] \in Nat /\ left["receiver"] \in Nat
  BY DEF TypeOK
<1>3. Len(series) \in Nat /\ Len(got) \in Nat /\ Len(param) \in Nat
  BY LenProperties DEF TypeOK
<1>4. ASSUME NEW d \in Sides, NEW z \in Connections PROVE Units(d, z) \in Int
  <2>1. todo[d][z] \in Nat
    BY DEF TypeOK
  <2>2. z \in Range(List(d)) => Share(List(d), Gross, z) \in Nat
    BY ListFacts, ShareFacts DEF TypeOK
  <2>. QED
    BY <2>1, <2>2 DEF Units
<1>5. FramesSent \in Int /\ FramesRead \in Int
  BY <1>1, <1>2 DEF FramesSent, FramesRead
<1>6. \A z \in Connections : Sent(z) \in Int /\ Read(z) \in Int
  BY <1>4, <1>5 DEF Sent, Read
<1>7. Total \in Int /\ Total = setup.rtt + 3 + Len(series)
  BY <1>1, <1>3 DEF Total
<1>8. Written \in Int
  <2>1. /\ setup.rtt - left["receiver"] \in Int /\ Total - left["receiver"] \in Int
        /\ setup.rtt \in Int /\ Total \in Int /\ 0 \in Int
    BY <1>1, <1>2, <1>7
  <2>. QED
    BY <2>1, Zenon DEF Written
<1>9. Taken \in Int
  BY <1>1, <1>2, <1>3 DEF Taken
<1>. QED
  BY <1>3, <1>4, <1>5, <1>6, <1>7, <1>8, <1>9

----------------------------------------------------------------------------
(* What is written and read.                                               *)

\* Put appends to one line and leaves all others.
LEMMA PutFacts ==
  ASSUME TypeOK, NEW d \in Sides, NEW z \in Connections, NEW items \in Seq(Items), Put(d, z, items)
  PROVE  /\ wire'[d][z] = wire[d][z] \o items
         /\ Len(wire'[d][z]) = Len(wire[d][z]) + Len(items)
         /\ \A k \in 1 .. Len(wire[d][z]) : wire'[d][z][k] = wire[d][z][k]
         /\ \A k \in 1 .. Len(items) : wire'[d][z][Len(wire[d][z]) + k] = items[k]
         /\ \A k \in DOMAIN wire'[d][z] :
              \/ k \in 1 .. Len(wire[d][z])
              \/ k - Len(wire[d][z]) \in 1 .. Len(items)
         /\ \A y \in Connections \ {z} : wire'[d][y] = wire[d][y]
         /\ wire'[Other(d)] = wire[Other(d)]
         /\ wire' \in [Sides -> [Connections -> Seq(Items)]]
<1>1. wire \in [Sides -> [Connections -> Seq(Items)]]
  BY DEF TypeOK, Items
<1>. DEFINE q == wire[d][z]
<1>2. q \in Seq(Items)
  BY <1>1
<1>3. Other(d) \in Sides /\ Other(d) # d
  BY SideFacts
<1>4. wire' = [wire EXCEPT ![d][z] = q \o items]
  BY DEF Put
<1>. HIDE DEF q
<1>5. /\ q \o items \in Seq(Items) /\ Len(q \o items) = Len(q) + Len(items)
      /\ \A k \in 1 .. Len(q) + Len(items) :
           (q \o items)[k] = IF k <= Len(q) THEN q[k] ELSE items[k - Len(q)]
  BY <1>2, ConcatProperties
<1>6. Len(q) \in Nat /\ Len(items) \in Nat /\ DOMAIN (q \o items) = 1 .. Len(q) + Len(items)
  BY <1>2, <1>5, LenProperties
<1>7. /\ wire'[d][z] = q \o items
      /\ \A y \in Connections \ {z} : wire'[d][y] = wire[d][y]
      /\ wire'[Other(d)] = wire[Other(d)]
      /\ wire' \in [Sides -> [Connections -> Seq(Items)]]
  BY <1>1, <1>3, <1>4, <1>5
<1>8. \A k \in 1 .. Len(q) : (q \o items)[k] = q[k]
  BY <1>5, <1>6
<1>9. \A k \in 1 .. Len(items) : (q \o items)[Len(q) + k] = items[k]
  <2>. TAKE k \in 1 .. Len(items)
  <2>1. /\ Len(q) + k \in 1 .. Len(q) + Len(items) /\ ~(Len(q) + k <= Len(q))
        /\ (Len(q) + k) - Len(q) = k
    BY <1>6
  <2>. QED
    BY <1>5, <2>1
<1>10. \A k \in DOMAIN (q \o items) : k \in 1 .. Len(q) \/ k - Len(q) \in 1 .. Len(items)
  BY <1>6
<1>. QED
  BY <1>5, <1>6, <1>7, <1>8, <1>9, <1>10 DEF q

\* What is left of a sequence without its first n items.
LEMMA RestFacts ==
  ASSUME NEW q \in Seq(Items), NEW n \in Nat, n <= Len(q)
  PROVE  LET r == SubSeq(q, n + 1, Len(q))
         IN /\ r \in Seq(Items) /\ Len(r) = Len(q) - n /\ DOMAIN r = 1 .. Len(q) - n
            /\ \A k \in DOMAIN r : k + n \in 1 .. Len(q) /\ r[k] = q[k + n]
<1>. DEFINE r == SubSeq(q, n + 1, Len(q))
<1>1. Len(q) \in Nat /\ DOMAIN q = 1 .. Len(q)
  BY LenProperties
<1>2. n + 1 \in 1 .. Len(q) + 1 /\ Len(q) \in n .. Len(q)
  BY <1>1
<1>3. \A k \in n + 1 .. Len(q) : k \in 1 .. Len(q) /\ q[k] \in Items
  BY <1>1, ElementOfSeq
<1>4. r = [k \in 1 .. Len(q) - n |-> q[k + n]]
  BY <1>1, SMT
<1>. HIDE DEF r
<1>5. \A k \in 1 .. Len(q) - n : k + n \in 1 .. Len(q) /\ r[k] = q[k + n]
  BY <1>1, <1>4
<1>6. Len(q) - n \in Nat /\ \A k \in 1 .. Len(q) - n : q[k + n] \in Items
  BY <1>1, <1>5, ElementOfSeq
<1>7. r \in Seq(Items) /\ Len(r) = Len(q) - n
  BY <1>4, <1>6
<1>. QED
  BY <1>4, <1>5, <1>7 DEF r

\* On connection z, in the direction of side d, n items are gone, or x has come, and nothing else.
TakenFrom(d, z, n) ==
  /\ Len(wire'[d][z]) = Len(wire[d][z]) - n
  /\ \A k \in DOMAIN wire'[d][z] :
       k + n \in 1 .. Len(wire[d][z]) /\ wire'[d][z][k] = wire[d][z][k + n]
  /\ \A y \in Connections \ {z} : wire'[d][y] = wire[d][y]
  /\ wire' \in [Sides -> [Connections -> Seq(Items)]]
AddedTo(d, z, x) ==
  /\ Len(wire'[d][z]) = Len(wire[d][z]) + 1
  /\ \A k \in 1 .. Len(wire[d][z]) : wire'[d][z][k] = wire[d][z][k]
  /\ wire'[d][z][Len(wire[d][z]) + 1] = x
  /\ \A y \in Connections \ {z} : wire'[d][y] = wire[d][y]
  /\ wire' \in [Sides -> [Connections -> Seq(Items)]]

\* The first n items of a connection are gone.
Gone(d, z, n) == wire' = [wire EXCEPT ![d][z] = SubSeq(@, n + 1, Len(@))]

\* Taking n items from the front of one line leaves the others.
LEMMA GoneFacts ==
  ASSUME TypeOK, NEW d \in Sides, NEW z \in Connections, NEW n \in Nat, n <= Len(wire[d][z]),
         Gone(d, z, n)
  PROVE  /\ Len(wire'[d][z]) = Len(wire[d][z]) - n
         /\ \A k \in DOMAIN wire'[d][z] :
              k + n \in 1 .. Len(wire[d][z]) /\ wire'[d][z][k] = wire[d][z][k + n]
         /\ \A y \in Connections \ {z} : wire'[d][y] = wire[d][y]
         /\ wire'[Other(d)] = wire[Other(d)]
         /\ wire' \in [Sides -> [Connections -> Seq(Items)]]
         /\ TakenFrom(d, z, n)
<1>1. wire \in [Sides -> [Connections -> Seq(Items)]]
  BY DEF TypeOK, Items
<1>. DEFINE q == wire[d][z]
            r == SubSeq(q, n + 1, Len(q))
<1>2. q \in Seq(Items)
  BY <1>1
<1>3. Other(d) \in Sides /\ Other(d) # d
  BY SideFacts
<1>4. wire' = [wire EXCEPT ![d][z] = r]
  BY DEF Gone
<1>. HIDE DEF q
<1>5. /\ r \in Seq(Items) /\ Len(r) = Len(q) - n
      /\ \A k \in DOMAIN r : k + n \in 1 .. Len(q) /\ r[k] = q[k + n]
  <2>1. n <= Len(q)
    BY DEF q
  <2>. QED
    BY <1>2, <2>1, RestFacts
<1>. HIDE DEF r
<1>6. /\ wire'[d][z] = r
      /\ \A y \in Connections \ {z} : wire'[d][y] = wire[d][y]
      /\ wire'[Other(d)] = wire[Other(d)]
      /\ wire' \in [Sides -> [Connections -> Seq(Items)]]
  BY <1>1, <1>3, <1>4, <1>5
<1>7. /\ Len(wire'[d][z]) = Len(wire[d][z]) - n
      /\ \A k \in DOMAIN wire'[d][z] :
           k + n \in 1 .. Len(wire[d][z]) /\ wire'[d][z][k] = wire[d][z][k + n]
  BY <1>5, <1>6 DEF q
<1>. QED
  BY <1>6, <1>7 DEF TakenFrom

\* The sender writes the next items of its sequence.
LEMMA SendsOut ==
  ASSUME TypeOK, WireOut, UNCHANGED <<setup, broken, ReceiverHalf>>,
         NEW z \in Connections \ broken, NEW items \in Seq(Items), Put("sender", z, items),
         pc["sender"] # "error", pc'["sender"] # "error",
         Sent(z)' = Sent(z) + Len(items), \A y \in Connections \ {z} : Sent(y)' = Sent(y),
         SameControl /\ z = Control("sender") =>
           \A k \in 1 .. Len(items) : items[k] = FromSender(Sent(z) + k)
  PROVE  WireOut'
<1>. DEFINE c == Control("sender")
<1>1. /\ c \in Connections /\ c' = c
      /\ \A y \in Connections : Sent(y) \in Int /\ Read(y) \in Int /\ Read(y)' = Read(y)
      /\ (SameControl' <=> SameControl) /\ \A i \in Int : FromSender(i)' = FromSender(i)
      /\ pc'["receiver"] = pc["receiver"] /\ broken' = broken
  BY ListFacts, CountTypes, SetupKept, ReceiverKept, SideFacts DEF TypeOK, ReceiverHalf
<1>2. /\ Len(wire'["sender"][z]) = Len(wire["sender"][z]) + Len(items)
      /\ \A k \in 1 .. Len(wire["sender"][z]) : wire'["sender"][z][k] = wire["sender"][z][k]
      /\ \A k \in 1 .. Len(items) : wire'["sender"][z][Len(wire["sender"][z]) + k] = items[k]
      /\ \A k \in DOMAIN wire'["sender"][z] :
           k \in 1 .. Len(wire["sender"][z]) \/ k - Len(wire["sender"][z]) \in 1 .. Len(items)
      /\ \A y \in Connections \ {z} : wire'["sender"][y] = wire["sender"][y]
      /\ wire' \in [Sides -> [Connections -> Seq(Items)]]
  BY PutFacts, SideFacts
<1>3. \A y \in Connections : /\ Len(wire["sender"][y]) \in Nat
                             /\ DOMAIN wire["sender"][y] = 1 .. Len(wire["sender"][y])
  BY SideFacts, LenProperties DEF TypeOK
<1>4. Len(items) \in Nat
  BY LenProperties
<1>9. \A y \in Connections : DOMAIN wire'["sender"][y] \subseteq Int
  <2>. TAKE y \in Connections
  <2>1. wire'["sender"][y] \in Seq(Items)
    BY <1>2, SideFacts
  <2>. QED
    BY <2>1, LenProperties
<1>5. SUFFICES ASSUME SameControl, pc["receiver"] # "error"
               PROVE  /\ \A k \in DOMAIN wire'["sender"][c] : wire'["sender"][c][k] = FromSender(Read(c) + k)
                      /\ \A y \in Connections \ broken : Len(wire'["sender"][y]) = Sent(y)' - Read(y)
  BY <1>1, <1>9 DEF WireOut
<1>6. /\ \A k \in DOMAIN wire["sender"][c] : wire["sender"][c][k] = FromSender(Read(c) + k)
      /\ \A y \in Connections \ broken : Len(wire["sender"][y]) = Sent(y) - Read(y)
  BY <1>5 DEF WireOut
<1>. HIDE DEF c
<1>7. \A y \in Connections \ broken : Len(wire'["sender"][y]) = Sent(y)' - Read(y)
  <2>. TAKE y \in Connections \ broken
  <2>1. CASE y = z
    <3>1. Len(wire["sender"][z]) = Sent(z) - Read(z) /\ Sent(z) \in Int /\ Read(z) \in Int
      BY <1>1, <1>6
    <3>2. Len(wire'["sender"][z]) = (Sent(z) + Len(items)) - Read(z)
      BY <1>2, <1>4, <3>1
    <3>. QED
      BY <2>1, <3>2
  <2>2. CASE y # z
    BY <1>2, <1>6, <2>2
  <2>. QED
    BY <2>1, <2>2
<1>8. ASSUME NEW k \in DOMAIN wire'["sender"][c]
      PROVE  wire'["sender"][c][k] = FromSender(Read(c) + k)
  <2>1. CASE z # c
    BY <1>1, <1>2, <1>6, <2>1
  <2>2. CASE z = c /\ k \in 1 .. Len(wire["sender"][z])
    BY <1>1, <1>2, <1>3, <1>6, <2>2
  <2>3. CASE z = c /\ k - Len(wire["sender"][z]) \in 1 .. Len(items)
    <3>. DEFINE n == Len(wire["sender"][z])
                j == k - n
    <3>1. n \in Nat /\ j \in 1 .. Len(items) /\ n = Sent(z) - Read(z)
      BY <1>3, <1>6, <2>3
    <3>2. k \in Int /\ k = n + j
      BY <1>1, <1>9, <3>1
    <3>3. wire'["sender"][z][n + j] = items[j] /\ items[j] = FromSender(Sent(z) + j)
      BY <1>2, <1>5, <2>3, <3>1 DEF c
    <3>4. Sent(z) + j = Read(c) + k
      <4>1. \A x, y \in Int : n = x - y => x + j = y + k
        BY <3>1, <3>2
      <4>2. Sent(z) \in Int /\ Read(z) \in Int /\ Read(z) = Read(c)
        BY <1>1, <2>3
      <4>. HIDE DEF n, j
      <4>. QED
        BY <3>1, <4>1, <4>2
    <3>. QED
      BY <2>3, <3>2, <3>3, <3>4
  <2>. QED
    BY <1>2, <2>1, <2>2, <2>3
<1>. QED
  BY <1>7, <1>8

\* The receiver reads n items; what is left comes after them.
LEMMA ReadsOut ==
  ASSUME TypeOK, WireOut, UNCHANGED <<setup, broken, SenderHalf>>,
         NEW z \in Connections, NEW n \in Nat, TakenFrom("sender", z, n),
         pc["receiver"] # "error",
         pc'["receiver"] # "error" /\ SameControl =>
           Read(z)' = Read(z) + n /\ \A y \in Connections \ {z} : Read(y)' = Read(y)
  PROVE  WireOut'
<1>. DEFINE c == Control("sender")
<1>1. /\ c \in Connections /\ c' = c
      /\ \A y \in Connections : Sent(y) \in Int /\ Read(y) \in Int /\ Sent(y)' = Sent(y)
      /\ (SameControl' <=> SameControl) /\ \A i \in Int : FromSender(i)' = FromSender(i)
      /\ pc'["sender"] = pc["sender"] /\ broken' = broken
  BY ListFacts, CountTypes, SetupKept, SenderKept, SideFacts DEF TypeOK, SenderHalf
<1>2. /\ Len(wire'["sender"][z]) = Len(wire["sender"][z]) - n
      /\ \A k \in DOMAIN wire'["sender"][z] :
           /\ k + n \in 1 .. Len(wire["sender"][z])
           /\ wire'["sender"][z][k] = wire["sender"][z][k + n]
      /\ \A y \in Connections \ {z} : wire'["sender"][y] = wire["sender"][y]
      /\ wire' \in [Sides -> [Connections -> Seq(Items)]]
  BY DEF TakenFrom
<1>3. \A y \in Connections : /\ Len(wire["sender"][y]) \in Nat
                             /\ DOMAIN wire["sender"][y] = 1 .. Len(wire["sender"][y])
  BY SideFacts, LenProperties DEF TypeOK
<1>4. \A y \in Connections : DOMAIN wire'["sender"][y] \subseteq Int
  <2>. TAKE y \in Connections
  <2>1. wire'["sender"][y] \in Seq(Items)
    BY <1>2, SideFacts
  <2>. QED
    BY <2>1, LenProperties
<1>5. SUFFICES ASSUME SameControl, pc'["receiver"] # "error"
               PROVE  /\ \A k \in DOMAIN wire'["sender"][c] : wire'["sender"][c][k] = FromSender(Read(c)' + k)
                      /\ pc["sender"] # "error" =>
                         \A y \in Connections \ broken : Len(wire'["sender"][y]) = Sent(y) - Read(y)'
  BY <1>1, <1>4 DEF WireOut
<1>6. /\ \A k \in DOMAIN wire["sender"][c] : wire["sender"][c][k] = FromSender(Read(c) + k)
      /\ pc["sender"] # "error" =>
         \A y \in Connections \ broken : Len(wire["sender"][y]) = Sent(y) - Read(y)
  BY <1>5 DEF WireOut
<1>7. Read(z)' = Read(z) + n /\ \A y \in Connections \ {z} : Read(y)' = Read(y)
  BY <1>5
<1>. HIDE DEF c
<1>8. ASSUME NEW y \in Connections \ broken, pc["sender"] # "error"
      PROVE  Len(wire'["sender"][y]) = Sent(y) - Read(y)'
  <2>1. CASE y = z
    <3>1. Len(wire["sender"][z]) = Sent(z) - Read(z) /\ Sent(z) \in Int /\ Read(z) \in Int
      BY <1>1, <1>6, <1>8, <2>1
    <3>2. Len(wire'["sender"][z]) = Sent(z) - (Read(z) + n)
      BY <1>2, <3>1
    <3>. QED
      BY <1>7, <2>1, <3>2
  <2>2. CASE y # z
    BY <1>2, <1>6, <1>7, <1>8, <2>2
  <2>. QED
    BY <2>1, <2>2
<1>9. ASSUME NEW k \in DOMAIN wire'["sender"][c]
      PROVE  wire'["sender"][c][k] = FromSender(Read(c)' + k)
  <2>1. CASE z # c
    BY <1>1, <1>2, <1>6, <1>7, <2>1
  <2>2. CASE z = c
    <3>1. k \in Int /\ k + n \in 1 .. Len(wire["sender"][c]) /\ wire'["sender"][c][k] = wire["sender"][c][k + n]
      BY <1>1, <1>2, <1>4, <2>2
    <3>2. wire["sender"][c][k + n] = FromSender(Read(c) + (k + n))
      BY <1>1, <1>3, <1>6, <3>1
    <3>3. Read(c) + (k + n) = Read(c)' + k
      BY <1>1, <1>7, <2>2, <3>1
    <3>. QED
      BY <3>1, <3>2, <3>3
  <2>. QED
    BY <2>1, <2>2
<1>. QED
  BY <1>8, <1>9

\* Nothing under way to the receiver is touched.
LEMMA OutKept ==
  ASSUME TypeOK, WireOut, UNCHANGED <<setup, broken>>, wire'["sender"] = wire["sender"],
         pc["sender"] = "error" => pc'["sender"] = "error",
         pc["receiver"] = "error" => pc'["receiver"] = "error",
         pc'["sender"] # "error" => \A y \in Connections : Sent(y)' = Sent(y),
         pc'["receiver"] # "error" => \A y \in Connections : Read(y)' = Read(y)
  PROVE  WireOut'
<1>. DEFINE c == Control("sender")
<1>1. /\ c \in Connections /\ c' = c
      /\ \A y \in Connections : Read(y) \in Int
      /\ (SameControl' <=> SameControl) /\ \A i \in Int : FromSender(i)' = FromSender(i)
      /\ broken' = broken
  BY ListFacts, CountTypes, SetupKept, SideFacts DEF TypeOK
<1>2. DOMAIN wire["sender"][c] \subseteq Int
  BY <1>1, SideFacts, LenProperties DEF TypeOK
<1>. QED
  BY <1>1, <1>2 DEF WireOut

\* The receiver writes the next frame of its sequence.
LEMMA SendsBack ==
  ASSUME TypeOK, WireBack, UNCHANGED <<setup, broken, SenderHalf, measured, series>>,
         NEW x \in Items, Control("receiver") \notin broken,
         AddedTo("receiver", Control("receiver"), x),
         pc["receiver"] # "error", pc'["receiver"] # "error",
         SameControl => Written' = Written + 1 /\ x = FromReceiver(Written + 1)
  PROVE  WireBack'
<1>. DEFINE c == Control("receiver")
            line == wire["receiver"][c]
<1>1. /\ c \in Connections /\ c' = c /\ Control("sender")' = Control("sender")
      /\ Written \in Int /\ Taken \in Int /\ Taken' = Taken
      /\ (SameControl' <=> SameControl)
      /\ pc'["sender"] = pc["sender"] /\ broken' = broken /\ got' = got
  BY ListFacts, CountTypes, SetupKept, SenderKept, SideFacts DEF TypeOK, SenderHalf
<1>2. Report' = Report /\ \A i \in Int : FromReceiver(i)' = FromReceiver(i)
  BY DEF Report, FromReceiver
<1>4. /\ Len(wire'["receiver"][c]) = Len(line) + 1
      /\ \A k \in 1 .. Len(line) : wire'["receiver"][c][k] = line[k]
      /\ wire'["receiver"][c][Len(line) + 1] = x
      /\ \A y \in Connections \ {c} : wire'["receiver"][y] = wire["receiver"][y]
      /\ DOMAIN wire'["receiver"][c] = 1 .. Len(line) + 1
  <2>1. /\ Len(wire'["receiver"][c]) = Len(line) + 1
        /\ \A k \in 1 .. Len(line) : wire'["receiver"][c][k] = line[k]
        /\ wire'["receiver"][c][Len(line) + 1] = x
        /\ \A y \in Connections \ {c} : wire'["receiver"][y] = wire["receiver"][y]
        /\ wire' \in [Sides -> [Connections -> Seq(Items)]]
    BY DEF AddedTo
  <2>. HIDE DEF c
  <2>2. wire'["receiver"][c] \in Seq(Items)
    BY <1>1, <2>1, SideFacts
  <2>3. DOMAIN wire'["receiver"][c] = 1 .. Len(wire'["receiver"][c])
    BY <2>2, LenProperties
  <2>. QED
    BY <2>1, <2>3
<1>5. Len(line) \in Nat /\ DOMAIN line = 1 .. Len(line)
  BY <1>1, SideFacts, LenProperties DEF TypeOK
<1>6. \A z \in Connections \ {c} : wire'["receiver"][z] = <<>>
  BY <1>4 DEF WireBack
<1>7. ASSUME SameControl, pc["sender"] # "error"
      PROVE  /\ \A k \in DOMAIN wire'["receiver"][c] : wire'["receiver"][c][k] = FromReceiver(Taken + k)
             /\ Taken + Len(wire'["receiver"][c]) = Written'
             /\ \A k \in DOMAIN got : got[k] = Report[k]
  <2>1. /\ \A k \in DOMAIN line : line[k] = FromReceiver(Taken + k)
        /\ \A k \in DOMAIN got : got[k] = Report[k]
        /\ Taken + Len(line) = Written
    BY <1>7 DEF WireBack, SameControl
  <2>2. Written' = Written + 1 /\ x = FromReceiver(Written + 1)
    BY <1>7
  <2>. HIDE DEF c, line
  <2>3. Taken + Len(wire'["receiver"][c]) = Written'
    BY <1>1, <1>4, <1>5, <2>1, <2>2
  <2>4. ASSUME NEW k \in DOMAIN wire'["receiver"][c]
        PROVE  wire'["receiver"][c][k] = FromReceiver(Taken + k)
    <3>1. CASE k \in 1 .. Len(line)
      BY <1>4, <1>5, <2>1, <3>1
    <3>2. CASE k = Len(line) + 1
      <4>1. Taken + k = Written + 1
        BY <1>1, <1>5, <2>1, <3>2
      <4>. QED
        BY <1>4, <2>2, <3>2, <4>1
    <3>. QED
      BY <1>4, <1>5, <3>1, <3>2
  <2>. QED
    BY <2>1, <2>3, <2>4
<1>8. ASSUME SameControl PROVE c = Control("sender")
  BY <1>8 DEF SameControl
<1>9. DOMAIN wire'["receiver"][c] \subseteq Int
  BY <1>4, <1>5
<1>10. Written' = Written + 1 => Written' \in Int
  BY <1>1
<1>. QED
  BY <1>1, <1>2, <1>6, <1>7, <1>8, <1>9, <1>10 DEF WireBack

\* The sender reads a frame.
LEMMA ReadsBack ==
  ASSUME TypeOK, WireBack, UNCHANGED <<setup, broken, ReceiverHalf>>,
         Len(wire["receiver"][Control("sender")]) >= 1,
         Gone("receiver", Control("sender"), 1), pc["sender"] # "error",
         pc'["sender"] # "error" => /\ Taken' = Taken + 1
                                    /\ \A k \in DOMAIN got' : got'[k] = Report[k]
  PROVE  WireBack' /\ SameControl
<1>. DEFINE c == Control("sender")
            line == wire["receiver"][c]
<1>1. /\ c \in Connections /\ c' = c /\ Control("receiver")' = Control("receiver")
      /\ Written \in Int /\ Taken \in Int /\ Total \in Int /\ Written' = Written /\ Total' = Total
      /\ (SameControl' <=> SameControl)
      /\ \A i \in Int : FromReceiver(i)' = FromReceiver(i)
      /\ pc'["receiver"] = pc["receiver"] /\ broken' = broken
  BY ListFacts, CountTypes, SetupKept, ReceiverKept, SideFacts DEF TypeOK, ReceiverHalf
<1>2. Report' = Report
  BY DEF Report, ReceiverHalf, receiving
<1>3. SameControl
  BY <1>1, LenProperties DEF WireBack, SameControl
<1>4. Len(line) \in Nat /\ DOMAIN line = 1 .. Len(line)
  BY <1>1, SideFacts, LenProperties DEF TypeOK
<1>5. /\ Len(wire'["receiver"][c]) = Len(line) - 1
      /\ \A k \in DOMAIN wire'["receiver"][c] :
           k + 1 \in 1 .. Len(line) /\ wire'["receiver"][c][k] = line[k + 1]
      /\ \A y \in Connections \ {c} : wire'["receiver"][y] = wire["receiver"][y]
      /\ wire' \in [Sides -> [Connections -> Seq(Items)]]
  BY <1>1, GoneFacts, SideFacts
<1>6. DOMAIN wire'["receiver"][c] \subseteq Int
  <2>1. wire'["receiver"][c] \in Seq(Items)
    BY <1>1, <1>5, SideFacts
  <2>. QED
    BY <2>1, LenProperties
<1>7. \A z \in Connections \ {c} : wire'["receiver"][z] = <<>>
  BY <1>3, <1>5 DEF WireBack, SameControl
<1>8. ASSUME pc'["sender"] # "error"
      PROVE  /\ \A k \in DOMAIN wire'["receiver"][c] : wire'["receiver"][c][k] = FromReceiver(Taken' + k)
             /\ \A k \in DOMAIN got' : got'[k] = Report[k]
             /\ Taken' + Len(wire'["receiver"][c]) = Taken + Len(line)
  <2>1. \A k \in DOMAIN line : line[k] = FromReceiver(Taken + k)
    BY <1>3 DEF WireBack
  <2>2. Taken' = Taken + 1
    BY <1>8
  <2>. HIDE DEF c, line
  <2>3. ASSUME NEW k \in DOMAIN wire'["receiver"][c]
        PROVE  wire'["receiver"][c][k] = FromReceiver(Taken' + k)
    <3>1. Taken' + k = Taken + (k + 1)
      BY <1>1, <1>6, <2>2
    <3>. QED
      BY <1>4, <1>5, <2>1, <3>1
  <2>4. Taken' + Len(wire'["receiver"][c]) = Taken + Len(line)
    <3>1. Taken \in Int
      BY <1>1
    <3>2. Len(line) \in Int
      BY <1>4
    <3>3. Len(wire'["receiver"][c]) = Len(line) - 1
      BY <1>5
    <3>. QED
      BY <2>2, <3>1, <3>2, <3>3
  <2>. QED
    BY <1>8, <2>3, <2>4
<1>9. Taken' = Taken + 1 => Taken' \in Int
  BY <1>1
<1>10. pc'["sender"] # "error" => \A k \in DOMAIN wire'["receiver"][c] : Taken' + k \in Int
  BY <1>1, <1>6
<1>. QED
  BY <1>1, <1>2, <1>3, <1>7, <1>8, <1>10 DEF WireBack, SameControl

\* Nothing under way to the sender is touched, by what the sender does.
LEMMA BackKept ==
  ASSUME TypeOK, WireBack, UNCHANGED <<setup, broken, ReceiverHalf>>,
         wire'["receiver"] = wire["receiver"], pc["sender"] = "error" => pc'["sender"] = "error",
         pc'["sender"] # "error" => Taken' = Taken /\ got' = got
  PROVE  WireBack'
<1>. DEFINE c == Control("sender")
<1>1. /\ c \in Connections /\ c' = c /\ Control("receiver")' = Control("receiver")
      /\ Written' = Written /\ Total' = Total /\ Taken \in Int
      /\ (SameControl' <=> SameControl)
      /\ \A i \in Int : FromReceiver(i)' = FromReceiver(i)
      /\ pc'["receiver"] = pc["receiver"] /\ broken' = broken
  BY ListFacts, CountTypes, SetupKept, ReceiverKept, SideFacts DEF TypeOK, ReceiverHalf
<1>2. Report' = Report
  BY DEF Report, ReceiverHalf, receiving
<1>3. DOMAIN wire["receiver"][c] \subseteq Int
  BY <1>1, SideFacts, LenProperties DEF TypeOK
<1>. QED
  BY <1>1, <1>2, <1>3 DEF WireBack

\* Nor by what the receiver does before it has a result, or without one.
LEMMA BackKeptByReceiver ==
  ASSUME TypeOK, WireBack, SenderState, UNCHANGED <<setup, broken, SenderHalf>>,
         wire'["receiver"] = wire["receiver"],
         pc["receiver"] # "error", pc'["receiver"] # "error", SameControl => Written' = Written,
         \/ UNCHANGED <<measured, series>>
         \/ Written = setup.rtt
  PROVE  WireBack'
<1>. DEFINE c == Control("sender")
            line == wire["receiver"][c]
<1>1. /\ c \in Connections /\ c' = c /\ Control("receiver")' = Control("receiver")
      /\ Taken' = Taken /\ Taken \in Int /\ Written \in Int
      /\ (SameControl' <=> SameControl)
      /\ pc'["sender"] = pc["sender"] /\ broken' = broken /\ got' = got
  BY ListFacts, CountTypes, SetupKept, SenderKept, SideFacts DEF TypeOK, SenderHalf
<1>2. DOMAIN line = 1 .. Len(line) /\ Len(line) \in Nat
  BY <1>1, SideFacts, LenProperties DEF TypeOK
<1>3. CASE UNCHANGED <<measured, series>>
  <2>1. Report' = Report /\ \A i \in Int : FromReceiver(i)' = FromReceiver(i)
    BY <1>3 DEF Report, FromReceiver
  <2>. QED
    BY <1>1, <1>2, <2>1 DEF WireBack
<1>4. CASE Written = setup.rtt
  <2>1. ASSUME SameControl, pc["sender"] # "error"
        PROVE  /\ DOMAIN got = {}
               /\ \A k \in DOMAIN line : line[k] = FromReceiver(Taken + k)' /\ Taken + k <= setup.rtt
    <3>1. /\ Taken + Len(line) <= setup.rtt
          /\ \A k \in DOMAIN line : line[k] = FromReceiver(Taken + k)
      BY <1>4, <2>1 DEF WireBack
    <3>2. setup.rtt \in Nat
      BY ListFacts, SideFacts DEF TypeOK
    <3>3. DOMAIN got = {}
      <4>1. CASE pc["sender"] \in {"params", "ping", "pong", "go", "tasks"}
        BY <4>1 DEF SenderState
      <4>2. CASE pc["sender"] \in {"result", "ok"}
        <5>1. Taken = setup.rtt + Len(got)
          BY <4>2 DEF Taken
        <5>2. Len(got) \in Nat /\ DOMAIN got = 1 .. Len(got)
          BY LenProperties DEF TypeOK
        <5>. HIDE DEF line
        <5>3. Len(got) = 0
          BY <1>2, <3>1, <3>2, <5>1, <5>2
        <5>. QED
          BY <5>2, <5>3
      <4>. QED
        BY <2>1, <4>1, <4>2, SideFacts DEF TypeOK
    <3>. HIDE DEF line
    <3>4. ASSUME NEW k \in DOMAIN line
          PROVE line[k] = FromReceiver(Taken + k)' /\ Taken + k <= setup.rtt
      <4>1. Taken + k <= setup.rtt /\ Taken + k \in Int
        BY <1>1, <1>2, <3>1, <3>2
      <4>2. FromReceiver(Taken + k) = Frame("PONG", (Taken + k) - 1)
        BY <4>1 DEF FromReceiver
      <4>3. FromReceiver(Taken + k)' = Frame("PONG", (Taken + k) - 1)
        BY <1>1, <4>1 DEF FromReceiver
      <4>. QED
        BY <3>1, <4>1, <4>2, <4>3
    <3>. QED
      BY <3>3, <3>4
  <2>. QED
    BY <1>1, <2>1 DEF WireBack
<1>. QED
  BY <1>3, <1>4

----------------------------------------------------------------------------
(* Steps of the sender.                                                    *)

\* What is left to show of a step of the sender that does not fail.
LEMMA SenderStep ==
  ASSUME Inv, UNCHANGED <<setup, broken, late, ReceiverHalf>>, TypeOK',
         NumbersOut', Holding', SenderState', TaskState("sender")', WireOut', WireBack',
         pc'["sender"] # "error",
         Sound => \A z \in Range(List("sender")) : task'["sender"][z] # "error",
         ~SameControl =>
           /\ pc'["sender"] # "ok" /\ got' = got /\ wire'["receiver"] = wire["receiver"]
           /\ \A k \in DOMAIN wire'["sender"][Control("receiver")] :
                wire'["sender"][Control("receiver")][k] = Payload
  PROVE  Inv'
<1>1. /\ ReceiverState' /\ TaskState("receiver")' /\ ReadAddsUp' /\ SeriesAddsUp' /\ Warming'
  BY ReceiverKept DEF Inv
<1>2. pc'["receiver"] = pc["receiver"] /\ task'["receiver"] = task["receiver"] /\ param' = param
  BY DEF ReceiverHalf, receiving
<1>3. Apart'
  <2>1. Payload' = Payload
    BY DEF Payload, Frame
  <2>. QED
    BY <1>2, <2>1, SetupKept DEF Inv, Apart
<1>4. Unfailing'
  <2>1. Sound' <=> Sound
    BY SetupKept DEF Sound
  <2>. QED
    BY <1>2, <2>1, SetupKept, SideFacts DEF Inv, Unfailing
<1>. QED
  BY <1>1, <1>3, <1>4 DEF Inv

\* The sender writes, and neither ends with it nor has a part of the result yet.
LEMMA SenderWrites ==
  ASSUME Inv, UNCHANGED <<setup, open, broken, late, ReceiverHalf>>, TypeOK',
         SenderState', TaskState("sender")', Taken' = Taken, got' = got,
         pc["sender"] \notin {"ok", "error"}, pc'["sender"] \notin {"ok", "error"},
         \A z \in Range(List("sender")) : task["sender"][z] # "error" => task'["sender"][z] # "error",
         NEW z \in Connections \ broken, NEW items \in Seq(Items), Put("sender", z, items),
         Sent(z)' = Sent(z) + Len(items), \A y \in Connections \ {z} : Sent(y)' = Sent(y),
         z = Control("sender") => \A k \in 1 .. Len(items) : items[k] = FromSender(Sent(z) + k),
         z # Control("sender") => \A k \in 1 .. Len(items) : items[k] = Payload,
         \A k \in 1 .. Len(items) : items[k].v \in Nat
  PROVE  Inv'
<1>1. WireOut'
  BY SendsOut DEF Inv
<1>2. /\ \A k \in 1 .. Len(wire["sender"][z]) : wire'["sender"][z][k] = wire["sender"][z][k]
      /\ \A k \in 1 .. Len(items) : wire'["sender"][z][Len(wire["sender"][z]) + k] = items[k]
      /\ \A k \in DOMAIN wire'["sender"][z] :
           k \in 1 .. Len(wire["sender"][z]) \/ k - Len(wire["sender"][z]) \in 1 .. Len(items)
      /\ \A y \in Connections \ {z} : wire'["sender"][y] = wire["sender"][y]
      /\ wire'["receiver"] = wire["receiver"]
      /\ wire' \in [Sides -> [Connections -> Seq(Items)]]
  BY PutFacts, SideFacts DEF Inv
<1>3. WireBack'
  BY <1>2, BackKept DEF Inv
<1>4. Len(wire["sender"][z]) \in Nat /\ DOMAIN wire["sender"][z] = 1 .. Len(wire["sender"][z])
  BY SideFacts, LenProperties DEF Inv, TypeOK
<1>5. ASSUME NEW k \in DOMAIN wire'["sender"][z]
      PROVE  \/ k \in DOMAIN wire["sender"][z] /\ wire'["sender"][z][k] = wire["sender"][z][k]
             \/ \E j \in 1 .. Len(items) : wire'["sender"][z][k] = items[j]
  <2>0. k \in Int
    <3>1. wire'["sender"][z] \in Seq(Items)
      BY <1>2, SideFacts
    <3>. QED
      BY <3>1, LenProperties
  <2>1. CASE k \in 1 .. Len(wire["sender"][z])
    BY <1>2, <1>4, <2>1
  <2>2. CASE k - Len(wire["sender"][z]) \in 1 .. Len(items)
    <3>. DEFINE j == k - Len(wire["sender"][z])
    <3>1. j \in 1 .. Len(items) /\ k = Len(wire["sender"][z]) + j
      BY <1>4, <2>0, <2>2
    <3>. HIDE DEF j
    <3>. QED
      BY <1>2, <3>1
  <2>. QED
    BY <1>2, <2>1, <2>2
<1>6. NumbersOut'
  <2>1. ASSUME NEW y \in Connections, NEW k \in DOMAIN wire'["sender"][y]
        PROVE  wire'["sender"][y][k].v \in Nat
    <3>1. CASE y = z
      BY <1>5, <3>1 DEF Inv, NumbersOut
    <3>2. CASE y # z
      BY <1>2, <3>2 DEF Inv, NumbersOut
    <3>. QED
      BY <3>1, <3>2
  <2>. QED
    BY <2>1 DEF NumbersOut
<1>7. Holding'
  BY SetupKept, SideFacts DEF Inv, Holding, ReceiverHalf
<1>8. ASSUME ~SameControl, NEW k \in DOMAIN wire'["sender"][Control("receiver")]
      PROVE  wire'["sender"][Control("receiver")][k] = Payload
  <2>0. Control("receiver") \in Connections
    BY ListFacts, SideFacts DEF Inv, TypeOK
  <2>1. CASE z = Control("receiver")
    BY <1>5, <1>8, <2>1 DEF Inv, Apart, SameControl
  <2>2. CASE z # Control("receiver")
    <3>1. PICK c \in Connections : c = Control("receiver")
      BY <2>0
    <3>2. wire'["sender"][c] = wire["sender"][c]
      BY <1>2, <2>2, <3>1
    <3>3. \A j \in DOMAIN wire["sender"][c] : wire["sender"][c][j] = Payload
      BY <1>8, <3>1 DEF Inv, Apart
    <3>. QED
      BY <1>8, <3>1, <3>2, <3>3
  <2>. QED
    BY <2>1, <2>2
<1>9. Sound => \A y \in Range(List("sender")) : task'["sender"][y] # "error"
  BY SideFacts DEF Inv, Unfailing
<1>. QED
  BY <1>1, <1>2, <1>3, <1>6, <1>7, <1>8, <1>9, SenderStep

\* The sender moves on without writing or reading.
LEMMA SenderMoves ==
  ASSUME Inv, UNCHANGED <<setup, wire, open, broken, late, ReceiverHalf>>, TypeOK',
         SenderState', TaskState("sender")', Taken' = Taken, got' = got,
         pc["sender"] \notin {"ok", "error"}, pc'["sender"] \notin {"ok", "error"},
         Sound => \A z \in Range(List("sender")) :
                    task["sender"][z] # "error" => task'["sender"][z] # "error",
         \A y \in Connections : Sent(y)' = Sent(y)
  PROVE  Inv'
<1>1. pc'["receiver"] = pc["receiver"] /\ \A y \in Connections : Read(y)' = Read(y)
  BY ReceiverKept DEF ReceiverHalf
<1>2. WireOut'
  BY <1>1, OutKept DEF Inv
<1>3. WireBack'
  BY BackKept DEF Inv
<1>4. NumbersOut'
  BY DEF Inv, NumbersOut
<1>5. Holding'
  BY SetupKept, SideFacts DEF Inv, Holding, ReceiverHalf
<1>6. Sound => \A y \in Range(List("sender")) : task'["sender"][y] # "error"
  BY SideFacts DEF Inv, Unfailing
<1>7. ~SameControl => \A k \in DOMAIN wire'["sender"][Control("receiver")] :
                        wire'["sender"][Control("receiver")][k] = Payload
  BY DEF Inv, Apart
<1>. QED
  BY <1>2, <1>3, <1>4, <1>5, <1>6, <1>7, SenderStep

\* Frames and payload are items, and what they carry can be read from them.
LEMMA FrameFacts ==
  /\ \A t \in FrameTypes \cup {"payload"}, v \in Int :
       Frame(t, v) \in Items /\ Frame(t, v).t = t /\ Frame(t, v).v = v
  /\ Payload \in Items /\ Payload.t = "payload" /\ Payload.v = 99
BY DEF Frame, Items, Payload

\* The sender writes the next frame of its sequence.
LEMMA SenderWritesFrame ==
  ASSUME Inv, UNCHANGED <<setup, open, broken, late, ReceiverHalf>>, TypeOK', SenderState',
         pc["sender"] \in {"params", "ping", "go"}, pc'["sender"] \notin {"ok", "error"},
         TaskState("sender")', Taken' = Taken, got' = got,
         \A z \in Range(List("sender")) : task["sender"][z] # "error" => task'["sender"][z] # "error",
         NEW x \in Items, x.v \in Nat, Put("sender", Control("sender"), <<x>>),
         CanWrite(Control("sender")), x = FromSender(FramesSent + 1), FramesSent' = FramesSent + 1,
         \A y \in Connections : Units("sender", y)' = 0
  PROVE  Inv'
<1>. DEFINE z == Control("sender")
            items == <<x>>
<1>1. z \in Connections \ broken /\ z' = z /\ FramesSent \in Int
  BY ListFacts, SideFacts, SetupKept, CountTypes DEF Inv, TypeOK, CanWrite
<1>2. items \in Seq(Items) /\ Len(items) = 1 /\ items[1] = x
  OBVIOUS
<1>3. \A y \in Connections : Units("sender", y) = 0
  BY DEF Units, Working
<1>4. Sent(z) = FramesSent /\ Sent(z)' = FramesSent + 1 /\ \A y \in Connections \ {z} : Sent(y)' = Sent(y)
  BY <1>1, <1>3 DEF Sent
<1>5. pc["sender"] \notin {"ok", "error"}
  OBVIOUS
<1>. HIDE DEF items, z
<1>6. Sent(z)' = Sent(z) + Len(items)
  BY <1>1, <1>2, <1>4
<1>7. \A k \in 1 .. Len(items) : items[k] = FromSender(Sent(z) + k)
  BY <1>2, <1>4
<1>8. \A k \in 1 .. Len(items) : items[k].v \in Nat
  BY <1>2
<1>9. Put("sender", z, items) /\ z = Control("sender")
  BY DEF items, z
<1>. QED
  BY <1>1, <1>2, <1>4, <1>5, <1>6, <1>7, <1>8, <1>9, SenderWrites

\* The types hold after a step that only changes what the sender changes.
LEMMA SenderTypes ==
  ASSUME TypeOK, UNCHANGED <<setup, open, broken, late, ReceiverHalf>>,
         wire' \in [Sides -> [Connections -> Seq(Items)]],
         pc' \in [Sides -> {"params", "ping", "pong", "go", "tasks", "result", "ok", "error"}],
         left' \in [Sides -> Nat], todo' \in [Sides -> [Connections -> Nat]],
         task' \in [Sides -> [Connections -> {"idle", "run", "mark", "ok", "error"}]],
         got' \in Seq(Int)
  PROVE  TypeOK'
BY DEF TypeOK, Items, ReceiverHalf, receiving

\* The invariant is kept when the sender writes a parameter,
LEMMA SParamsKeeps ==
  ASSUME Inv, SParams
  PROVE  Inv'
<1>. DEFINE a == left["sender"]
            x == Frame("PARAMS", <<setup.rtt, 250, Gross>>[a])
            z == Control("sender")
<1>1. /\ TypeOK /\ SenderState /\ pc["sender"] = "params" /\ a \in 1 .. 3 /\ got = <<>> /\ z \in Connections \ broken
      /\ setup.rtt \in Nat /\ Gross \in Nat /\ CanWrite(z)
  BY ListFacts, SideFacts DEF Inv, TypeOK, SenderState, SParams, CanWrite
<1>2. /\ x = FromSender(4 - a) /\ x \in Items /\ x.v \in Nat
  <2>1. <<setup.rtt, 250, Gross>>[a] = Param(4 - a) /\ Param(4 - a) \in Nat
    BY <1>1 DEF Param
  <2>2. FromSender(4 - a) = Frame("PARAMS", Param(4 - a))
    BY <1>1 DEF FromSender
  <2>. QED
    BY <2>1, <2>2, FrameFacts DEF FrameTypes
<1>3. /\ UNCHANGED <<setup, open, broken, late, ReceiverHalf>> /\ got' = got
      /\ todo' = todo /\ task' = task
      /\ left' = [left EXCEPT !["sender"] = IF a = 1 THEN setup.rtt ELSE a - 1]
      /\ pc' = (IF a > 1 THEN pc ELSE [pc EXCEPT !["sender"] = IF setup.rtt = 0 THEN "go" ELSE "ping"])
  BY <1>1, SideFacts DEF SParams, ReceiverHalf, receiving, Inv, TypeOK
<1>4. /\ left'["sender"] = (IF a = 1 THEN setup.rtt ELSE a - 1)
      /\ pc'["sender"] = (IF a > 1 THEN "params" ELSE IF setup.rtt = 0 THEN "go" ELSE "ping")
  BY <1>1, <1>3, SideFacts DEF TypeOK
<1>5. Put("sender", z, <<x>>) /\ <<x>> \in Seq(Items) /\ Len(<<x>>) = 1 /\ <<x>>[1] = x
  BY <1>2 DEF SParams
<1>. HIDE DEF x, z
<1>6. TypeOK'
  <2>1. wire' \in [Sides -> [Connections -> Seq(Items)]]
    BY <1>1, <1>5, PutFacts, SideFacts
  <2>2. pc' \in [Sides -> {"params", "ping", "pong", "go", "tasks", "result", "ok", "error"}]
    BY <1>1, <1>3, SideFacts DEF TypeOK
  <2>3. left' \in [Sides -> Nat]
    BY <1>1, <1>3, SideFacts DEF TypeOK
  <2>4. todo' \in [Sides -> [Connections -> Nat]] /\ got' \in Seq(Int)
        /\ task' \in [Sides -> [Connections -> {"idle", "run", "mark", "ok", "error"}]]
    BY <1>1, <1>3 DEF TypeOK
  <2>. QED
    BY <1>1, <1>3, <2>1, <2>2, <2>3, <2>4, SenderTypes
<1>7. SenderState' /\ Taken' = Taken
  <2>1. SenderState'
    BY <1>1, <1>3, <1>4 DEF SenderState
  <2>2. Taken' = Taken
    BY <1>1, <1>3, <1>4 DEF Taken
  <2>. QED
    BY <2>1, <2>2
<1>8. TaskState("sender")' /\ \A y \in Connections : Units("sender", y) = 0 /\ Units("sender", y)' = 0
  BY <1>1, <1>4 DEF TaskState, Units, Working
<1>9. FramesSent = 3 - a /\ FramesSent' = 4 - a
  BY <1>1, <1>3, <1>4 DEF FramesSent
<1>10. x = FromSender(FramesSent + 1)
  BY <1>1, <1>2, <1>9
<1>11. Put("sender", Control("sender"), <<x>>)
  BY <1>5 DEF z
<1>12. pc["sender"] \in {"params", "ping", "go"} /\ pc'["sender"] \notin {"ok", "error"}
  BY <1>1, <1>4
<1>13. FramesSent' = FramesSent + 1
  BY <1>1, <1>9
<1>14. \A y \in Range(List("sender")) : task["sender"][y] # "error" => task'["sender"][y] # "error"
  BY <1>3
<1>. QED
  BY <1>1, <1>2, <1>3, <1>6, <1>7, <1>8, <1>10, <1>11, <1>12, <1>13, <1>14, SenderWritesFrame DEF z

\* when it asks for a round trip,
LEMMA SPingKeeps ==
  ASSUME Inv, SPing
  PROVE  Inv'
<1>. DEFINE a == left["sender"]
            x == Frame("PING", setup.rtt - a)
<1>1. /\ TypeOK /\ SenderState /\ pc["sender"] = "ping" /\ a \in 1 .. setup.rtt /\ got = <<>>
      /\ setup.rtt \in Nat /\ CanWrite(Control("sender")) /\ Control("sender") \in Connections
  BY ListFacts, SideFacts DEF Inv, TypeOK, SenderState, SPing
<1>2. FramesSent = 3 + setup.rtt - a
  BY <1>1 DEF FramesSent
<1>3. x = FromSender(FramesSent + 1) /\ x \in Items /\ x.v \in Nat
  <2>1. FramesSent + 1 > 3 /\ FramesSent + 1 <= 3 + setup.rtt /\ (FramesSent + 1) - 4 = setup.rtt - a
    BY <1>1, <1>2
  <2>2. setup.rtt - a \in Nat
    BY <1>1
  <2>3. FromSender(FramesSent + 1) = x
    <3>1. ~(FramesSent + 1 <= 3)
      BY <1>1, <1>2
    <3>. QED
      BY <2>1, <3>1 DEF FromSender
  <2>4. x \in Items /\ x.v = setup.rtt - a
    BY <2>2, FrameFacts DEF FrameTypes
  <2>. QED
    BY <2>2, <2>3, <2>4
<1>4. /\ UNCHANGED <<setup, open, broken, late, ReceiverHalf>> /\ got' = got
      /\ todo' = todo /\ task' = task /\ left' = left
      /\ pc' = [pc EXCEPT !["sender"] = "pong"]
  BY <1>1, SideFacts DEF SPing, ReceiverHalf, receiving, TypeOK
<1>5. pc'["sender"] = "pong"
  BY <1>1, <1>4, SideFacts DEF TypeOK
<1>6. Put("sender", Control("sender"), <<x>>)
  BY DEF SPing
<1>. HIDE DEF x
<1>7. TypeOK'
  <2>1. <<x>> \in Seq(Items)
    BY <1>3
  <2>2. wire' \in [Sides -> [Connections -> Seq(Items)]]
    BY <1>1, <1>6, <2>1, PutFacts, SideFacts
  <2>3. pc' \in [Sides -> {"params", "ping", "pong", "go", "tasks", "result", "ok", "error"}]
    BY <1>1, <1>4, SideFacts DEF TypeOK
  <2>4. /\ left' \in [Sides -> Nat] /\ todo' \in [Sides -> [Connections -> Nat]] /\ got' \in Seq(Int)
        /\ task' \in [Sides -> [Connections -> {"idle", "run", "mark", "ok", "error"}]]
    BY <1>1, <1>4 DEF TypeOK
  <2>. QED
    BY <1>1, <1>4, <2>2, <2>3, <2>4, SenderTypes
<1>8. SenderState' /\ Taken' = Taken
  <2>1. SenderState'
    BY <1>1, <1>4, <1>5 DEF SenderState
  <2>2. Taken' = Taken
    BY <1>1, <1>4, <1>5 DEF Taken
  <2>. QED
    BY <2>1, <2>2
<1>9. TaskState("sender")' /\ \A y \in Connections : Units("sender", y)' = 0
  BY <1>5 DEF TaskState, Units, Working
<1>10. FramesSent' = FramesSent + 1
  BY <1>1, <1>2, <1>4, <1>5 DEF FramesSent
<1>11. pc["sender"] \in {"params", "ping", "go"} /\ pc'["sender"] \notin {"ok", "error"}
  BY <1>1, <1>5
<1>12. \A y \in Range(List("sender")) : task["sender"][y] # "error" => task'["sender"][y] # "error"
  BY <1>4
<1>. QED
  BY <1>1, <1>3, <1>4, <1>6, <1>7, <1>8, <1>9, <1>10, <1>11, <1>12, SenderWritesFrame

\* What the tasks of side d start with.
LEMMA SpawnFacts ==
  ASSUME TypeOK, NEW d \in Sides, Spawn(d, Gross), UNCHANGED setup
  PROVE  /\ pc' = [pc EXCEPT ![d] = "tasks"] /\ pc'[d] = "tasks"
         /\ pc' \in [Sides -> {"params", "ping", "pong", "go", "tasks", "result", "ok", "error"}]
         /\ todo' \in [Sides -> [Connections -> Nat]]
         /\ task' \in [Sides -> [Connections -> {"idle", "run", "mark", "ok", "error"}]]
         /\ \A e \in Sides \ {d} : pc'[e] = pc[e] /\ todo'[e] = todo[e] /\ task'[e] = task[e]
         /\ \A z \in Range(List(d)) : todo'[d][z] = Share(List(d), Gross, z) /\ task'[d][z] = "run"
         /\ \A z \in Connections : Units(d, z)' = 0
         /\ TaskState(d)'
<1>1. /\ pc \in [Sides -> {"params", "ping", "pong", "go", "tasks", "result", "ok", "error"}]
      /\ todo \in [Sides -> [Connections -> Nat]]
      /\ task \in [Sides -> [Connections -> {"idle", "run", "mark", "ok", "error"}]]
      /\ setup \in Setups
  BY DEF TypeOK
<1>2. Range(List(d)) \subseteq Connections /\ \A z \in Range(List(d)) : Share(List(d), Gross, z) \in Nat
  BY <1>1, ListFacts, ShareFacts
<1>. DEFINE f == [z \in Connections |-> IF z \in Range(List(d)) THEN Share(List(d), Gross, z) ELSE 0]
            h == [z \in Connections |-> IF z \in Range(List(d)) THEN "run" ELSE "idle"]
<1>3. /\ pc' = [pc EXCEPT ![d] = "tasks"] /\ todo' = [todo EXCEPT ![d] = f]
      /\ task' = [task EXCEPT ![d] = h]
  BY DEF Spawn
<1>4. /\ f \in [Connections -> Nat] /\ h \in [Connections -> {"idle", "run", "mark", "ok", "error"}]
      /\ \A z \in Range(List(d)) : f[z] = Share(List(d), Gross, z) /\ h[z] = "run"
  BY <1>2
<1>. HIDE DEF f, h
<1>5. /\ pc'[d] = "tasks" /\ todo'[d] = f /\ task'[d] = h
      /\ \A e \in Sides \ {d} : pc'[e] = pc[e] /\ todo'[e] = todo[e] /\ task'[e] = task[e]
      /\ pc' \in [Sides -> {"params", "ping", "pong", "go", "tasks", "result", "ok", "error"}]
      /\ todo' \in [Sides -> [Connections -> Nat]]
      /\ task' \in [Sides -> [Connections -> {"idle", "run", "mark", "ok", "error"}]]
  BY <1>1, <1>3, <1>4
<1>6. List(d)' = List(d) /\ Gross' = Gross
  BY SetupKept
<1>7. \A z \in Connections : Units(d, z)' = 0
  <2>1. ASSUME NEW z \in Range(List(d)) PROVE Share(List(d), Gross, z) - todo'[d][z] = 0
    <3>1. todo'[d][z] = Share(List(d), Gross, z)
      BY <1>4, <1>5
    <3>. QED
      BY <1>2, <3>1
  <2>. QED
    BY <1>6, <2>1 DEF Units
<1>8. TaskState(d)'
  <2>1. ASSUME NEW z \in Range(List(d))
        PROVE  /\ todo'[d][z] <= Share(List(d), Gross, z)
               /\ task'[d][z] = "run"
    BY <1>2, <1>4, <1>5
  <2>. QED
    BY <1>5, <1>6, <2>1 DEF TaskState
<1>. QED
  BY <1>3, <1>4, <1>5, <1>7, <1>8

\* when it gives the signal and starts its tasks,
LEMMA SGoKeeps ==
  ASSUME Inv, SGo
  PROVE  Inv'
<1>. DEFINE x == Frame("GO", 0)
<1>1. /\ TypeOK /\ SenderState /\ pc["sender"] = "go" /\ got = <<>>
      /\ setup.rtt \in Nat /\ CanWrite(Control("sender")) /\ Control("sender") \in Connections
  BY ListFacts, SideFacts DEF Inv, TypeOK, SenderState, SGo
<1>2. FramesSent = 3 + setup.rtt
  BY <1>1 DEF FramesSent
<1>3. x = FromSender(FramesSent + 1) /\ x \in Items /\ x.v \in Nat
  <2>1. FramesSent + 1 = 4 + setup.rtt /\ ~(4 + setup.rtt <= 3) /\ ~(4 + setup.rtt <= 3 + setup.rtt)
    BY <1>1, <1>2
  <2>. QED
    BY <2>1, FrameFacts DEF FromSender, FrameTypes
<1>4. Spawn("sender", Gross) /\ UNCHANGED <<setup, open, broken, left, receiving, got, late>>
  BY DEF SGo
<1>5. /\ pc'["sender"] = "tasks"
      /\ pc' \in [Sides -> {"params", "ping", "pong", "go", "tasks", "result", "ok", "error"}]
      /\ todo' \in [Sides -> [Connections -> Nat]]
      /\ task' \in [Sides -> [Connections -> {"idle", "run", "mark", "ok", "error"}]]
      /\ pc'["receiver"] = pc["receiver"] /\ todo'["receiver"] = todo["receiver"]
      /\ task'["receiver"] = task["receiver"]
      /\ \A z \in Range(List("sender")) : task'["sender"][z] = "run"
      /\ \A z \in Connections : Units("sender", z)' = 0
      /\ TaskState("sender")'
  BY <1>1, <1>4, SpawnFacts, SideFacts
<1>6. UNCHANGED <<setup, open, broken, late, ReceiverHalf>> /\ got' = got /\ left' = left
  BY <1>4, <1>5 DEF ReceiverHalf
<1>7. Put("sender", Control("sender"), <<x>>)
  BY DEF SGo
<1>. HIDE DEF x
<1>8. TypeOK'
  <2>1. <<x>> \in Seq(Items)
    BY <1>3
  <2>2. wire' \in [Sides -> [Connections -> Seq(Items)]]
    BY <1>1, <1>7, <2>1, PutFacts, SideFacts
  <2>3. left' \in [Sides -> Nat] /\ got' \in Seq(Int)
    BY <1>1, <1>6 DEF TypeOK
  <2>. QED
    BY <1>1, <1>5, <1>6, <2>2, <2>3, SenderTypes
<1>9. SenderState' /\ Taken' = Taken
  <2>1. SenderState'
    BY <1>1, <1>5, <1>6 DEF SenderState
  <2>2. Taken' = Taken
    BY <1>1, <1>5, <1>6 DEF Taken
  <2>. QED
    BY <2>1, <2>2
<1>10. FramesSent' = FramesSent + 1
  BY <1>1, <1>2, <1>5, <1>6 DEF FramesSent
<1>11. pc["sender"] \in {"params", "ping", "go"} /\ pc'["sender"] \notin {"ok", "error"}
  BY <1>1, <1>5
<1>12. \A y \in Range(List("sender")) : task["sender"][y] # "error" => task'["sender"][y] # "error"
  BY <1>5
<1>. QED
  BY <1>1, <1>3, <1>5, <1>6, <1>7, <1>8, <1>9, <1>10, <1>11, <1>12, SenderWritesFrame

\* What a frame that is there to be read is, and what reading it leaves.
LEMMA FrameThere ==
  ASSUME TypeOK, NEW d \in Sides, Ready(d, Control(d))
  PROVE  /\ Control(d) \in Connections /\ Other(d) \in Sides
         /\ wire[Other(d)][Control(d)] \in Seq(Items)
         /\ Len(wire[Other(d)][Control(d)]) \in Nat /\ Len(wire[Other(d)][Control(d)]) >= 1
         /\ 1 \in DOMAIN wire[Other(d)][Control(d)]
         /\ Head(wire[Other(d)][Control(d)]) = wire[Other(d)][Control(d)][1]
         /\ Head(wire[Other(d)][Control(d)]) \in Items
         /\ TakeFrame(d) => IF Head(wire[Other(d)][Control(d)]) = Payload THEN wire' = wire
                            ELSE Gone(Other(d), Control(d), 1)
<1>. DEFINE s == wire[Other(d)][Control(d)]
<1>1. Control(d) \in Connections /\ Other(d) \in Sides
  BY ListFacts, SideFacts DEF TypeOK
<1>2. s \in Seq(Items) /\ s # <<>>
  BY <1>1 DEF TypeOK, Items, Ready
<1>. HIDE DEF s
<1>3. /\ Len(s) \in Nat /\ Len(s) >= 1 /\ 1 \in DOMAIN s /\ DOMAIN s = 1 .. Len(s)
      /\ Head(s) = s[1] /\ s[1] \in Items
  <2>1. Len(s) \in Nat /\ DOMAIN s = 1 .. Len(s) /\ Len(s) # 0
    BY <1>2, LenProperties, EmptySeq
  <2>2. Len(s) >= 1 /\ 1 \in 1 .. Len(s)
    BY <2>1
  <2>. QED
    BY <1>2, <2>1, <2>2, ElementOfSeq
<1>4. Tail(s) = SubSeq(s, 1 + 1, Len(s))
  BY <1>2, <1>3
<1>5. ASSUME TakeFrame(d)
      PROVE  IF Head(s) = Payload THEN wire' = wire ELSE Gone(Other(d), Control(d), 1)
  BY <1>4, <1>5 DEF TakeFrame, Gone, s
<1>. QED
  BY <1>1, <1>2, <1>3, <1>5 DEF s

\* The sender reads the next frame.
LEMMA SenderReadsFrame ==
  ASSUME Inv, UNCHANGED <<setup, broken, late, ReceiverHalf>>, TypeOK', Holding', SenderState',
         TaskState("sender")', Ready("sender", Control("sender")),
         Gone("receiver", Control("sender"), 1),
         pc["sender"] # "error", pc'["sender"] # "error",
         \A z \in Range(List("sender")) : task["sender"][z] # "error" => task'["sender"][z] # "error",
         \A y \in Connections : Sent(y)' = Sent(y), Taken' = Taken + 1,
         \A k \in DOMAIN got' : got'[k] = Report[k]
  PROVE  Inv'
<1>0. TypeOK /\ Len(wire["receiver"][Control("sender")]) >= 1
      /\ Len(wire["receiver"][Control("sender")]) \in Nat /\ Control("sender") \in Connections
  BY FrameThere, SideFacts DEF Inv
<1>1. WireBack' /\ SameControl
  BY <1>0, ReadsBack DEF Inv
<1>2. wire'["sender"] = wire["sender"]
  BY <1>0, GoneFacts, SideFacts
<1>3. pc'["receiver"] = pc["receiver"] /\ \A y \in Connections : Read(y)' = Read(y)
  BY ReceiverKept DEF ReceiverHalf
<1>4. WireOut'
  BY <1>0, <1>2, <1>3, OutKept DEF Inv
<1>5. NumbersOut'
  BY <1>2 DEF Inv, NumbersOut
<1>6. Sound => \A y \in Range(List("sender")) : task'["sender"][y] # "error"
  BY SideFacts DEF Inv, Unfailing
<1>. QED
  BY <1>1, <1>4, <1>5, <1>6, SenderStep

\* when it reads the answer to a round trip,
LEMMA SPongKeeps ==
  ASSUME Inv, SPong
  PROVE  Inv'
<1>. DEFINE a == left["sender"]
            z == Control("sender")
<1>1. /\ TypeOK /\ SenderState /\ Holding /\ pc["sender"] = "pong" /\ a \in 1 .. setup.rtt /\ got = <<>>
      /\ setup.rtt \in Nat /\ Ready("sender", z) /\ Head(wire["receiver"][z]).t = "PONG"
  BY ListFacts, SideFacts DEF Inv, TypeOK, SenderState, SPong
<1>2. Gone("receiver", z, 1)
  <2>1. Head(wire["receiver"][z]) # Payload
    BY <1>1, FrameFacts
  <2>2. TakeFrame("sender")
    BY DEF SPong
  <2>. QED
    BY <1>1, <2>1, <2>2, FrameThere, SideFacts
<1>3. /\ UNCHANGED <<setup, open, broken, late, ReceiverHalf>> /\ got' = got
      /\ todo' = todo /\ task' = task /\ left' = [left EXCEPT !["sender"] = a - 1]
      /\ pc' = [pc EXCEPT !["sender"] = IF a = 1 THEN "go" ELSE "ping"]
  BY <1>1, SideFacts DEF SPong, ReceiverHalf, receiving, TypeOK
<1>4. pc'["sender"] = (IF a = 1 THEN "go" ELSE "ping") /\ left'["sender"] = a - 1
      /\ pc'["receiver"] = pc["receiver"]
  BY <1>1, <1>3, SideFacts DEF TypeOK
<1>5. TypeOK'
  <2>1. wire' \in [Sides -> [Connections -> Seq(Items)]]
    <3>1. Len(wire["receiver"][z]) \in Nat /\ 1 <= Len(wire["receiver"][z]) /\ z \in Connections
      BY <1>1, FrameThere, SideFacts
    <3>. QED
      BY <1>1, <1>2, <3>1, GoneFacts, SideFacts
  <2>2. pc' \in [Sides -> {"params", "ping", "pong", "go", "tasks", "result", "ok", "error"}]
    BY <1>1, <1>3, SideFacts DEF TypeOK
  <2>3. /\ left' \in [Sides -> Nat] /\ todo' \in [Sides -> [Connections -> Nat]] /\ got' \in Seq(Int)
        /\ task' \in [Sides -> [Connections -> {"idle", "run", "mark", "ok", "error"}]]
    BY <1>1, <1>3, SideFacts DEF TypeOK
  <2>. QED
    BY <1>1, <1>3, <2>1, <2>2, <2>3, SenderTypes
<1>6. SenderState' /\ Taken' = Taken + 1
  <2>1. SenderState'
    BY <1>1, <1>3, <1>4 DEF SenderState
  <2>2. Taken = setup.rtt - a
    BY <1>1 DEF Taken
  <2>3. Taken' = setup.rtt - a + 1
    BY <1>1, <1>3, <1>4, EmptySeq DEF Taken
  <2>. QED
    BY <1>1, <2>1, <2>2, <2>3
<1>7. TaskState("sender")' /\ \A y \in Connections : Units("sender", y) = 0 /\ Units("sender", y)' = 0
  BY <1>1, <1>4 DEF TaskState, Units, Working
<1>8. \A y \in Connections : Sent(y)' = Sent(y)
  <2>1. FramesSent = 4 + setup.rtt - a
    BY <1>1 DEF FramesSent
  <2>2. FramesSent' = 4 + setup.rtt - a
    BY <1>1, <1>3, <1>4 DEF FramesSent
  <2>. QED
    BY <1>3, <1>7, <2>1, <2>2, SetupKept DEF Sent
<1>9. Holding'
  BY <1>1, <1>3, <1>4, SetupKept, SideFacts DEF Holding
<1>10. \A k \in DOMAIN got' : got'[k] = Report[k]
  BY <1>1, <1>3, EmptySeq
<1>11. pc["sender"] # "error" /\ pc'["sender"] # "error"
  BY <1>1, <1>4
<1>12. \A y \in Range(List("sender")) : task["sender"][y] # "error" => task'["sender"][y] # "error"
  BY <1>3
<1>. QED
  BY <1>1, <1>2, <1>3, <1>5, <1>6, <1>7, <1>8, <1>9, <1>10, <1>11, <1>12, SenderReadsFrame

\* The minimum of three numbers exceeds none of them.
LEMMA MinOfThree ==
  ASSUME NEW a \in Int, NEW b \in Int, NEW c \in Int
  PROVE  Min({a, b, c}) \in Int /\ Min({a, b, c}) <= a /\ Min({a, b, c}) <= b /\ Min({a, b, c}) <= c
<1>. DEFINE S == {a, b, c}
<1>1. \E x \in S : \A y \in S : x <= y
  <2>1. CASE a <= b /\ a <= c
    BY <2>1
  <2>2. CASE b <= a /\ b <= c
    BY <2>2
  <2>3. CASE c <= a /\ c <= b
    BY <2>3
  <2>. QED
    BY <2>1, <2>2, <2>3
<1>2. Min(S) \in S /\ \A y \in S : Min(S) <= y
  <2>. HIDE DEF S
  <2>. QED
    BY <1>1 DEF Min
<1>. QED
  BY <1>2

\* How the tasks of a side ended.
LEMMA TasksEnd ==
  ASSUME TypeOK, NEW d \in Sides
  PROVE  /\ FirstNotOk(d) = "ok" => \A z \in Range(List(d)) : task[d][z] = "ok"
         /\ FirstNotOk(d) = "error" => \E z \in Range(List(d)) : task[d][z] = "error"
<1>. DEFINE bad == {j \in DOMAIN List(d) : task[d][List(d)[j]] # "ok"}
<1>1. DOMAIN List(d) \subseteq Nat
  <2>. DEFINE l == List(d)
  <2>1. l \in Seq(Range(l))
    BY ListFacts DEF TypeOK
  <2>. HIDE DEF l
  <2>2. DOMAIN l = 1 .. Len(l) /\ Len(l) \in Nat
    BY <2>1, LenProperties
  <2>3. DOMAIN l \subseteq Nat
    BY <2>2
  <2>. QED
    BY <2>3 DEF l
<1>2. FirstNotOk(d) = IF bad = {} THEN "ok" ELSE task[d][List(d)[Min(bad)]]
  BY DEF FirstNotOk
<1>3. bad # {} => Min(bad) \in bad
  <2>1. SUFFICES ASSUME bad # {} PROVE Min(bad) \in bad
    OBVIOUS
  <2>2. bad \in SUBSET Nat
    BY <1>1
  <2>. HIDE DEF bad
  <2>3. \E x \in bad : \A y \in bad : x <= y
    BY <2>1, <2>2, Least
  <2>. QED
    BY <2>3 DEF Min
<1>4. bad # {} => List(d)[Min(bad)] \in Range(List(d)) /\ task[d][List(d)[Min(bad)]] # "ok"
  <2>. DEFINE m == Min(bad)
  <2>. HIDE DEF m
  <2>. QED
    BY <1>3 DEF Range, m
<1>5. bad = {} => \A z \in Range(List(d)) : task[d][z] = "ok"
  BY DEF Range
<1>. HIDE DEF bad
<1>. QED
  BY <1>2, <1>4, <1>5

\* The parts of side d once its tasks run.
LEMMA WorkingFacts ==
  ASSUME TypeOK, NEW d \in Sides, Working(d), TaskState(d), NEW z \in Range(List(d))
  PROVE  /\ z \in Connections /\ todo[d][z] \in Nat /\ Share(List(d), Gross, z) \in Nat
         /\ Units(d, z) = Share(List(d), Gross, z) - todo[d][z]
         /\ Units(d, z) \in Nat
<1>1. z \in Connections /\ Share(List(d), Gross, z) \in Nat
  BY ListFacts, ShareFacts DEF TypeOK
<1>2. todo[d][z] \in Nat /\ todo[d][z] <= Share(List(d), Gross, z)
  BY <1>1 DEF TypeOK, TaskState
<1>3. Units(d, z) = Share(List(d), Gross, z) - todo[d][z]
  BY DEF Units
<1>. QED
  BY <1>1, <1>2, <1>3

\* A task has n units less left.
LessLeft(d, z, n) == todo' = [todo EXCEPT ![d][z] = @ - n]

\* A task that has done n units more has n units less to do.
LEMMA PartDone ==
  ASSUME TypeOK, NEW d \in Sides, Working(d), TaskState(d), NEW z \in Range(List(d)),
         NEW n \in Nat, n <= todo[d][z], LessLeft(d, z, n),
         UNCHANGED <<setup, pc>>
  PROVE  /\ todo' \in [Sides -> [Connections -> Nat]]
         /\ todo'[d][z] = todo[d][z] - n
         /\ \A y \in Connections \ {z} : todo'[d][y] = todo[d][y]
         /\ todo'[Other(d)] = todo[Other(d)]
         /\ Units(d, z)' = Units(d, z) + n
         /\ \A y \in Connections \ {z} : Units(d, y)' = Units(d, y)
<1>1. z \in Connections /\ todo[d][z] \in Nat /\ Share(List(d), Gross, z) \in Nat
      /\ Units(d, z) = Share(List(d), Gross, z) - todo[d][z]
  BY WorkingFacts
<1>2. todo[d][z] - n \in Nat /\ todo \in [Sides -> [Connections -> Nat]]
  BY <1>1 DEF TypeOK
<1>3. Other(d) # d /\ Other(d) \in Sides
  BY SideFacts
<1>4. /\ todo' \in [Sides -> [Connections -> Nat]]
      /\ todo'[d][z] = todo[d][z] - n
      /\ \A y \in Connections \ {z} : todo'[d][y] = todo[d][y]
      /\ todo'[Other(d)] = todo[Other(d)]
  BY <1>1, <1>2, <1>3 DEF LessLeft
<1>5. List(d)' = List(d) /\ Gross' = Gross /\ (Working(d)' <=> Working(d))
  BY SetupKept DEF Working
<1>6. Units(d, z)' = Share(List(d), Gross, z) - (todo[d][z] - n)
  BY <1>4, <1>5 DEF Units
<1>7. Units(d, z)' = Units(d, z) + n
  BY <1>1, <1>6
<1>8. \A y \in Connections \ {z} : Units(d, y)' = Units(d, y)
  BY <1>4, <1>5 DEF Units
<1>. QED
  BY <1>4, <1>7, <1>8

\* when one of its tasks writes,
LEMMA SWriteKeeps ==
  ASSUME Inv, NEW z \in Range(List("sender")), SWrite(z)
  PROVE  Inv'
<1>1. /\ TypeOK /\ SenderState /\ TaskState("sender") /\ pc["sender"] = "tasks" /\ got = <<>>
      /\ setup.rtt \in Nat /\ z \in Connections \ broken /\ Working("sender")
      /\ todo["sender"][z] \in Nat /\ Units("sender", z) \in Nat
  <2>1. TypeOK /\ SenderState /\ TaskState("sender") /\ pc["sender"] = "tasks" /\ z \notin broken
    BY DEF Inv, SWrite, CanWrite
  <2>2. Working("sender") /\ got = <<>>
    BY <2>1 DEF Working, SenderState
  <2>3. z \in Connections /\ todo["sender"][z] \in Nat /\ Units("sender", z) \in Nat
    BY <2>1, <2>2, WorkingFacts, SideFacts
  <2>. QED
    BY <2>1, <2>2, <2>3, ListFacts, SideFacts DEF TypeOK
<1>2. /\ UNCHANGED <<setup, open, broken, pc, left, task, receiving, got, late>>
  BY DEF SWrite
<1>3. PICK n \in 1 .. Min({todo["sender"][z], BLOCK, Buffer - Len(wire["sender"][z])}) :
        /\ Put("sender", z, [k \in 1 .. n |-> Payload])
        /\ todo' = [todo EXCEPT !["sender"][z] = @ - n]
  BY DEF SWrite
<1>4. n \in Nat /\ n <= todo["sender"][z]
  <2>1. Buffer - Len(wire["sender"][z]) \in Int /\ BLOCK \in Int /\ todo["sender"][z] \in Int
    BY <1>1, ConstantFacts, LenProperties, SideFacts DEF TypeOK
  <2>2. LET m == Min({todo["sender"][z], BLOCK, Buffer - Len(wire["sender"][z])})
        IN m \in Int /\ m <= todo["sender"][z]
    BY <2>1, MinOfThree
  <2>. QED
    BY <1>1, <2>2
<1>. DEFINE items == [k \in 1 .. n |-> Payload]
<1>5. /\ items \in Seq(Items) /\ Len(items) = n
      /\ \A k \in 1 .. Len(items) : items[k] = Payload
      /\ \A k \in 1 .. Len(items) : items[k].v \in Nat
  BY <1>4, FrameFacts
<1>6. Put("sender", z, items)
  BY <1>3
<1>. HIDE DEF items
<1>7. /\ todo' \in [Sides -> [Connections -> Nat]]
      /\ todo'["sender"][z] = todo["sender"][z] - n
      /\ \A y \in Connections \ {z} : todo'["sender"][y] = todo["sender"][y]
      /\ todo'["receiver"] = todo["receiver"]
      /\ Units("sender", z)' = Units("sender", z) + n
      /\ \A y \in Connections \ {z} : Units("sender", y)' = Units("sender", y)
  <2>1. "sender" \in Sides /\ Other("sender") = "receiver"
    BY SideFacts
  <2>2. TypeOK /\ TaskState("sender") /\ Working("sender") /\ UNCHANGED <<setup, pc>>
    BY <1>1, <1>2
  <2>3. LessLeft("sender", z, n)
    BY <1>3 DEF LessLeft
  <2>. QED
    BY <1>4, <2>1, <2>2, <2>3, PartDone
<1>8. UNCHANGED <<setup, open, broken, late, ReceiverHalf>>
  BY <1>2, <1>7 DEF ReceiverHalf
<1>9. TypeOK'
  <2>1. wire' \in [Sides -> [Connections -> Seq(Items)]]
    BY <1>1, <1>5, <1>6, PutFacts, SideFacts
  <2>2. /\ left' \in [Sides -> Nat] /\ got' \in Seq(Int)
        /\ pc' \in [Sides -> {"params", "ping", "pong", "go", "tasks", "result", "ok", "error"}]
        /\ task' \in [Sides -> [Connections -> {"idle", "run", "mark", "ok", "error"}]]
    BY <1>1, <1>2 DEF TypeOK
  <2>. QED
    BY <1>1, <1>7, <1>8, <2>1, <2>2, SenderTypes
<1>10. SenderState' /\ Taken' = Taken
  <2>1. SenderState'
    BY <1>1, <1>2 DEF SenderState
  <2>2. Taken' = Taken
    BY <1>1, <1>2 DEF Taken
  <2>. QED
    BY <2>1, <2>2
<1>11. TaskState("sender")'
  <2>1. ASSUME NEW y \in Range(List("sender"))
        PROVE  /\ todo'["sender"][y] <= Share(List("sender"), Gross, y)
               /\ task'["sender"][y] = "ok" => todo'["sender"][y] = 0
    <3>1. /\ todo["sender"][y] <= Share(List("sender"), Gross, y)
          /\ task["sender"][y] = "ok" => todo["sender"][y] = 0
      BY <1>1 DEF TaskState
    <3>2. y \in Connections /\ todo["sender"][y] \in Nat /\ Share(List("sender"), Gross, y) \in Nat
      BY <1>1, WorkingFacts, SideFacts
    <3>3. CASE y = z
      <4>1. task["sender"][z] = "run"
        BY DEF SWrite
      <4>. QED
        BY <1>2, <1>4, <1>7, <3>1, <3>2, <3>3, <4>1
    <3>4. CASE y # z
      BY <1>2, <1>7, <3>1, <3>2, <3>4
    <3>. QED
      BY <3>3, <3>4
  <2>. QED
    BY <1>1, <1>2, <2>1, SetupKept DEF TaskState
<1>12. Control("sender")' = Control("sender") /\ FramesSent' = FramesSent /\ FramesSent = 4 + setup.rtt
  BY <1>1, <1>2, SetupKept DEF FramesSent
<1>13. Sent(z)' = Sent(z) + Len(items)
  <2>. DEFINE e == IF z = Control("sender") THEN FramesSent ELSE 0
  <2>1. e \in Int
    BY <1>1, <1>12
  <2>2. Sent(z) = Units("sender", z) + e /\ Sent(z)' = Units("sender", z) + n + e
    BY <1>7, <1>12 DEF Sent
  <2>. HIDE DEF e
  <2>. QED
    BY <1>1, <1>4, <1>5, <2>1, <2>2
<1>14. \A y \in Connections \ {z} : Sent(y)' = Sent(y)
  BY <1>7, <1>12 DEF Sent
<1>15. z = Control("sender") => \A k \in 1 .. Len(items) : items[k] = FromSender(Sent(z) + k)
  <2>. SUFFICES ASSUME z = Control("sender"), NEW k \in 1 .. Len(items)
                PROVE  items[k] = FromSender(Sent(z) + k)
    OBVIOUS
  <2>1. Sent(z) = Units("sender", z) + (4 + setup.rtt)
    BY <1>12 DEF Sent
  <2>2. Sent(z) + k \in Int /\ Sent(z) + k > 4 + setup.rtt
    BY <1>1, <1>4, <1>5, <2>1
  <2>3. FromSender(Sent(z) + k) = Payload
    BY <1>1, <2>2 DEF FromSender
  <2>. QED
    BY <1>5, <2>3
<1>16. z # Control("sender") => \A k \in 1 .. Len(items) : items[k] = Payload
  BY <1>5
<1>17. pc["sender"] \notin {"ok", "error"} /\ pc'["sender"] \notin {"ok", "error"}
  BY <1>1, <1>2
<1>18. \A y \in Range(List("sender")) : task["sender"][y] # "error" => task'["sender"][y] # "error"
  BY <1>2
<1>19. got' = got
  BY <1>2
<1>. QED
  BY <1>1, <1>5, <1>6, <1>8, <1>9, <1>10, <1>11, <1>13, <1>14, <1>15, <1>16, <1>17, <1>18, <1>19,
     SenderWrites

\* when one of its tasks ends,
LEMMA SenderTaskDoneKeeps ==
  ASSUME Inv, NEW z \in Range(List("sender")), TaskDone("sender", z)
  PROVE  Inv'
<1>1. /\ TypeOK /\ SenderState /\ TaskState("sender") /\ pc["sender"] = "tasks" /\ got = <<>>
      /\ z \in Connections /\ todo["sender"][z] = 0 /\ task["sender"][z] = "run"
      /\ task' = [task EXCEPT !["sender"][z] = "ok"]
      /\ UNCHANGED <<setup, wire, open, broken, pc, left, todo, receiving, got, late>>
  BY ListFacts, SideFacts DEF Inv, TaskDone, SenderState, TypeOK
<1>2. /\ task' \in [Sides -> [Connections -> {"idle", "run", "mark", "ok", "error"}]]
      /\ task'["sender"][z] = "ok" /\ task'["receiver"] = task["receiver"]
      /\ \A y \in Connections \ {z} : task'["sender"][y] = task["sender"][y]
  BY <1>1, SideFacts DEF TypeOK
<1>3. UNCHANGED <<setup, wire, open, broken, late, ReceiverHalf>>
  BY <1>1, <1>2 DEF ReceiverHalf
<1>4. TypeOK'
  BY <1>1, <1>2 DEF TypeOK, receiving
<1>5. SenderState'
  BY <1>1 DEF SenderState
<1>6. Taken' = Taken /\ FramesSent' = FramesSent
  BY <1>1 DEF Taken, FramesSent
<1>7. TaskState("sender")'
  <2>1. ASSUME NEW y \in Range(List("sender"))
        PROVE  /\ todo'["sender"][y] <= Share(List("sender"), Gross, y)
               /\ task'["sender"][y] = "ok" => todo'["sender"][y] = 0
    <3>1. /\ todo["sender"][y] <= Share(List("sender"), Gross, y)
          /\ task["sender"][y] = "ok" => todo["sender"][y] = 0
      BY <1>1 DEF TaskState, Working
    <3>2. y \in Connections
      BY <1>1, ListFacts, SideFacts DEF TypeOK
    <3>. QED
      BY <1>1, <1>2, <3>1, <3>2
  <2>. QED
    BY <1>1, <2>1, SetupKept DEF TaskState
<1>8. \A y \in Connections : Sent(y)' = Sent(y)
  <2>1. \A y \in Connections : Units("sender", y)' = Units("sender", y)
    BY <1>1, SetupKept DEF Units, Working
  <2>. QED
    BY <1>1, <1>6, <2>1, SetupKept DEF Sent
<1>9. \A y \in Range(List("sender")) : task["sender"][y] # "error" => task'["sender"][y] # "error"
  BY <1>1, <1>2, ListFacts, SideFacts DEF TypeOK
<1>10. pc["sender"] \notin {"ok", "error"} /\ pc'["sender"] \notin {"ok", "error"} /\ got' = got
  BY <1>1
<1>. QED
  BY <1>3, <1>4, <1>5, <1>6, <1>7, <1>8, <1>9, <1>10, SenderMoves

\* when all of them have,
LEMMA SWrittenKeeps ==
  ASSUME Inv, SWritten
  PROVE  Inv'
<1>1. /\ TypeOK /\ SenderState /\ TaskState("sender") /\ pc["sender"] = "tasks" /\ got = <<>>
      /\ pc' = [pc EXCEPT !["sender"] = "result"]
      /\ UNCHANGED <<setup, wire, open, broken, left, todo, task, receiving, got, late>>
  BY DEF Inv, SWritten, SenderState
<1>2. \A y \in Range(List("sender")) : task["sender"][y] = "ok"
  BY <1>1, TasksEnd, SideFacts DEF SWritten
<1>3. /\ pc' \in [Sides -> {"params", "ping", "pong", "go", "tasks", "result", "ok", "error"}]
      /\ pc'["sender"] = "result" /\ pc'["receiver"] = pc["receiver"]
  BY <1>1, SideFacts DEF TypeOK
<1>4. UNCHANGED <<setup, wire, open, broken, late, ReceiverHalf>>
  BY <1>1, <1>3 DEF ReceiverHalf
<1>5. TypeOK'
  BY <1>1, <1>3 DEF TypeOK, receiving
<1>6. Len(got) = 0 /\ Len(series) \in Nat /\ series' = series
  BY <1>1, EmptySeq, CountTypes DEF receiving
<1>7. SenderState'
  BY <1>1, <1>3, <1>6 DEF SenderState
<1>8. Taken' = Taken /\ FramesSent' = FramesSent
  BY <1>1, <1>3 DEF Taken, FramesSent
<1>9. TaskState("sender")'
  <2>1. ASSUME NEW y \in Range(List("sender"))
        PROVE  /\ todo["sender"][y] <= Share(List("sender"), Gross, y)
               /\ task["sender"][y] = "ok" => todo["sender"][y] = 0
    BY <1>1 DEF TaskState, Working
  <2>. QED
    BY <1>1, <1>2, <2>1, SetupKept DEF TaskState
<1>10. \A y \in Connections : Sent(y)' = Sent(y)
  <2>1. \A y \in Connections : Units("sender", y)' = Units("sender", y)
    BY <1>1, <1>3, SetupKept DEF Units, Working
  <2>. QED
    BY <1>1, <1>8, <2>1, SetupKept DEF Sent
<1>11. \A y \in Range(List("sender")) : task["sender"][y] # "error" => task'["sender"][y] # "error"
  BY <1>1
<1>12. pc["sender"] \notin {"ok", "error"} /\ pc'["sender"] \notin {"ok", "error"} /\ got' = got
  BY <1>1, <1>3
<1>. QED
  BY <1>4, <1>5, <1>7, <1>8, <1>9, <1>10, <1>11, <1>12, SenderMoves

\* What the receiver reports.
LEMMA ReportFacts ==
  ASSUME TypeOK
  PROVE  /\ Report \in Seq(Int) /\ Len(Report) = 3 + Len(series) /\ DOMAIN Report = 1 .. 3 + Len(series)
         /\ Report[3] = Len(series)
         /\ \A k \in 1 .. 3 + Len(series) : Report[k] \in Int
         /\ \A k \in 1 .. Len(series) : Report[3 + k] = series[k]
<1>. DEFINE s == <<measured, 0, Len(series)>>
<1>1. series \in Seq(Int) /\ Len(series) \in Nat /\ measured \in Int
  BY LenProperties DEF TypeOK
<1>2. s \in Seq(Int) /\ Len(s) = 3 /\ s[3] = Len(series)
  BY <1>1
<1>. HIDE DEF s
<1>3. /\ s \o series \in Seq(Int) /\ Len(s \o series) = 3 + Len(series)
      /\ \A k \in 1 .. 3 + Len(series) : (s \o series)[k] = IF k <= 3 THEN s[k] ELSE series[k - 3]
  <2>1. /\ s \o series \in Seq(Int) /\ Len(s \o series) = Len(s) + Len(series)
        /\ \A k \in 1 .. Len(s) + Len(series) :
             (s \o series)[k] = IF k <= Len(s) THEN s[k] ELSE series[k - Len(s)]
    BY <1>1, <1>2, ConcatProperties, Zenon
  <2>. QED
    BY <1>2, <2>1, Zenon
<1>4. DOMAIN (s \o series) = 1 .. 3 + Len(series)
  BY <1>1, <1>3, LenProperties
<1>5. (s \o series)[3] = Len(series)
  BY <1>1, <1>2, <1>3
<1>6. \A k \in 1 .. Len(series) : (s \o series)[3 + k] = series[k]
  BY <1>1, <1>3
<1>7. \A k \in 1 .. 3 + Len(series) : (s \o series)[k] \in Int
  BY <1>3, <1>4, ElementOfSeq
<1>. QED
  BY <1>3, <1>4, <1>5, <1>6, <1>7 DEF Report, s

\* A frame of the result that the sender reads.
LEMMA ResultRead ==
  ASSUME Inv, pc["sender"] = "result", Ready("sender", Control("sender"))
  PROVE  LET f == Head(wire["receiver"][Control("sender")])
         IN /\ SameControl
            /\ f = Frame("RESULT", Report[Len(got) + 1]) /\ f # Payload
            /\ f.t = "RESULT" /\ f.v = Report[Len(got) + 1]
            /\ Len(got) < 3 + Len(series)
            /\ \A k \in DOMAIN got : got[k] = Report[k]
<1>. DEFINE z == Control("sender")
            line == wire["receiver"][z]
<1>1. /\ TypeOK /\ SenderState /\ WireBack /\ setup.rtt \in Nat
      /\ z \in Connections /\ Len(line) >= 1 /\ Len(line) \in Nat /\ 1 \in DOMAIN line
      /\ Head(line) = line[1] /\ Head(line) \in Items
      /\ Len(got) \in Nat /\ Len(series) \in Nat
  BY FrameThere, SideFacts, CountTypes, ListFacts DEF Inv, TypeOK
<1>2. SameControl
  BY <1>1, EmptySeq DEF WireBack, SameControl
<1>3. /\ line[1] = FromReceiver(Taken + 1)
      /\ \A k \in DOMAIN got : got[k] = Report[k]
  BY <1>1, <1>2 DEF WireBack
<1>4. Taken = setup.rtt + Len(got)
  BY DEF Taken
<1>5. Taken + 1 > setup.rtt /\ (Taken + 1) - setup.rtt = Len(got) + 1 /\ Taken + 1 \in Int
  BY <1>1, <1>4
<1>6. FromReceiver(Taken + 1) = Frame("RESULT", Report[Len(got) + 1])
  BY <1>1, <1>5 DEF FromReceiver
<1>7. Len(got) < 3 + Len(series)
  BY <1>1 DEF SenderState
<1>8. Report[Len(got) + 1] \in Int
  BY <1>1, <1>7, ReportFacts
<1>9. LET f == Frame("RESULT", Report[Len(got) + 1])
      IN f # Payload /\ f.t = "RESULT" /\ f.v = Report[Len(got) + 1]
  BY <1>8, FrameFacts DEF FrameTypes
<1>. QED
  BY <1>1, <1>2, <1>3, <1>6, <1>7, <1>9

\* and when it reads a frame of the result, the last one included.
LEMMA SResultKeeps ==
  ASSUME Inv, SResult
  PROVE  Inv'
<1>. DEFINE z == Control("sender")
            f == Head(wire["receiver"][z])
            n == Len(got) + 1
<1>1. /\ TypeOK /\ SenderState /\ TaskState("sender") /\ Holding
      /\ pc["sender"] = "result" /\ Ready("sender", z)
      /\ got' = Append(got, f.v) /\ TakeFrame("sender")
      /\ UNCHANGED <<setup, broken, left, todo, task, receiving, late>>
  BY DEF Inv, SResult
<1>2. /\ f # Payload /\ f.v = Report[n] /\ Len(got) < 3 + Len(series)
      /\ \A k \in DOMAIN got : got[k] = Report[k]
  BY <1>1, ResultRead
<1>3. Len(got) \in Nat /\ Len(series) \in Nat /\ got \in Seq(Int) /\ f.v \in Int
      /\ z \in Connections /\ Len(wire["receiver"][z]) \in Nat /\ 1 <= Len(wire["receiver"][z])
      /\ Report' = Report /\ series' = series /\ setup.rtt \in Nat
  BY <1>1, CountTypes, FrameThere, SideFacts, ListFacts DEF TypeOK, Items, Report, receiving
<1>. HIDE DEF f
<1>4. Gone("receiver", z, 1)
  BY <1>1, <1>2, FrameThere, SideFacts DEF f
<1>5. /\ got' \in Seq(Int) /\ Len(got') = n /\ DOMAIN got' = 1 .. n
      /\ \A k \in DOMAIN got' : got'[k] = Report[k]
  <2>1. /\ got' \in Seq(Int) /\ Len(got') = n
        /\ \A k \in 1 .. Len(got) : got'[k] = got[k]
        /\ got'[n] = f.v
    BY <1>1, <1>3, AppendProperties
  <2>2. DOMAIN got' = 1 .. n /\ DOMAIN got = 1 .. Len(got)
    BY <1>3, <2>1, LenProperties
  <2>3. ASSUME NEW k \in 1 .. n PROVE got'[k] = Report[k]
    <3>1. CASE k \in 1 .. Len(got)
      BY <1>2, <2>1, <2>2, <3>1
    <3>2. CASE k = n
      BY <1>2, <2>1, <3>2
    <3>. QED
      BY <1>3, <3>1, <3>2
  <2>. QED
    BY <2>1, <2>2, <2>3
<1>6. \/ n = 3 + Len(series) /\ Finish("sender", "ok")
      \/ n < 3 + Len(series) /\ UNCHANGED <<pc, open>>
  <2>1. n >= 3 => got'[3] = Len(series)
    <3>1. n >= 3 => 3 \in DOMAIN got'
      BY <1>3, <1>5
    <3>2. Report[3] = Len(series)
      BY <1>1, ReportFacts
    <3>. QED
      BY <1>5, <3>1, <3>2
  <2>2. (Len(got') >= 3 /\ Len(got') = 3 + got'[3]) <=> n = 3 + Len(series)
    BY <1>3, <1>5, <2>1
  <2>3. IF n = 3 + Len(series) THEN Finish("sender", "ok") ELSE UNCHANGED <<pc, open>>
    BY <2>2 DEF SResult
  <2>. QED
    BY <1>2, <1>3, <2>3
<1>7. /\ pc'["sender"] = (IF n = 3 + Len(series) THEN "ok" ELSE "result")
      /\ pc'["receiver"] = pc["receiver"]
      /\ pc' \in [Sides -> {"params", "ping", "pong", "go", "tasks", "result", "ok", "error"}]
      /\ open' \in [Sides -> SUBSET Connections]
      /\ open'["receiver"] = open["receiver"]
      /\ open'["sender"] = IF n = 3 + Len(series) /\ ~setup.then THEN {} ELSE open["sender"]
  <2>1. CASE n = 3 + Len(series) /\ Finish("sender", "ok")
    BY <1>1, <2>1, SideFacts DEF Finish, TypeOK
  <2>2. CASE n < 3 + Len(series) /\ UNCHANGED <<pc, open>>
    <3>1. n # 3 + Len(series) /\ pc["sender"] = "result" /\ pc' = pc /\ open' = open
      BY <1>1, <1>3, <2>2
    <3>2. /\ pc \in [Sides -> {"params", "ping", "pong", "go", "tasks", "result", "ok", "error"}]
          /\ open \in [Sides -> SUBSET Connections]
      BY <1>1 DEF TypeOK
    <3>. HIDE DEF n
    <3>. QED
      BY <3>1, <3>2, Zenon
  <2>. QED
    BY <1>6, <2>1, <2>2
<1>8. UNCHANGED <<setup, broken, late, ReceiverHalf>>
  BY <1>1, <1>7 DEF ReceiverHalf
<1>9. TypeOK'
  <2>1. wire' \in [Sides -> [Connections -> Seq(Items)]]
    BY <1>1, <1>3, <1>4, GoneFacts, SideFacts
  <2>2. pc'["receiver"] # "pong"
    BY <1>1, <1>7 DEF TypeOK
  <2>. QED
    BY <1>1, <1>5, <1>7, <2>1, <2>2 DEF TypeOK, Items, receiving
<1>10. SenderState'
  BY <1>1, <1>2, <1>3, <1>5, <1>6, <1>7 DEF SenderState
<1>11. Taken' = Taken + 1
  <2>1. Taken = setup.rtt + Len(got)
    BY <1>1 DEF Taken
  <2>2. Taken' = setup.rtt + n
    BY <1>1, <1>5, <1>7 DEF Taken
  <2>. QED
    BY <1>3, <2>1, <2>2
<1>12. FramesSent' = FramesSent
  BY <1>1, <1>7 DEF FramesSent
<1>13. TaskState("sender")'
  <2>1. ASSUME NEW y \in Range(List("sender"))
        PROVE  /\ todo["sender"][y] <= Share(List("sender"), Gross, y)
               /\ task["sender"][y] = "ok" => todo["sender"][y] = 0
               /\ task["sender"][y] = "ok"
    BY <1>1 DEF TaskState, Working
  <2>. QED
    BY <1>1, <2>1, SetupKept DEF TaskState
<1>14. \A y \in Connections : Sent(y)' = Sent(y)
  <2>1. \A y \in Connections : Units("sender", y)' = Units("sender", y)
    BY <1>1, <1>7, SetupKept DEF Units, Working
  <2>. QED
    BY <1>1, <1>12, <2>1, SetupKept DEF Sent
<1>15. Holding'
  <2>1. /\ open["sender"] = Range(List("sender"))
        /\ open["receiver"] = (IF pc["receiver"] = "error" \/ (pc["receiver"] = "ok" /\ ~setup.then)
                               THEN {} ELSE Range(List("receiver")))
    BY <1>1, SideFacts DEF Holding
  <2>. QED
    BY <1>1, <1>7, <2>1, SetupKept, SideFacts DEF Holding
<1>16. pc["sender"] # "error" /\ pc'["sender"] # "error"
  BY <1>1, <1>7
<1>17. \A y \in Range(List("sender")) : task["sender"][y] # "error" => task'["sender"][y] # "error"
  BY <1>1
<1>. QED
  BY <1>1, <1>4, <1>5, <1>8, <1>9, <1>10, <1>11, <1>13, <1>14, <1>15, <1>16, <1>17, SenderReadsFrame

----------------------------------------------------------------------------
(* Steps that fail.                                                        *)

\* The receiver has written everything only when it is through.
LEMMA WrittenFacts ==
  ASSUME TypeOK, ReceiverState, SameControl, pc["receiver"] # "error"
  PROVE  /\ Written \in Int /\ Total \in Int /\ Written <= Total
         /\ Written = Total => pc["receiver"] = "ok"
<1>1. /\ setup.rtt \in Nat /\ Len(series) \in Nat /\ left["receiver"] \in Nat
      /\ Total = setup.rtt + 3 + Len(series) /\ Written \in Int /\ Total \in Int
  BY CountTypes, ListFacts, SideFacts DEF TypeOK
<1>2. pc["receiver"] \in {"params", "ping", "go", "tasks", "result", "ok"}
  BY SideFacts DEF TypeOK
<1>3. CASE pc["receiver"] \in {"params", "go", "tasks"}
  <2>1. Written \in {0, setup.rtt}
    BY <1>3 DEF Written
  <2>. QED
    BY <1>1, <2>1
<1>4. CASE pc["receiver"] = "ping"
  <2>1. Written = setup.rtt - left["receiver"]
    BY <1>4 DEF Written
  <2>. QED
    BY <1>1, <2>1
<1>5. CASE pc["receiver"] = "result"
  <2>1. Written = Total - left["receiver"] /\ left["receiver"] >= 1
    BY <1>1, <1>5 DEF Written, ReceiverState
  <2>. QED
    BY <1>1, <2>1
<1>6. CASE pc["receiver"] = "ok"
  BY <1>1, <1>6 DEF Written
<1>. QED
  BY <1>2, <1>3, <1>4, <1>5, <1>6

\* The sender is through only after the receiver.
LEMMA ReceiverEndsFirst ==
  ASSUME Inv, pc["sender"] = "ok"
  PROVE  /\ SameControl /\ pc["receiver"] = "ok"
         /\ Taken = Total
         /\ wire["receiver"][Control("sender")] = <<>>
         /\ Len(got) = 3 + Len(series)
         /\ \A k \in DOMAIN got : got[k] = Report[k]
<1>. DEFINE line == wire["receiver"][Control("sender")]
<1>1. SameControl
  BY DEF Inv, Apart
<1>2. /\ TypeOK /\ SenderState /\ ReceiverState /\ WireBack /\ setup.rtt \in Nat
      /\ Len(got) \in Nat /\ Len(series) \in Nat /\ Total = setup.rtt + 3 + Len(series)
      /\ line \in Seq(Items) /\ Len(line) \in Nat
  <2>1. TypeOK /\ SenderState /\ ReceiverState /\ WireBack
    BY DEF Inv
  <2>2. line \in Seq(Items)
    BY <2>1, LineTypes, SideFacts
  <2>. HIDE DEF line
  <2>. QED
    BY <2>1, <2>2, ListFacts, CountTypes, SideFacts, LenProperties DEF TypeOK
<1>3. Len(got) = 3 + Len(series)
  BY <1>2 DEF SenderState
<1>4. Taken = Total
  <2>1. Taken = setup.rtt + Len(got)
    BY DEF Taken
  <2>. QED
    BY <1>2, <1>3, <2>1
<1>5. /\ \A k \in DOMAIN got : got[k] = Report[k]
      /\ pc["receiver"] # "error" => Taken + Len(line) <= Written
      /\ pc["receiver"] = "error" => Taken + Len(line) < Total
  BY <1>1, <1>2 DEF WireBack
<1>. HIDE DEF line
<1>6. pc["receiver"] # "error" /\ Written \in Int /\ Written <= Total
  <2>1. pc["receiver"] # "error"
    BY <1>2, <1>4, <1>5
  <2>. QED
    BY <1>1, <1>2, <2>1, WrittenFacts
<1>7. Written = Total /\ Len(line) = 0
  BY <1>2, <1>4, <1>5, <1>6
<1>8. pc["receiver"] = "ok"
  BY <1>1, <1>2, <1>6, <1>7, WrittenFacts
<1>9. line = <<>>
  BY <1>2, <1>7, EmptySeq
<1>. QED
  BY <1>1, <1>3, <1>4, <1>5, <1>8, <1>9 DEF line

\* The receiver is through only when the sender has written everything.
LEMMA SenderWritesAll ==
  ASSUME Inv, Sound, pc["receiver"] = "ok"
  PROVE  Working("sender") /\ \A z \in Range(List("sender")) : todo["sender"][z] = 0
<1>. DEFINE c == Control("sender")
<1>1. /\ TypeOK /\ WireOut /\ TaskState("sender") /\ TaskState("receiver")
      /\ List("sender") = List("receiver") /\ SameControl /\ broken = {}
      /\ pc["sender"] # "error" /\ setup.rtt \in Nat /\ Working("receiver")
      /\ c \in Range(List("sender")) /\ Range(List("sender")) \subseteq Connections
  BY ListFacts, SideFacts DEF Inv, TypeOK, Sound, SameControl, Control, Unfailing, Working
<1>2. ASSUME NEW z \in Range(List("sender"))
      PROVE  /\ Share(List("sender"), Gross, z) \in Nat
             /\ Units("receiver", z) = Share(List("sender"), Gross, z)
             /\ Sent(z) \in Int /\ Read(z) \in Int /\ Sent(z) >= Read(z)
  <2>1. z \in Connections \ broken
    BY <1>1
  <2>2. /\ Share(List("sender"), Gross, z) \in Nat /\ todo["receiver"][z] = 0
        /\ Units("receiver", z) = Share(List("sender"), Gross, z) - todo["receiver"][z]
    BY <1>1, WorkingFacts, SideFacts DEF TaskState
  <2>3. Len(wire["sender"][z]) \in Nat
    BY <1>1, <2>1, SideFacts, LenProperties DEF TypeOK
  <2>4. Len(wire["sender"][z]) = Sent(z) - Read(z)
    BY <1>1, <2>1 DEF WireOut
  <2>5. Sent(z) \in Int /\ Read(z) \in Int
    BY <1>1, <2>1, CountTypes
  <2>. QED
    BY <2>2, <2>3, <2>4, <2>5
<1>3. FramesRead = 4 + setup.rtt
  BY DEF FramesRead
<1>4. Working("sender")
  <2>1. SUFFICES ASSUME ~Working("sender") PROVE FALSE
    OBVIOUS
  <2>2. Sent(c) = FramesSent
    BY <2>1, CountTypes, <1>1 DEF Sent, Units
  <2>3. pc["sender"] \in {"params", "ping", "pong", "go"}
    BY <1>1, <2>1, SideFacts DEF TypeOK, Working
  <2>4. FramesSent < 4 + setup.rtt
    <3>1. SenderState /\ left["sender"] \in Nat
      BY <1>1, SideFacts DEF Inv, TypeOK
    <3>2. CASE pc["sender"] = "params"
      BY <1>1, <3>1, <3>2 DEF FramesSent
    <3>3. CASE pc["sender"] = "ping"
      BY <1>1, <3>1, <3>3 DEF FramesSent
    <3>4. CASE pc["sender"] = "pong"
      BY <1>1, <3>1, <3>4 DEF FramesSent, SenderState
    <3>5. CASE pc["sender"] = "go"
      BY <1>1, <3>1, <3>5 DEF FramesSent
    <3>. QED
      BY <2>3, <3>2, <3>3, <3>4, <3>5
  <2>5. Read(c) = Units("receiver", c) + (4 + setup.rtt)
    BY <1>1, <1>3 DEF Read, SameControl
  <2>6. /\ Units("receiver", c) \in Nat /\ Sent(c) \in Int /\ Read(c) \in Int /\ Sent(c) >= Read(c)
    BY <1>1, <1>2
  <2>. HIDE DEF c
  <2>. QED
    BY <1>1, <2>2, <2>4, <2>5, <2>6
<1>5. FramesSent = 4 + setup.rtt
  BY <1>1, <1>4 DEF FramesSent, Working
<1>6. ASSUME NEW z \in Range(List("sender")) PROVE todo["sender"][z] = 0
  <2>. DEFINE e == IF z = c THEN 4 + setup.rtt ELSE 0
              a == Share(List("sender"), Gross, z)
  <2>1. Sent(z) = Units("sender", z) + e /\ Read(z) = Units("receiver", z) + e /\ e \in Int
    BY <1>1, <1>3, <1>5 DEF Sent, Read, SameControl
  <2>2. todo["sender"][z] \in Nat /\ Units("sender", z) = a - todo["sender"][z]
    BY <1>1, <1>4, <1>6, WorkingFacts, SideFacts
  <2>3. a \in Nat /\ Units("receiver", z) = a /\ Sent(z) >= Read(z)
    BY <1>2, <1>6
  <2>. HIDE DEF e, a
  <2>. QED
    BY <2>1, <2>2, <2>3
<1>. QED
  BY <1>4, <1>6

\* Unless something broke, a side gives up a connection only when it is through.
LEMMA GivenUp ==
  ASSUME Inv, Sound, NEW d \in Sides, NEW z \in Range(List(d)), z \notin open[Other(d)]
  PROVE  pc[Other(d)] = "ok"
<1>1. Other(d) \in Sides /\ Range(List(Other(d))) = Range(List(d))
  BY SideFacts DEF Sound
<1>2. pc[Other(d)] # "error"
  BY <1>1 DEF Inv, Unfailing
<1>3. open[Other(d)] = IF pc[Other(d)] = "error" \/ (pc[Other(d)] = "ok" /\ ~setup.then)
                       THEN {} ELSE Range(List(Other(d)))
  BY <1>1 DEF Inv, Holding
<1>. QED
  BY <1>1, <1>2, <1>3

\* What is left to show of a step with which a side fails.
LEMMA SenderFails ==
  ASSUME Inv, UNCHANGED <<setup, broken, left, todo, task, receiving, got>>, late' \in BOOLEAN,
         pc["sender"] \notin {"ok", "error"}, Finish("sender", "error"), ~Sound',
         \/ wire' = wire
         \/ Ready("sender", Control("sender")) /\ Gone("receiver", Control("sender"), 1)
  PROVE  Inv'
<1>1. TypeOK /\ WireOut /\ WireBack /\ Holding /\ NumbersOut /\ Apart
  BY DEF Inv
<1>2. /\ pc' = [pc EXCEPT !["sender"] = "error"] /\ open' = [open EXCEPT !["sender"] = {}]
  BY DEF Finish
<1>3. /\ pc' \in [Sides -> {"params", "ping", "pong", "go", "tasks", "result", "ok", "error"}]
      /\ pc'["sender"] = "error" /\ pc'["receiver"] = pc["receiver"]
      /\ open' \in [Sides -> SUBSET Connections]
      /\ open'["sender"] = {} /\ open'["receiver"] = open["receiver"]
  BY <1>1, <1>2, SideFacts DEF TypeOK
<1>4. UNCHANGED <<setup, broken, ReceiverHalf>>
  BY <1>3 DEF ReceiverHalf
<1>5. /\ ReceiverState' /\ TaskState("receiver")' /\ ReadAddsUp' /\ SeriesAddsUp' /\ Warming'
      /\ \A y \in Connections : Read(y)' = Read(y)
  BY <1>4, ReceiverKept DEF Inv
<1>6. /\ wire' \in [Sides -> [Connections -> Seq(Items)]] /\ wire'["sender"] = wire["sender"]
      /\ WireBack' /\ (SameControl \/ wire' = wire)
  <2>1. CASE wire' = wire
    <3>1. wire' \in [Sides -> [Connections -> Seq(Items)]] /\ wire'["sender"] = wire["sender"]
      BY <1>1, <2>1 DEF TypeOK, Items
    <3>2. WireBack'
      BY <1>1, <1>3, <1>4, <2>1, BackKept
    <3>. QED
      BY <2>1, <3>1, <3>2
  <2>2. CASE Ready("sender", Control("sender")) /\ Gone("receiver", Control("sender"), 1)
    <3>1. /\ Control("sender") \in Connections
          /\ Len(wire["receiver"][Control("sender")]) \in Nat
          /\ Len(wire["receiver"][Control("sender")]) >= 1
      BY <1>1, <2>2, FrameThere, SideFacts
    <3>2. wire' \in [Sides -> [Connections -> Seq(Items)]] /\ wire'["sender"] = wire["sender"]
      BY <1>1, <2>2, <3>1, GoneFacts, SideFacts
    <3>3. WireBack' /\ SameControl
      BY <1>1, <1>3, <1>4, <2>2, <3>1, ReadsBack
    <3>. QED
      BY <3>2, <3>3
  <2>. QED
    BY <2>1, <2>2
<1>7. WireOut'
  BY <1>1, <1>3, <1>4, <1>5, <1>6, OutKept
<1>8. TypeOK'
  <2>1. pc'["receiver"] # "pong"
    BY <1>1, <1>3 DEF TypeOK
  <2>. QED
    BY <1>1, <1>3, <1>6, <2>1 DEF TypeOK, Items, receiving
<1>9. NumbersOut'
  BY <1>1, <1>6 DEF NumbersOut
<1>10. Holding'
  BY <1>1, <1>3, SetupKept, SideFacts DEF Holding
<1>11. SenderState' /\ TaskState("sender")'
  BY <1>3 DEF SenderState, TaskState, Working
<1>12. Apart'
  <2>1. Payload' = Payload
    BY DEF Payload, Frame
  <2>. QED
    BY <1>1, <1>3, <1>6, <2>1, SetupKept DEF Apart, receiving
<1>13. Unfailing'
  BY DEF Unfailing
<1>. QED
  BY <1>5, <1>6, <1>7, <1>8, <1>9, <1>10, <1>11, <1>12, <1>13 DEF Inv

\* A receiver that fails for a cause leaves the invariant intact.
LEMMA ReceiverFails ==
  ASSUME Inv, UNCHANGED <<setup, broken, left, todo, task, receiving, got>>, late' \in BOOLEAN,
         pc["receiver"] \notin {"ok", "error"}, Finish("receiver", "error"), ~Sound',
         \/ wire' = wire
         \/ Ready("receiver", Control("receiver")) /\ Gone("sender", Control("receiver"), 1)
  PROVE  Inv'
<1>1. TypeOK /\ WireOut /\ WireBack /\ Holding /\ NumbersOut /\ Apart /\ ReceiverState
  BY DEF Inv
<1>2. /\ pc' = [pc EXCEPT !["receiver"] = "error"] /\ open' = [open EXCEPT !["receiver"] = {}]
  BY DEF Finish
<1>3. /\ pc' \in [Sides -> {"params", "ping", "pong", "go", "tasks", "result", "ok", "error"}]
      /\ pc'["receiver"] = "error" /\ pc'["sender"] = pc["sender"]
      /\ open' \in [Sides -> SUBSET Connections]
      /\ open'["receiver"] = {} /\ open'["sender"] = open["sender"]
  BY <1>1, <1>2, SideFacts DEF TypeOK
<1>4. UNCHANGED <<setup, broken, SenderHalf>> /\ series' = series
  BY <1>3 DEF SenderHalf, receiving
<1>5. SenderState' /\ TaskState("sender")'
  BY <1>4, SenderKept DEF Inv
<1>6. /\ wire' \in [Sides -> [Connections -> Seq(Items)]] /\ wire'["receiver"] = wire["receiver"]
      /\ \A y \in Connections : \A k \in DOMAIN wire'["sender"][y] :
           \E j \in DOMAIN wire["sender"][y] : wire'["sender"][y][k] = wire["sender"][y][j]
  <2>1. CASE wire' = wire
    BY <1>1, <2>1 DEF TypeOK, Items
  <2>2. CASE Ready("receiver", Control("receiver")) /\ Gone("sender", Control("receiver"), 1)
    <3>. DEFINE z == Control("receiver")
    <3>1. /\ z \in Connections /\ Len(wire["sender"][z]) \in Nat /\ Len(wire["sender"][z]) >= 1
          /\ DOMAIN wire["sender"][z] = 1 .. Len(wire["sender"][z])
      BY <1>1, <2>2, FrameThere, LenProperties, SideFacts
    <3>2. /\ wire' \in [Sides -> [Connections -> Seq(Items)]] /\ wire'["receiver"] = wire["receiver"]
          /\ \A k \in DOMAIN wire'["sender"][z] :
               k + 1 \in 1 .. Len(wire["sender"][z]) /\ wire'["sender"][z][k] = wire["sender"][z][k + 1]
          /\ \A y \in Connections \ {z} : wire'["sender"][y] = wire["sender"][y]
      BY <1>1, <2>2, <3>1, GoneFacts, SideFacts
    <3>. HIDE DEF z
    <3>. QED
      BY <3>1, <3>2
  <2>. QED
    BY <2>1, <2>2
<1>7. WireOut'
  BY <1>3 DEF WireOut
<1>8. WireBack'
  <2>1. /\ Total' = Total /\ Report' = Report /\ \A i \in Int : FromReceiver(i)' = FromReceiver(i)
        /\ Taken' = Taken /\ Taken \in Int /\ setup' = setup /\ got' = got
    BY <1>1, <1>4, SenderKept, CountTypes DEF Total, Report, FromReceiver, receiving
  <2>2. ASSUME SameControl, pc["sender"] # "error"
        PROVE  Taken + Len(wire["receiver"][Control("sender")]) < Total
    <3>. DEFINE n == Len(wire["receiver"][Control("sender")])
    <3>1. n \in Nat
      BY <1>1, ListFacts, SideFacts, LenProperties DEF TypeOK
    <3>2. Taken + n <= Written
      BY <1>1, <2>2 DEF WireBack
    <3>3. Written \in Int /\ Total \in Int /\ Written < Total
      BY <1>1, <2>2, WrittenFacts
    <3>. HIDE DEF n
    <3>4. Taken \in Int
      BY <2>1
    <3>5. Taken + n < Total
      BY <3>1, <3>2, <3>3, <3>4
    <3>. QED
      BY <3>5 DEF n
  <2>3. Control("sender") \in Connections
        /\ DOMAIN wire["receiver"][Control("sender")] \subseteq Int
    <3>1. Control("sender") \in Connections
      BY <1>1, LineTypes, SideFacts
    <3>2. wire["receiver"][Control("sender")] \in Seq(Items)
      BY <1>1, <3>1, LineTypes, SideFacts
    <3>. QED
      BY <3>1, <3>2, LenProperties
  <2>. QED
    BY <1>1, <1>3, <1>6, <2>1, <2>2, <2>3, SetupKept DEF WireBack
<1>9. TypeOK'
  <2>1. pc'["receiver"] # "pong"
    BY <1>3
  <2>. QED
    BY <1>1, <1>3, <1>6, <2>1 DEF TypeOK, Items, receiving
<1>10. NumbersOut'
  BY <1>1, <1>6 DEF NumbersOut
<1>11. Holding'
  BY <1>1, <1>3, SetupKept, SideFacts DEF Holding
<1>12. ReceiverState' /\ TaskState("receiver")'
  <2>1. ASSUME SameControl, NEW k \in DOMAIN param PROVE param[k] = Param(k) /\ k \in Int
    <3>1. DOMAIN param \subseteq Int
      BY <1>1, LenProperties DEF TypeOK
    <3>. QED
      BY <1>1, <2>1, <3>1 DEF ReceiverState
  <2>2. ReceiverState'
    BY <1>3, <2>1, SetupKept DEF ReceiverState, receiving
  <2>. QED
    BY <1>3, <2>2 DEF TaskState, Working
<1>13. Apart'
  <2>1. Payload' = Payload
    BY DEF Payload, Frame
  <2>2. Control("receiver") \in Connections
    BY <1>1, ListFacts, SideFacts DEF TypeOK
  <2>3. SUFFICES ASSUME ~SameControl
                 PROVE  /\ pc'["sender"] # "ok" /\ got' = <<>>
                        /\ \A z \in Connections : wire'["receiver"][z] = <<>>
                        /\ \A k \in DOMAIN wire'["sender"][Control("receiver")] :
                             wire'["sender"][Control("receiver")][k] = Payload
                        /\ \A k \in DOMAIN param' : param'[k] = 99
    BY <1>3, <2>1, SetupKept DEF Apart
  <2>4. \A k \in DOMAIN wire["sender"][Control("receiver")] :
          wire["sender"][Control("receiver")][k] = Payload
    BY <1>1, <2>3 DEF Apart
  <2>5. \A k \in DOMAIN wire'["sender"][Control("receiver")] :
          wire'["sender"][Control("receiver")][k] = Payload
    BY <1>6, <2>2, <2>4
  <2>. QED
    BY <1>1, <1>3, <1>6, <2>3, <2>5 DEF Apart, receiving
<1>14. ReadAddsUp'
  BY <1>3 DEF ReadAddsUp, Working
<1>15. SeriesAddsUp'
  BY DEF Inv, SeriesAddsUp, receiving
<1>16. Warming'
  <2>1. Marking' = Marking
    BY SetupKept DEF Marking, receiving
  <2>. QED
    BY <2>1, SetupKept DEF Inv, Warming, receiving
<1>17. Unfailing'
  BY DEF Unfailing
<1>. QED
  BY <1>5, <1>7, <1>8, <1>9, <1>10, <1>11, <1>12, <1>13, <1>14, <1>15, <1>16, <1>17 DEF Inv

\* What can make a side fail is in these three alone.
LEMMA SoundStays ==
  ASSUME UNCHANGED <<setup, broken, late>>
  PROVE  Sound' <=> Sound
BY SetupKept DEF Sound

\* No task fails of itself.
LEMMA TasksUnfailing ==
  ASSUME Inv, NEW d \in Sides, FirstNotOk(d) = "error"
  PROVE  ~Sound
BY TasksEnd DEF Inv, Unfailing

\* The sender can write what it still has to, unless something broke.
LEMMA SenderCanWrite ==
  ASSUME Inv, NEW z \in Range(List("sender")), WriteMayFail("sender", z),
         pc["sender"] \in {"params", "ping", "go"} \/ (pc["sender"] = "tasks" /\ todo["sender"][z] > 0)
  PROVE  ~Sound
<1>. SUFFICES ASSUME Sound PROVE FALSE
  OBVIOUS
<1>1. z \notin open["receiver"]
  BY SideFacts DEF WriteMayFail, Sound
<1>2. pc["receiver"] = "ok"
  BY <1>1, GivenUp, SideFacts
<1>3. Working("sender") /\ todo["sender"][z] = 0
  BY <1>2, SenderWritesAll
<1>. QED
  BY <1>3 DEF Working

\* It has not read everything while it waits, and the receiver has not, either.
LEMMA SenderCanRead ==
  ASSUME Inv, pc["sender"] \in {"pong", "result"}, AtEnd("sender", Control("sender"))
  PROVE  ~Sound
<1>. DEFINE z == Control("sender")
<1>. SUFFICES ASSUME Sound PROVE FALSE
  OBVIOUS
<1>1. /\ TypeOK /\ SenderState /\ WireBack /\ z \in Range(List("sender")) /\ setup.rtt \in Nat
      /\ Len(got) \in Nat /\ Len(series) \in Nat /\ Total = setup.rtt + 3 + Len(series)
      /\ broken = {} /\ SameControl
  BY ListFacts, CountTypes, SideFacts DEF Inv, TypeOK, Sound, SameControl, Control
<1>2. z \notin open["receiver"] /\ wire["receiver"][z] = <<>>
  BY <1>1, SideFacts DEF AtEnd, Ready
<1>3. pc["receiver"] = "ok"
  BY <1>1, <1>2, GivenUp, SideFacts
<1>4. pc["sender"] = "result"
  BY <1>3, SenderWritesAll DEF Working
<1>5. Taken + 0 = Total
  <2>1. Len(wire["receiver"][z]) = 0
    BY <1>2, EmptySeq
  <2>2. Taken + Len(wire["receiver"][z]) = Written
    BY <1>1, <1>3, <1>4 DEF WireBack
  <2>3. Written = Total
    BY <1>3 DEF Written
  <2>. QED
    BY <2>1, <2>2, <2>3
<1>6. Taken = setup.rtt + Len(got) /\ Len(got) < 3 + Len(series)
  BY <1>1, <1>4 DEF Taken, SenderState
<1>. QED
  BY <1>1, <1>5, <1>6

\* What it reads is what it expects.
LEMMA SenderExpects ==
  ASSUME Inv, pc["sender"] \in {"pong", "result"}, pc["sender"] = "result" => got = <<>>,
         Ready("sender", Control("sender"))
  PROVE  Head(wire["receiver"][Control("sender")]).t = Expected[pc["sender"]]
<1>. DEFINE z == Control("sender")
            line == wire["receiver"][z]
<1>1. /\ TypeOK /\ SenderState /\ WireBack /\ setup.rtt \in Nat /\ left["sender"] \in Nat
      /\ z \in Connections /\ Len(line) >= 1 /\ Len(line) \in Nat /\ 1 \in DOMAIN line
      /\ Head(line) = line[1] /\ Head(line) \in Items
  BY FrameThere, SideFacts, ListFacts DEF Inv, TypeOK
<1>2. CASE pc["sender"] = "pong"
  <2>1. SameControl
    BY <1>1, EmptySeq DEF WireBack, SameControl
  <2>2. line[1] = FromReceiver(Taken + 1)
    BY <1>1, <1>2, <2>1 DEF WireBack
  <2>3. Taken = setup.rtt - left["sender"] /\ left["sender"] >= 1
    BY <1>1, <1>2 DEF Taken, SenderState
  <2>4. Taken + 1 <= setup.rtt /\ (Taken + 1) - 1 \in Int
    BY <1>1, <2>3
  <2>5. line[1] = Frame("PONG", (Taken + 1) - 1)
    BY <2>2, <2>4 DEF FromReceiver
  <2>6. line[1].t = "PONG"
    BY <2>4, <2>5, FrameFacts DEF FrameTypes
  <2>. QED
    BY <1>1, <1>2, <2>6 DEF Expected
<1>3. CASE pc["sender"] = "result"
  BY <1>3, ResultRead DEF Expected
<1>. QED
  BY <1>2, <1>3

\* The invariant is kept when the sender ends with an error,
LEMMA SenderFailsKeeps ==
  ASSUME Inv,
         \/ TasksFailed("sender") \/ WriteFails("sender") \/ ReadFails("sender")
         \/ Timeout("sender") \/ Unexpected("sender")
  PROVE  Inv'
<1>1. /\ TypeOK /\ Control("sender") \in Range(List("sender")) /\ late \in BOOLEAN
      /\ Writes["sender"] = {"params", "ping", "go"} /\ Reads["sender"] = {"pong", "result"}
  BY ListFacts, SideFacts DEF Inv, TypeOK, Writes, Reads
<1>2. CASE TasksFailed("sender")
  <2>1. /\ UNCHANGED <<setup, broken, late, left, todo, task, receiving, got, wire>>
        /\ pc["sender"] \notin {"ok", "error"} /\ Finish("sender", "error")
    BY <1>2 DEF TasksFailed
  <2>2. ~Sound'
    BY <1>2, <2>1, TasksUnfailing, SoundStays, SideFacts DEF TasksFailed
  <2>. QED
    BY <1>1, <2>1, <2>2, SenderFails
<1>3. CASE WriteFails("sender")
  <2>1. /\ UNCHANGED <<setup, broken, late, left, todo, task, receiving, got, wire>>
        /\ pc["sender"] \in {"params", "ping", "go"} /\ Finish("sender", "error")
        /\ WriteMayFail("sender", Control("sender"))
    BY <1>1, <1>3 DEF WriteFails
  <2>2. ~Sound'
    BY <1>1, <2>1, SenderCanWrite, SoundStays
  <2>. QED
    BY <1>1, <2>1, <2>2, SenderFails
<1>4. CASE ReadFails("sender")
  <2>1. /\ UNCHANGED <<setup, broken, late, left, todo, task, receiving, got, wire>>
        /\ pc["sender"] \in {"pong", "result"} /\ Finish("sender", "error")
        /\ AtEnd("sender", Control("sender"))
    BY <1>1, <1>4 DEF ReadFails
  <2>2. ~Sound'
    BY <2>1, SenderCanRead, SoundStays
  <2>. QED
    BY <1>1, <2>1, <2>2, SenderFails
<1>5. CASE Timeout("sender")
  <2>1. /\ UNCHANGED <<setup, broken, left, todo, task, receiving, got, wire>> /\ late' = TRUE
        /\ pc["sender"] \in {"pong", "result"} /\ Finish("sender", "error")
    BY <1>1, <1>5 DEF Timeout
  <2>2. ~Sound'
    BY <2>1 DEF Sound
  <2>. QED
    BY <1>1, <2>1, <2>2, SenderFails
<1>6. CASE Unexpected("sender")
  <2>1. /\ UNCHANGED <<setup, broken, late, left, todo, task, receiving, got>>
        /\ pc["sender"] \in {"pong", "result"} /\ Finish("sender", "error")
        /\ Ready("sender", Control("sender")) /\ TakeFrame("sender")
        /\ pc["sender"] = "result" => got = <<>>
        /\ Head(wire["receiver"][Control("sender")]).t # Expected[pc["sender"]]
    BY <1>1, <1>6, SideFacts DEF Unexpected
  <2>2. FALSE
    BY <2>1, SenderExpects
  <2>. QED
    BY <2>2
<1>. QED
  BY <1>2, <1>3, <1>4, <1>5, <1>6

\* when one of its tasks does,
LEMMA SenderTaskFailsKeeps ==
  ASSUME Inv, NEW z \in Range(List("sender")), TaskFails("sender", z)
  PROVE  Inv'
<1>1. /\ TypeOK /\ SenderState /\ TaskState("sender") /\ pc["sender"] = "tasks"
      /\ z \in Connections /\ todo["sender"][z] > 0 /\ WriteMayFail("sender", z)
      /\ task' = [task EXCEPT !["sender"][z] = "error"]
      /\ UNCHANGED <<setup, wire, open, broken, pc, left, todo, receiving, got, late>>
  BY ListFacts, SideFacts DEF Inv, TaskFails, TypeOK
<1>2. /\ task' \in [Sides -> [Connections -> {"idle", "run", "mark", "ok", "error"}]]
      /\ task'["sender"][z] = "error" /\ task'["receiver"] = task["receiver"]
      /\ \A y \in Connections \ {z} : task'["sender"][y] = task["sender"][y]
  BY <1>1, SideFacts DEF TypeOK
<1>3. UNCHANGED <<setup, wire, open, broken, late, ReceiverHalf>>
  BY <1>1, <1>2 DEF ReceiverHalf
<1>4. TypeOK'
  BY <1>1, <1>2 DEF TypeOK, receiving
<1>5. SenderState'
  BY <1>1 DEF SenderState
<1>6. Taken' = Taken /\ FramesSent' = FramesSent
  BY <1>1 DEF Taken, FramesSent
<1>7. TaskState("sender")'
  <2>1. ASSUME NEW y \in Range(List("sender"))
        PROVE  /\ todo'["sender"][y] <= Share(List("sender"), Gross, y)
               /\ task'["sender"][y] = "ok" => todo'["sender"][y] = 0
    <3>1. /\ todo["sender"][y] <= Share(List("sender"), Gross, y)
          /\ task["sender"][y] = "ok" => todo["sender"][y] = 0
      BY <1>1 DEF TaskState, Working
    <3>2. y \in Connections
      BY <1>1, ListFacts, SideFacts DEF TypeOK
    <3>. QED
      BY <1>1, <1>2, <3>1, <3>2
  <2>. QED
    BY <1>1, <2>1, SetupKept DEF TaskState
<1>8. \A y \in Connections : Sent(y)' = Sent(y)
  <2>1. \A y \in Connections : Units("sender", y)' = Units("sender", y)
    BY <1>1, SetupKept DEF Units, Working
  <2>. QED
    BY <1>1, <1>6, <2>1, SetupKept DEF Sent
<1>9. ~Sound
  BY <1>1, SenderCanWrite
<1>10. pc["sender"] \notin {"ok", "error"} /\ pc'["sender"] \notin {"ok", "error"} /\ got' = got
  BY <1>1
<1>. QED
  BY <1>3, <1>4, <1>5, <1>6, <1>7, <1>8, <1>9, <1>10, SenderMoves

\* The sender holds its connections until the receiver is through.
LEMMA ReceiverCanGoOn ==
  ASSUME Inv, Sound, pc["receiver"] # "ok", NEW z \in Range(List("receiver"))
  PROVE  ~WriteMayFail("receiver", z) /\ ~AtEnd("receiver", z)
<1>1. z \notin broken
  BY DEF Sound
<1>2. z \in open["sender"]
  BY GivenUp, ReceiverEndsFirst, SideFacts
<1>. QED
  BY <1>1, <1>2, SideFacts DEF WriteMayFail, AtEnd

\* What it reads is what it expects.
LEMMA ReceiverExpects ==
  ASSUME Inv, SameControl, pc["receiver"] \in {"ping", "go"}, Ready("receiver", Control("receiver"))
  PROVE  Head(wire["sender"][Control("receiver")]) =
           IF pc["receiver"] = "ping" THEN Frame("PING", setup.rtt - left["receiver"]) ELSE Frame("GO", 0)
<1>. DEFINE z == Control("receiver")
            line == wire["sender"][z]
<1>1. /\ TypeOK /\ ReceiverState /\ WireOut /\ setup.rtt \in Nat /\ left["receiver"] \in Nat
      /\ z \in Connections /\ 1 \in DOMAIN line /\ Head(line) = line[1] /\ z = Control("sender")
  <2>1. TypeOK /\ ReceiverState /\ WireOut
    BY DEF Inv
  <2>2. setup \in Setups /\ left["receiver"] \in Nat
    BY <2>1, SideFacts DEF TypeOK
  <2>3. setup.rtt \in Nat /\ z = Control("sender")
    BY <2>2, ListFacts, SideFacts DEF SameControl
  <2>4. z \in Connections /\ 1 \in DOMAIN line /\ Head(line) = line[1]
    BY <2>1, FrameThere, SideFacts
  <2>. QED
    BY <2>1, <2>2, <2>3, <2>4
<1>2. Read(z) = FramesRead
  <2>1. Units("receiver", z) = 0
    BY DEF Units, Working
  <2>2. FramesRead \in Int
    BY <1>1, CountTypes
  <2>. QED
    BY <2>1, <2>2 DEF Read
<1>3. line[1] = FromSender(FramesRead + 1)
  BY <1>1, <1>2 DEF WireOut
<1>4. CASE pc["receiver"] = "ping"
  <2>1. FramesRead = 3 + setup.rtt - left["receiver"] /\ left["receiver"] \in 1 .. setup.rtt
    BY <1>1, <1>4 DEF FramesRead, ReceiverState
  <2>2. /\ FramesRead + 1 <= 3 + setup.rtt /\ ~(FramesRead + 1 <= 3)
        /\ (FramesRead + 1) - 4 = setup.rtt - left["receiver"]
    BY <1>1, <2>1
  <2>3. FromSender(FramesRead + 1) = Frame("PING", setup.rtt - left["receiver"])
    BY <2>2 DEF FromSender
  <2>. QED
    BY <1>1, <1>3, <1>4, <2>3
<1>5. CASE pc["receiver"] = "go"
  <2>1. FramesRead = 3 + setup.rtt
    BY <1>5 DEF FramesRead
  <2>2. FramesRead + 1 = 4 + setup.rtt /\ ~(FramesRead + 1 <= 3) /\ ~(FramesRead + 1 <= 3 + setup.rtt)
    BY <1>1, <2>1
  <2>3. FromSender(FramesRead + 1) = Frame("GO", 0)
    BY <2>2 DEF FromSender
  <2>. QED
    BY <1>1, <1>3, <1>5, <2>3
<1>. QED
  BY <1>4, <1>5

\* and when the receiver does.
LEMMA ReceiverFailsKeeps ==
  ASSUME Inv,
         \/ TasksFailed("receiver") \/ WriteFails("receiver") \/ ReadFails("receiver")
         \/ Timeout("receiver") \/ Unexpected("receiver") \/ RPongFails
  PROVE  Inv'
<1>1. /\ TypeOK /\ Control("receiver") \in Range(List("receiver")) /\ late \in BOOLEAN
      /\ Writes["receiver"] = {"result"} /\ Reads["receiver"] = {"params", "ping", "go"}
  BY ListFacts, SideFacts DEF Inv, TypeOK, Writes, Reads
<1>2. CASE TasksFailed("receiver")
  <2>1. /\ UNCHANGED <<setup, broken, late, left, todo, task, receiving, got, wire>>
        /\ pc["receiver"] \notin {"ok", "error"} /\ Finish("receiver", "error")
    BY <1>2 DEF TasksFailed
  <2>2. ~Sound'
    BY <1>2, <2>1, TasksUnfailing, SoundStays, SideFacts DEF TasksFailed
  <2>. QED
    BY <1>1, <2>1, <2>2, ReceiverFails
<1>3. CASE WriteFails("receiver")
  <2>1. /\ UNCHANGED <<setup, broken, late, left, todo, task, receiving, got, wire>>
        /\ pc["receiver"] = "result" /\ Finish("receiver", "error")
        /\ WriteMayFail("receiver", Control("receiver"))
    BY <1>1, <1>3 DEF WriteFails
  <2>2. ~Sound'
    BY <1>1, <2>1, ReceiverCanGoOn, SoundStays
  <2>. QED
    BY <1>1, <2>1, <2>2, ReceiverFails
<1>4. CASE ReadFails("receiver")
  <2>1. /\ UNCHANGED <<setup, broken, late, left, todo, task, receiving, got, wire>>
        /\ pc["receiver"] \in {"params", "ping", "go"} /\ Finish("receiver", "error")
        /\ AtEnd("receiver", Control("receiver"))
    BY <1>1, <1>4 DEF ReadFails
  <2>2. ~Sound'
    BY <1>1, <2>1, ReceiverCanGoOn, SoundStays
  <2>. QED
    BY <1>1, <2>1, <2>2, ReceiverFails
<1>5. CASE Timeout("receiver")
  <2>1. /\ UNCHANGED <<setup, broken, left, todo, task, receiving, got, wire>> /\ late' = TRUE
        /\ pc["receiver"] \in {"params", "ping", "go"} /\ Finish("receiver", "error")
    BY <1>1, <1>5 DEF Timeout
  <2>2. ~Sound'
    BY <2>1 DEF Sound
  <2>. QED
    BY <1>1, <2>1, <2>2, ReceiverFails
<1>6. CASE Unexpected("receiver")
  <2>1. /\ UNCHANGED <<setup, broken, late, left, todo, task, receiving, got>>
        /\ pc["receiver"] \in {"ping", "go"} /\ Finish("receiver", "error")
        /\ Ready("receiver", Control("receiver")) /\ TakeFrame("receiver")
        /\ Head(wire["sender"][Control("receiver")]).t # Expected[pc["receiver"]]
    BY <1>1, <1>6, SideFacts DEF Unexpected
  <2>2. ~SameControl
    <3>1. SUFFICES ASSUME SameControl PROVE FALSE
      OBVIOUS
    <3>2. Head(wire["sender"][Control("receiver")]) =
            IF pc["receiver"] = "ping" THEN Frame("PING", setup.rtt - left["receiver"]) ELSE Frame("GO", 0)
      BY <2>1, <3>1, ReceiverExpects
    <3>3. setup.rtt - left["receiver"] \in Int
      <4>1. setup.rtt \in Nat
        BY <1>1, ListFacts, SideFacts DEF TypeOK
      <4>2. left["receiver"] \in Nat
        BY <1>1, SideFacts DEF TypeOK
      <4>. QED
        BY <4>1, <4>2
    <3>4. CASE pc["receiver"] = "ping"
      BY <2>1, <3>2, <3>3, <3>4, FrameFacts DEF Expected, FrameTypes
    <3>5. CASE pc["receiver"] = "go"
      BY <2>1, <3>2, <3>5, FrameFacts DEF Expected, FrameTypes
    <3>. QED
      BY <2>1, <3>4, <3>5
  <2>3. ~Sound'
    BY <2>1, <2>2, SoundStays DEF Sound, SameControl, Control
  <2>4. wire' = wire \/ Gone("sender", Control("receiver"), 1)
    BY <1>1, <2>1, FrameThere, SideFacts
  <2>. QED
    BY <1>1, <2>1, <2>3, <2>4, ReceiverFails
<1>7. CASE RPongFails
  <2>1. /\ UNCHANGED <<setup, broken, late, left, todo, task, receiving, got>>
        /\ pc["receiver"] = "ping" /\ Finish("receiver", "error")
        /\ Ready("receiver", Control("receiver")) /\ TakeFrame("receiver")
        /\ WriteMayFail("receiver", Control("receiver"))
    BY <1>7 DEF RPongFails
  <2>2. ~Sound'
    BY <1>1, <2>1, ReceiverCanGoOn, SoundStays
  <2>3. wire' = wire \/ Gone("sender", Control("receiver"), 1)
    BY <1>1, <2>1, FrameThere, SideFacts
  <2>. QED
    BY <1>1, <2>1, <2>2, <2>3, ReceiverFails
<1>. QED
  BY <1>2, <1>3, <1>4, <1>5, <1>6, <1>7

----------------------------------------------------------------------------
(* Steps of the receiver.                                                  *)

\* What has to be shown of a step of the receiver that does not fail.
LEMMA ReceiverStep ==
  ASSUME Inv, UNCHANGED <<setup, broken, late, SenderHalf>>, TypeOK', NumbersOut', Holding',
         SenderState', ReceiverState', TaskState("receiver")', WireOut', WireBack', Apart',
         ReadAddsUp', SeriesAddsUp', Warming', pc'["receiver"] # "error",
         Sound => \A z \in Range(List("receiver")) : task'["receiver"][z] # "error"
  PROVE  Inv'
<1>1. TaskState("sender")'
  BY SenderKept DEF Inv
<1>2. pc'["sender"] = pc["sender"] /\ task'["sender"] = task["sender"]
  BY DEF SenderHalf
<1>3. Unfailing'
  <2>1. Sound' <=> Sound
    BY SoundStays
  <2>. QED
    BY <1>2, <2>1, SetupKept, SideFacts DEF Inv, Unfailing
<1>. QED
  BY <1>1, <1>3 DEF Inv

\* What is left after reading are numbers as before.
LEMMA NumbersLeft ==
  ASSUME NumbersOut, NEW z \in Connections, NEW n, TypeOK, TakenFrom("sender", z, n)
  PROVE  NumbersOut'
<1>1. DOMAIN wire["sender"][z] = 1 .. Len(wire["sender"][z])
  BY SideFacts, LenProperties DEF TypeOK
<1>2. ASSUME NEW y \in Connections, NEW k \in DOMAIN wire'["sender"][y]
      PROVE  wire'["sender"][y][k].v \in Nat
  <2>1. CASE y = z
    BY <1>1, <1>2, <2>1 DEF TakenFrom, NumbersOut
  <2>2. CASE y # z
    BY <1>2, <2>2 DEF TakenFrom, NumbersOut
  <2>. QED
    BY <2>1, <2>2
<1>. QED
  BY <1>2 DEF NumbersOut

\* A side that goes on holds what it held.
LEMMA HoldingKept ==
  ASSUME Holding, UNCHANGED <<setup, open>>, NEW d \in Sides, pc[d] \notin {"ok", "error"},
         pc'[d] \notin {"ok", "error"}, pc'[Other(d)] = pc[Other(d)]
  PROVE  Holding'
BY SetupKept, SideFacts DEF Holding

\* The receiver reads the next frame.
LEMMA ReadsNextFrame ==
  ASSUME TypeOK, WireOut, UNCHANGED <<setup, broken, SenderHalf>>, ~Working("receiver"),
         pc["receiver"] # "error", TakenFrom("sender", Control("receiver"), 1),
         SameControl => FramesRead' = FramesRead + 1,
         \A y \in Connections : Units("receiver", y)' = 0
  PROVE  WireOut'
<1>1. Control("receiver") \in Connections
  BY ListFacts, SideFacts DEF TypeOK
<1>2. PICK c \in Connections : c = Control("receiver")
  BY <1>1
<1>3. FramesRead \in Int /\ \A y \in Connections : Units("receiver", y) = 0
  BY CountTypes DEF Units
<1>4. Read(c) = FramesRead /\ \A y \in Connections \ {c} : Read(y) = 0
  BY <1>2, <1>3 DEF Read
<1>5. Control("receiver")' = c
  BY <1>2, SetupKept
<1>6. ASSUME SameControl
      PROVE  Read(c)' = Read(c) + 1 /\ \A y \in Connections \ {c} : Read(y)' = Read(y)
  <2>1. FramesRead' = FramesRead + 1
    BY <1>6
  <2>2. Read(c)' = FramesRead + 1
    BY <1>3, <1>5, <2>1 DEF Read
  <2>3. \A y \in Connections \ {c} : Read(y)' = 0
    BY <1>5 DEF Read
  <2>. QED
    BY <1>4, <2>2, <2>3
<1>7. TakenFrom("sender", c, 1)
  BY <1>2
<1>. QED
  BY <1>6, <1>7, ReadsOut

\* Before the tasks start, a control connection has carried frames only.
LEMMA ReadsFrames ==
  ASSUME TypeOK, ~Working("receiver")
  PROVE  Read(Control("receiver")) = FramesRead
<1>1. FramesRead \in Int
  BY CountTypes
<1>2. Units("receiver", Control("receiver")) = 0
  BY DEF Units
<1>. QED
  BY <1>1, <1>2 DEF Read

\* A parameter that is there to be read.
LEMMA ParamThere ==
  ASSUME Inv, pc["receiver"] = "params", Ready("receiver", Control("receiver"))
  PROVE  LET f == Head(wire["sender"][Control("receiver")])
             n == 4 - left["receiver"]
         IN /\ f.v \in Nat /\ n \in 1 .. 3 /\ Len(param) = n - 1
            /\ SameControl => f # Payload /\ f.v = Param(n)
            /\ ~SameControl => f = Payload /\ f.v = 99
<1>. DEFINE z == Control("receiver")
            line == wire["sender"][z]
            n == 4 - left["receiver"]
<1>1. /\ TypeOK /\ ReceiverState /\ WireOut /\ NumbersOut /\ Apart /\ setup.rtt \in Nat /\ Gross \in Nat
      /\ z \in Connections /\ 1 \in DOMAIN line /\ Head(line) = line[1]
  BY FrameThere, SideFacts, ListFacts DEF Inv, TypeOK
<1>2. left["receiver"] \in 1 .. 3 /\ Len(param) = 3 - left["receiver"]
  BY <1>1 DEF ReceiverState
<1>3. n \in 1 .. 3 /\ Len(param) = n - 1
  BY <1>2
<1>4. line[1].v \in Nat
  BY <1>1 DEF NumbersOut
<1>5. ASSUME SameControl PROVE line[1] # Payload /\ line[1].v = Param(n)
  <2>1. Read(z) = FramesRead
    BY <1>1, ReadsFrames DEF Working
  <2>2. line[1] = FromSender(FramesRead + 1)
    BY <1>1, <1>5, <2>1 DEF WireOut, SameControl
  <2>3. FramesRead + 1 = n
    BY <1>2 DEF FramesRead
  <2>4. line[1] = Frame("PARAMS", Param(n)) /\ Param(n) \in Int
    BY <1>1, <1>3, <2>2, <2>3 DEF FromSender, Param
  <2>. HIDE DEF n, line
  <2>. QED
    BY <2>4, FrameFacts DEF FrameTypes
<1>6. ASSUME ~SameControl PROVE line[1] = Payload /\ line[1].v = 99
  BY <1>1, <1>6, FrameFacts DEF Apart
<1>. QED
  BY <1>1, <1>3, <1>4, <1>5, <1>6

\* The invariant is kept when the receiver reads a parameter,
LEMMA RParamsKeeps ==
  ASSUME Inv, RParams
  PROVE  Inv'
<1>. DEFINE z == Control("receiver")
            f == Head(wire["sender"][z])
            a == left["receiver"]
            n == 4 - a
<1>1. /\ TypeOK /\ SenderState /\ ReceiverState /\ WireOut /\ WireBack /\ NumbersOut /\ Apart /\ Holding
      /\ ReadAddsUp /\ SeriesAddsUp /\ Warming /\ pc["receiver"] = "params" /\ Ready("receiver", z)
      /\ setup.rtt \in Nat /\ Gross \in Nat
  BY ListFacts, SideFacts DEF Inv, RParams, TypeOK
<1>2. /\ f.v \in Nat /\ n \in 1 .. 3 /\ Len(param) = n - 1 /\ a \in 1 .. 3
      /\ SameControl => f # Payload /\ f.v = Param(n)
      /\ ~SameControl => f = Payload /\ f.v = 99
  <2>1. a \in Nat
    BY <1>1, SideFacts DEF TypeOK
  <2>. QED
    BY <1>1, <2>1, ParamThere
<1>3. /\ z \in Connections /\ Len(wire["sender"][z]) \in Nat /\ 1 <= Len(wire["sender"][z])
      /\ SameControl => Gone("sender", z, 1)
      /\ ~SameControl => wire' = wire
  <2>1. TakeFrame("receiver")
    BY DEF RParams
  <2>. QED
    BY <1>1, <1>2, <2>1, FrameThere, SideFacts
<1>4. /\ UNCHANGED <<setup, open, broken, todo, task, received, before, measured, series, sampled, got, late>>
      /\ param' = Append(param, f.v)
      /\ left' = [left EXCEPT !["receiver"] = IF a = 1 THEN param'[3] ELSE a - 1]
      /\ pc' = (IF a > 1 THEN pc ELSE [pc EXCEPT !["receiver"] = IF param'[3] = 0 THEN "go" ELSE "ping"])
  BY <1>1, SideFacts DEF RParams, TypeOK
<1>. HIDE DEF f
<1>5. /\ param' \in Seq(Nat) /\ Len(param') = n /\ DOMAIN param' = 1 .. n /\ param'[n] = f.v
      /\ \A k \in 1 .. n - 1 : param'[k] = param[k] /\ k \in DOMAIN param
  <2>1. param \in Seq(Nat) /\ Len(param) = n - 1 /\ DOMAIN param = 1 .. n - 1
    BY <1>1, <1>2, LenProperties DEF TypeOK
  <2>2. /\ param' \in Seq(Nat) /\ Len(param') = Len(param) + 1 /\ param'[Len(param) + 1] = f.v
        /\ \A k \in 1 .. Len(param) : param'[k] = param[k]
    BY <1>2, <1>4, <2>1, AppendProperties
  <2>3. Len(param) + 1 = n
    BY <1>2
  <2>4. DOMAIN param' = 1 .. n
    BY <2>2, <2>3, LenProperties
  <2>. QED
    BY <2>1, <2>2, <2>3, <2>4
<1>6. a = 1 => /\ n = 3 /\ param'[3] = f.v /\ (SameControl => f.v = setup.rtt)
               /\ (~SameControl => f.v = 99)
  BY <1>2, <1>5 DEF Param
<1>7. /\ pc' \in [Sides -> {"params", "ping", "pong", "go", "tasks", "result", "ok", "error"}]
      /\ left' \in [Sides -> Nat] /\ left'["sender"] = left["sender"] /\ pc'["sender"] = pc["sender"]
      /\ a > 1 => pc'["receiver"] = "params" /\ left'["receiver"] = a - 1
      /\ a = 1 => pc'["receiver"] = (IF f.v = 0 THEN "go" ELSE "ping") /\ left'["receiver"] = f.v
  <2>1. /\ pc \in [Sides -> {"params", "ping", "pong", "go", "tasks", "result", "ok", "error"}]
        /\ left \in [Sides -> Nat] /\ pc["receiver"] = "params"
    BY <1>1 DEF TypeOK
  <2>4. /\ left' = [left EXCEPT !["receiver"] = IF a = 1 THEN param'[3] ELSE a - 1]
        /\ pc' = (IF a > 1 THEN pc ELSE [pc EXCEPT !["receiver"] = IF param'[3] = 0 THEN "go" ELSE "ping"])
    BY <1>4
  <2>. HIDE DEF a
  <2>2. CASE a = 1
    <3>0. ~(a > 1) /\ param'[3] = f.v
      BY <1>6, <2>2
    <3>1. /\ left' = [left EXCEPT !["receiver"] = f.v]
          /\ pc' = [pc EXCEPT !["receiver"] = IF f.v = 0 THEN "go" ELSE "ping"]
      BY <2>2, <2>4, <3>0
    <3>. QED
      BY <1>2, <2>1, <2>2, <3>1, SideFacts
  <2>3. CASE a > 1
    <3>0. a # 1 /\ a - 1 \in Nat
      BY <1>2, <2>3
    <3>1. left' = [left EXCEPT !["receiver"] = a - 1] /\ pc' = pc
      BY <2>3, <2>4, <3>0
    <3>. QED
      BY <2>1, <2>3, <3>0, <3>1, SideFacts
  <2>. QED
    BY <1>2, <2>2, <2>3
<1>8. pc'["receiver"] \in {"params", "ping", "go"}
  BY <1>2, <1>7
<1>9. UNCHANGED <<setup, broken, late, SenderHalf>>
  BY <1>4, <1>7 DEF SenderHalf
<1>10. /\ SameControl => TakenFrom("sender", z, 1)
       /\ wire' \in [Sides -> [Connections -> Seq(Items)]] /\ wire'["receiver"] = wire["receiver"]
  <2>1. CASE SameControl
    BY <1>1, <1>3, <2>1, GoneFacts, SideFacts
  <2>2. CASE ~SameControl
    BY <1>1, <1>3, <2>2 DEF TypeOK, Items
  <2>. QED
    BY <2>1, <2>2
<1>11. TypeOK'
  BY <1>1, <1>4, <1>5, <1>7, <1>8, <1>10 DEF TypeOK, Items
<1>12. NumbersOut'
  <2>1. CASE SameControl
    BY <1>1, <1>3, <1>10, <2>1, NumbersLeft
  <2>2. CASE ~SameControl
    BY <1>1, <1>3, <2>2 DEF NumbersOut
  <2>. QED
    BY <2>1, <2>2
<1>13. Holding'
  BY <1>1, <1>4, <1>7, <1>8, HoldingKept, SideFacts
<1>14. SenderState'
  BY <1>1, <1>4, <1>9, SenderKept
<1>15. ReceiverState'
  <2>1. ASSUME SameControl, NEW k \in DOMAIN param' PROVE param'[k] = Param(k) /\ k \in Int
    <3>1. CASE k = n
      BY <1>2, <1>5, <2>1, <3>1
    <3>2. CASE k \in 1 .. n - 1
      BY <1>1, <1>5, <2>1, <3>2 DEF ReceiverState
    <3>. QED
      BY <1>2, <1>5, <2>1, <3>1, <3>2
  <2>2. \A k \in Int : Param(k)' = Param(k)
    BY <1>4, SetupKept
  <2>3. SameControl' => \A k \in DOMAIN param' : param'[k] = Param(k)'
    BY <1>4, <2>1, <2>2, SetupKept
  <2>4. measured' = -1 /\ received' = 0 /\ series' = <<>> /\ sampled' = 0
    BY <1>1, <1>4 DEF ReceiverState
  <2>5. CASE a > 1
    <3>1. pc'["receiver"] = "params" /\ left'["receiver"] \in 1 .. 3 /\ Len(param') = 3 - left'["receiver"]
      BY <1>2, <1>5, <1>7, <2>5
    <3>. QED
      BY <2>3, <2>4, <3>1 DEF ReceiverState
  <2>6. CASE a = 1
    <3>1. pc'["receiver"] \in {"ping", "go"} /\ Len(param') = 3
      BY <1>5, <1>6, <1>7, <2>6
    <3>2. pc'["receiver"] = "ping" /\ SameControl' => left'["receiver"] \in 1 .. setup.rtt
      <4>1. SameControl' <=> SameControl
        BY <1>4, SetupKept
      <4>2. /\ pc'["receiver"] = (IF f.v = 0 THEN "go" ELSE "ping") /\ left'["receiver"] = f.v
            /\ SameControl => f.v = setup.rtt
        BY <1>6, <1>7, <2>6
      <4>. QED
        BY <1>1, <4>1, <4>2
    <3>. QED
      BY <1>4, <2>3, <2>4, <3>1, <3>2 DEF ReceiverState
  <2>. QED
    BY <1>2, <2>5, <2>6
<1>16. TaskState("receiver")' /\ ReadAddsUp'
  BY <1>8 DEF TaskState, ReadAddsUp, Working
<1>17. SameControl => FramesRead' = FramesRead + 1 /\ Written' = Written
  <2>. SUFFICES ASSUME SameControl PROVE FramesRead' = FramesRead + 1 /\ Written' = Written
    OBVIOUS
  <2>1. FramesRead = 3 - a /\ Written = 0
    BY <1>1 DEF FramesRead, Written
  <2>2. CASE a > 1
    BY <1>2, <1>7, <2>1, <2>2 DEF FramesRead, Written
  <2>3. CASE a = 1
    <3>1. pc'["receiver"] = (IF setup.rtt = 0 THEN "go" ELSE "ping") /\ left'["receiver"] = setup.rtt
          /\ setup' = setup
      BY <1>4, <1>6, <1>7, <2>3
    <3>2. FramesRead' = 3
      BY <1>1, <3>1 DEF FramesRead
    <3>3. Written' = 0
      BY <1>1, <3>1 DEF Written
    <3>. QED
      BY <2>1, <2>3, <3>2, <3>3
  <2>. QED
    BY <1>2, <2>2, <2>3
<1>18. WireOut'
  <2>1. CASE SameControl
    <3>1. ~Working("receiver") /\ ~Working("receiver")'
      BY <1>1, <1>8 DEF Working
    <3>2. \A y \in Connections : Units("receiver", y)' = 0
      BY <3>1 DEF Units
    <3>3. pc["receiver"] # "error" /\ TakenFrom("sender", Control("receiver"), 1)
      BY <1>1, <1>10, <2>1
    <3>. QED
      BY <1>1, <1>9, <1>17, <3>1, <3>2, <3>3, ReadsNextFrame
  <2>2. CASE ~SameControl
    BY <1>4, <2>2, SetupKept DEF WireOut
  <2>. QED
    BY <2>1, <2>2
<1>19. WireBack'
  <2>1. UNCHANGED <<measured, series>> /\ pc["receiver"] # "error" /\ pc'["receiver"] # "error"
    BY <1>1, <1>4, <1>8
  <2>. QED
    BY <1>1, <1>9, <1>10, <1>17, <2>1, BackKeptByReceiver
<1>20. Apart'
  <2>1. Payload' = Payload
    BY DEF Payload, Frame
  <2>2. SUFFICES ASSUME ~SameControl
                 PROVE  /\ pc'["receiver"] \in {"params", "ping", "error"} /\ pc'["sender"] # "ok"
                        /\ got' = <<>>
                        /\ \A y \in Connections : wire'["receiver"][y] = <<>>
                        /\ \A k \in DOMAIN wire'["sender"][z] : wire'["sender"][z][k] = Payload
                        /\ \A k \in DOMAIN param' : param'[k] = 99
    BY <1>4, <2>1, SetupKept, ZenonT(30) DEF Apart
  <2>3. pc'["receiver"] \in {"params", "ping", "error"}
    BY <1>2, <1>7, <2>2
  <2>4. \A k \in DOMAIN param' : param'[k] = 99
    <3>1. \A k \in DOMAIN param : param[k] = 99
      BY <1>1, <2>2 DEF Apart
    <3>2. param'[n] = 99
      BY <1>2, <1>5, <2>2
    <3>3. ASSUME NEW k \in 1 .. n PROVE param'[k] = 99
      <4>1. CASE k = n
        BY <3>2, <4>1
      <4>2. CASE k \in 1 .. n - 1
        BY <1>5, <3>1, <4>2
      <4>. QED
        BY <1>2, <4>1, <4>2
    <3>. QED
      BY <1>5, <3>3
  <2>5. wire' = wire /\ pc'["sender"] = pc["sender"] /\ got' = got
    BY <1>3, <1>4, <1>7, <2>2
  <2>6. /\ pc["sender"] # "ok" /\ got = <<>>
        /\ \A y \in Connections : wire["receiver"][y] = <<>>
        /\ \A k \in DOMAIN wire["sender"][z] : wire["sender"][z][k] = Payload
    BY <1>1, <2>2 DEF Apart
  <2>. QED
    BY <2>3, <2>4, <2>5, <2>6
<1>21. SeriesAddsUp'
  BY <1>1, <1>4 DEF SeriesAddsUp
<1>22. Warming'
  <2>1. Marking' = Marking
    BY <1>4, SetupKept DEF Marking
  <2>. QED
    BY <1>1, <1>4, <2>1, SetupKept DEF Warming
<1>23. pc'["receiver"] # "error"
  BY <1>8
<1>24. Sound => \A y \in Range(List("receiver")) : task'["receiver"][y] # "error"
  BY <1>4, SideFacts DEF Inv, Unfailing
<1>. QED
  BY <1>9, <1>11, <1>12, <1>13, <1>14, <1>15, <1>16, <1>18, <1>19, <1>20, <1>21, <1>22, <1>23, <1>24,
     ReceiverStep

\* A PING is taken and its PONG put.
LEMMA PongPut ==
  ASSUME TypeOK, NEW z \in Connections, NEW x \in Items, wire["sender"][z] # <<>>,
         wire' = [wire EXCEPT !["sender"][z] = Tail(@), !["receiver"][z] = Append(@, x)]
  PROVE  TakenFrom("sender", z, 1) /\ AddedTo("receiver", z, x)
<1>. DEFINE q == wire["sender"][z]
            s == wire["receiver"][z]
            r == SubSeq(q, 1 + 1, Len(q))
<1>1. wire \in [Sides -> [Connections -> Seq(Items)]] /\ q \in Seq(Items) /\ s \in Seq(Items) /\ q # <<>>
  BY SideFacts, ZenonT(30) DEF TypeOK, Items
<1>2. wire' = [wire EXCEPT !["sender"][z] = Tail(q), !["receiver"][z] = Append(s, x)]
  BY <1>1, SideFacts
<1>. HIDE DEF q, s
<1>3. Len(q) \in Nat /\ 1 <= Len(q)
  <2>1. Len(q) \in Nat /\ Len(q) # 0
    BY <1>1, LenProperties, EmptySeq
  <2>. QED
    BY <2>1
<1>4. Tail(q) = r
  BY <1>1, <1>3
<1>5. /\ r \in Seq(Items) /\ Len(r) = Len(q) - 1
      /\ \A k \in DOMAIN r : k + 1 \in 1 .. Len(q) /\ r[k] = q[k + 1]
  BY <1>1, <1>3, RestFacts
<1>. HIDE DEF r
<1>. DEFINE t == Append(s, x)
<1>6. /\ t \in Seq(Items) /\ Len(t) = Len(s) + 1 /\ t[Len(s) + 1] = x
      /\ \A k \in 1 .. Len(s) : t[k] = s[k]
  BY <1>1, AppendProperties
<1>7. wire' = [wire EXCEPT !["sender"][z] = r, !["receiver"][z] = t]
  BY <1>2, <1>4
<1>. HIDE DEF t
<1>8. /\ wire' \in [Sides -> [Connections -> Seq(Items)]]
      /\ wire'["sender"][z] = r /\ wire'["receiver"][z] = t
      /\ \A y \in Connections \ {z} : wire'["sender"][y] = wire["sender"][y]
      /\ \A y \in Connections \ {z} : wire'["receiver"][y] = wire["receiver"][y]
  <2>. DEFINE w == [wire EXCEPT !["sender"][z] = r]
  <2>1. wire' = [w EXCEPT !["receiver"][z] = t]
    BY <1>7
  <2>2. /\ w \in [Sides -> [Connections -> Seq(Items)]]
        /\ w["sender"][z] = r /\ w["receiver"] = wire["receiver"]
        /\ \A y \in Connections \ {z} : w["sender"][y] = wire["sender"][y]
    BY <1>1, <1>5, SideFacts
  <2>. HIDE DEF w
  <2>3. t \in Seq(Items) /\ "receiver" \in Sides /\ "sender" \in Sides
    BY <1>6, SideFacts
  <2>4. wire' \in [Sides -> [Connections -> Seq(Items)]]
    <3>. DEFINE u == [w["receiver"] EXCEPT ![z] = t]
    <3>1. w \in [Sides -> [Connections -> Seq(Items)]]
      BY <2>2
    <3>2. wire' = [w EXCEPT !["receiver"] = u]
      BY <2>1
    <3>3. u \in [Connections -> Seq(Items)]
      BY <2>3, <3>1
    <3>. HIDE DEF u
    <3>. QED
      BY <2>3, <3>1, <3>2, <3>3
  <2>5. wire'["receiver"] = [w["receiver"] EXCEPT ![z] = t] /\ wire'["sender"] = w["sender"]
    BY <2>1, <2>2, <2>3
  <2>6. w["receiver"] \in [Connections -> Seq(Items)]
    BY <2>2, <2>3
  <2>7. /\ wire'["receiver"][z] = t
        /\ \A y \in Connections \ {z} : wire'["receiver"][y] = w["receiver"][y]
    BY <2>3, <2>5, <2>6
  <2>. QED
    BY <2>2, <2>4, <2>5, <2>7
<1>9. TakenFrom("sender", z, 1)
  BY <1>5, <1>8 DEF TakenFrom, q
<1>10. AddedTo("receiver", z, x)
  BY <1>6, <1>8 DEF AddedTo, s
<1>. QED
  BY <1>9, <1>10

\* Put of one frame, in the terms of AddedTo.
LEMMA FrameAdded ==
  ASSUME TypeOK, NEW d \in Sides, NEW z \in Connections, NEW x \in Items, Put(d, z, <<x>>)
  PROVE  AddedTo(d, z, x) /\ wire'[Other(d)] = wire[Other(d)]
<1>. DEFINE items == <<x>>
<1>1. items \in Seq(Items) /\ Len(items) = 1 /\ items[1] = x /\ Put(d, z, items)
  OBVIOUS
<1>. HIDE DEF items
<1>2. /\ Len(wire'[d][z]) = Len(wire[d][z]) + Len(items)
      /\ \A k \in 1 .. Len(wire[d][z]) : wire'[d][z][k] = wire[d][z][k]
      /\ \A k \in 1 .. Len(items) : wire'[d][z][Len(wire[d][z]) + k] = items[k]
      /\ \A y \in Connections \ {z} : wire'[d][y] = wire[d][y]
      /\ wire'[Other(d)] = wire[Other(d)]
      /\ wire' \in [Sides -> [Connections -> Seq(Items)]]
  BY <1>1, PutFacts
<1>3. wire'[d][z][Len(wire[d][z]) + 1] = x
  BY <1>1, <1>2
<1>. QED
  BY <1>1, <1>2, <1>3 DEF AddedTo

\* when it answers a round trip,
LEMMA RPongKeeps ==
  ASSUME Inv, RPong
  PROVE  Inv'
<1>. DEFINE f == Head(wire["sender"][Control("receiver")])
            a == left["receiver"]
            x == Frame("PONG", f.v)
<1>1. /\ TypeOK /\ SenderState /\ ReceiverState /\ WireOut /\ WireBack /\ NumbersOut /\ Holding
      /\ ReadAddsUp /\ SeriesAddsUp /\ Warming /\ pc["receiver"] = "ping"
      /\ Ready("receiver", Control("receiver"))
      /\ setup.rtt \in Nat /\ f.t = "PING" /\ Control("receiver") \notin broken
  BY ListFacts, SideFacts DEF Inv, RPong, TypeOK
<1>2. SameControl
  <2>1. SUFFICES ASSUME ~SameControl PROVE FALSE
    OBVIOUS
  <2>2. f = Payload
    BY <1>1, <2>1, FrameThere, SideFacts DEF Inv, Apart
  <2>. HIDE DEF f
  <2>. QED
    BY <1>1, <2>2, FrameFacts
<1>3. a \in 1 .. setup.rtt
  BY <1>1, <1>2 DEF ReceiverState
<1>4. f.v = setup.rtt - a
  <2>1. f = Frame("PING", setup.rtt - a)
    BY <1>1, <1>2, ReceiverExpects
  <2>2. setup.rtt - a \in Int
    BY <1>1, <1>3
  <2>. HIDE DEF f
  <2>. QED
    BY <2>1, <2>2, FrameFacts DEF FrameTypes
<1>5. x \in Items /\ x = Frame("PONG", setup.rtt - a)
  <2>1. setup.rtt - a \in Int
    BY <1>1, <1>3
  <2>. HIDE DEF f
  <2>. QED
    BY <1>4, <2>1, FrameFacts DEF FrameTypes
<1>6. /\ UNCHANGED <<setup, open, broken, todo, task, receiving, got, late>>
      /\ left' = [left EXCEPT !["receiver"] = a - 1]
      /\ pc' = [pc EXCEPT !["receiver"] = IF a = 1 THEN "go" ELSE "ping"]
  BY <1>1, SideFacts DEF RPong, TypeOK
<1>7. TakenFrom("sender", Control("receiver"), 1) /\ AddedTo("receiver", Control("receiver"), x)
  <2>1. /\ Control("receiver") \in Connections /\ wire["sender"][Control("receiver")] # <<>>
        /\ wire' = [wire EXCEPT !["sender"][Control("receiver")] = Tail(@),
                                !["receiver"][Control("receiver")] = Append(@, x)]
    BY <1>1, ListFacts, SideFacts DEF TypeOK, RPong, Ready
  <2>. HIDE DEF x
  <2>. QED
    BY <1>1, <1>5, <2>1, PongPut
<1>. HIDE DEF f, x
<1>8. /\ pc' \in [Sides -> {"params", "ping", "pong", "go", "tasks", "result", "ok", "error"}]
      /\ left' \in [Sides -> Nat] /\ left'["sender"] = left["sender"] /\ pc'["sender"] = pc["sender"]
      /\ left'["receiver"] = a - 1
      /\ pc'["receiver"] = (IF a = 1 THEN "go" ELSE "ping")
  BY <1>1, <1>3, <1>6, SideFacts DEF TypeOK
<1>9. pc'["receiver"] \in {"ping", "go"}
  BY <1>8
<1>10. UNCHANGED <<setup, broken, late, SenderHalf>>
  BY <1>6, <1>8 DEF SenderHalf
<1>11. TypeOK'
  <2>1. wire' \in [Sides -> [Connections -> Seq(Items)]]
    BY <1>7 DEF TakenFrom
  <2>. QED
    BY <1>1, <1>6, <1>8, <1>9, <2>1 DEF TypeOK, Items, receiving
<1>12. NumbersOut'
  BY <1>1, <1>7, NumbersLeft, ListFacts, SideFacts DEF TypeOK
<1>13. Holding'
  BY <1>1, <1>6, <1>8, <1>9, HoldingKept, SideFacts
<1>14. SenderState'
  BY <1>1, <1>6, <1>10, SenderKept DEF receiving
<1>15. ReceiverState'
  <2>1. DOMAIN param \subseteq Int
    BY <1>1, LenProperties DEF TypeOK
  <2>2. SameControl' => \A k \in DOMAIN param' : param'[k] = Param(k)'
    BY <1>1, <1>2, <1>6, <2>1, SetupKept DEF ReceiverState, receiving
  <2>3. pc'["receiver"] = "ping" => left'["receiver"] \in 1 .. setup.rtt
    BY <1>1, <1>3, <1>8
  <2>4. /\ Len(param') = 3 /\ measured' = -1 /\ received' = 0 /\ series' = <<>> /\ sampled' = 0
    BY <1>1, <1>6 DEF ReceiverState, receiving
  <2>. QED
    BY <1>6, <1>9, <2>2, <2>3, <2>4 DEF ReceiverState
<1>16. TaskState("receiver")' /\ ReadAddsUp' /\ ~Working("receiver") /\ ~Working("receiver")'
  BY <1>1, <1>9 DEF TaskState, ReadAddsUp, Working
<1>17. FramesRead' = FramesRead + 1
  <2>1. FramesRead = 3 + setup.rtt - a
    BY <1>1 DEF FramesRead
  <2>2. FramesRead' = 4 + setup.rtt - a
    BY <1>1, <1>3, <1>6, <1>8 DEF FramesRead
  <2>. QED
    BY <1>1, <1>3, <2>1, <2>2
<1>18. Written = setup.rtt - a /\ Written' = Written + 1
  <2>1. Written = setup.rtt - a
    BY <1>1 DEF Written
  <2>2. Written' = setup.rtt - (a - 1)
    BY <1>1, <1>3, <1>6, <1>8 DEF Written
  <2>. QED
    BY <1>1, <1>3, <2>1, <2>2
<1>19. WireOut'
  <2>1. \A y \in Connections : Units("receiver", y)' = 0
    BY <1>16 DEF Units
  <2>2. pc["receiver"] # "error"
    BY <1>1
  <2>. QED
    BY <1>1, <1>7, <1>10, <1>16, <1>17, <2>1, <2>2, ReadsNextFrame
<1>20. WireBack'
  <2>1. x = FromReceiver(Written + 1)
    <3>1. Written + 1 <= setup.rtt /\ (Written + 1) - 1 = setup.rtt - a
      BY <1>1, <1>3, <1>18
    <3>. QED
      BY <1>5, <3>1 DEF FromReceiver
  <2>2. UNCHANGED <<measured, series>> /\ pc["receiver"] # "error" /\ pc'["receiver"] # "error"
    BY <1>1, <1>6, <1>9 DEF receiving
  <2>. QED
    BY <1>1, <1>5, <1>7, <1>10, <1>18, <2>1, <2>2, SendsBack
<1>21. Apart'
  BY <1>2, <1>6, SetupKept DEF Apart
<1>22. SeriesAddsUp'
  BY <1>1, <1>6 DEF SeriesAddsUp, receiving
<1>23. Warming'
  <2>1. Marking' = Marking
    BY <1>6, SetupKept DEF Marking, receiving
  <2>. QED
    BY <1>1, <1>6, <2>1, SetupKept DEF Warming, receiving
<1>24. pc'["receiver"] # "error"
  BY <1>9
<1>25. Sound => \A y \in Range(List("receiver")) : task'["receiver"][y] # "error"
  BY <1>6, SideFacts DEF Inv, Unfailing
<1>. QED
  BY <1>10, <1>11, <1>12, <1>13, <1>14, <1>15, <1>16, <1>19, <1>20, <1>21, <1>22, <1>23, <1>24, <1>25,
     ReceiverStep

\* when it reads the signal and starts its tasks,
LEMMA RGoKeeps ==
  ASSUME Inv, RGo
  PROVE  Inv'
<1>1. /\ TypeOK /\ SenderState /\ ReceiverState /\ WireOut /\ WireBack /\ NumbersOut /\ Holding
      /\ SeriesAddsUp /\ Warming /\ pc["receiver"] = "go" /\ Ready("receiver", Control("receiver"))
      /\ setup.rtt \in Nat /\ Gross \in Nat
  BY ListFacts, SideFacts DEF Inv, RGo, TypeOK
<1>2. SameControl
  BY <1>1 DEF Inv, Apart
<1>3. Spawn("receiver", Gross)
  <2>1. Len(param) = 3 /\ \A k \in DOMAIN param : param[k] = Param(k)
    BY <1>1, <1>2 DEF ReceiverState
  <2>2. 1 \in DOMAIN param
    BY <1>1, <2>1, LenProperties DEF TypeOK
  <2>3. param[1] = Gross
    BY <2>1, <2>2 DEF Param
  <2>. QED
    BY <2>3 DEF RGo
<1>4. /\ pc'["receiver"] = "tasks"
      /\ pc' \in [Sides -> {"params", "ping", "pong", "go", "tasks", "result", "ok", "error"}]
      /\ todo' \in [Sides -> [Connections -> Nat]]
      /\ task' \in [Sides -> [Connections -> {"idle", "run", "mark", "ok", "error"}]]
      /\ pc'["sender"] = pc["sender"] /\ todo'["sender"] = todo["sender"]
      /\ task'["sender"] = task["sender"]
      /\ \A z \in Range(List("receiver")) : task'["receiver"][z] = "run"
      /\ \A z \in Connections : Units("receiver", z)' = 0
      /\ TaskState("receiver")'
  <2>1. UNCHANGED setup
    BY DEF RGo
  <2>. QED
    BY <1>1, <1>3, <2>1, SpawnFacts, SideFacts
<1>5. UNCHANGED <<setup, open, broken, left, receiving, got, late>>
  BY DEF RGo
<1>6. UNCHANGED <<setup, broken, late, SenderHalf>>
  BY <1>4, <1>5 DEF SenderHalf
<1>7. TakenFrom("sender", Control("receiver"), 1) /\ wire'["receiver"] = wire["receiver"]
  <2>1. TakeFrame("receiver") /\ Head(wire["sender"][Control("receiver")]).t = "GO"
    BY DEF RGo
  <2>2. Head(wire["sender"][Control("receiver")]) # Payload
    BY <2>1, FrameFacts
  <2>3. /\ Control("receiver") \in Connections /\ Len(wire["sender"][Control("receiver")]) \in Nat
        /\ 1 <= Len(wire["sender"][Control("receiver")])
        /\ Gone("sender", Control("receiver"), 1)
    BY <1>1, <2>1, <2>2, FrameThere, SideFacts
  <2>. QED
    BY <1>1, <2>3, GoneFacts, SideFacts
<1>8. TypeOK'
  <2>1. wire' \in [Sides -> [Connections -> Seq(Items)]]
    BY <1>7 DEF TakenFrom
  <2>. QED
    BY <1>1, <1>4, <1>5, <2>1 DEF TypeOK, Items, receiving
<1>9. NumbersOut'
  BY <1>1, <1>7, NumbersLeft, ListFacts, SideFacts DEF TypeOK
<1>10. Holding'
  BY <1>1, <1>4, <1>5, HoldingKept, SideFacts
<1>11. SenderState'
  BY <1>1, <1>5, <1>6, SenderKept DEF receiving
<1>12. ReceiverState'
  <2>1. DOMAIN param \subseteq Int
    BY <1>1, LenProperties DEF TypeOK
  <2>2. SameControl' => \A k \in DOMAIN param' : param'[k] = Param(k)'
    BY <1>1, <1>2, <1>5, <2>1, SetupKept DEF ReceiverState, receiving
  <2>3. Len(param') = 3
    BY <1>1, <1>5 DEF ReceiverState, receiving
  <2>. QED
    BY <1>4, <2>2, <2>3 DEF ReceiverState
<1>13. FramesRead' = FramesRead + 1
  <2>1. FramesRead = 3 + setup.rtt /\ FramesRead' = 4 + setup.rtt
    BY <1>1, <1>4, <1>5 DEF FramesRead
  <2>. QED
    BY <1>1, <2>1
<1>14. Written' = Written
  BY <1>1, <1>4, <1>5 DEF Written
<1>15. WireOut'
  <2>1. ~Working("receiver") /\ pc["receiver"] # "error"
    BY <1>1 DEF Working
  <2>. QED
    BY <1>1, <1>4, <1>6, <1>7, <1>13, <2>1, ReadsNextFrame
<1>16. WireBack'
  <2>1. UNCHANGED <<measured, series>> /\ pc["receiver"] # "error" /\ pc'["receiver"] # "error"
    BY <1>1, <1>4, <1>5 DEF receiving
  <2>. QED
    BY <1>1, <1>6, <1>7, <1>14, <2>1, BackKeptByReceiver
<1>17. Apart'
  BY <1>2, <1>5, SetupKept DEF Apart
<1>18. ReadAddsUp'
  <2>. DEFINE l == List("receiver")
              h == [y \in Connections |-> Units("receiver", y)']
              g == [i \in 0 .. Len(l) |-> 0]
  <2>1. Len(l) \in Nat /\ \A i \in 1 .. Len(l) : l[i] \in Connections
    BY <1>1, ListFacts, LenProperties, ElementOfSeq, SideFacts DEF TypeOK
  <2>2. \A i \in 1 .. Len(l) : h[l[i]] = 0
    BY <1>4, <2>1
  <2>. HIDE DEF h, l
  <2>3. Sums(g, l, h)
    BY <2>1, <2>2 DEF Sums
  <2>4. g[Len(l)] = received'
    BY <1>1, <1>5, <2>1 DEF ReceiverState, receiving
  <2>. HIDE DEF g
  <2>5. l = List("receiver")'
    BY <1>5, SetupKept DEF l
  <2>. QED
    BY <2>3, <2>4, <2>5 DEF ReadAddsUp, h
<1>19. SeriesAddsUp'
  BY <1>1, <1>5 DEF SeriesAddsUp, receiving
<1>20. Warming'
  <2>1. Marking' = {}
    BY <1>4, <1>5, SetupKept DEF Marking
  <2>2. Cardinality(Marking') = 0
    BY <2>1, FS_EmptySet
  <2>3. /\ received' = 0 /\ measured' = -1 /\ before' = before /\ received = 0
        /\ \A y \in Connections : before[y] <= received
    BY <1>1, <1>5 DEF ReceiverState, Warming, receiving
  <2>4. 0 < WARM_UP + BLOCK * 0 /\ ~(0 >= WARM_UP)
    BY ConstantFacts
  <2>. QED
    BY <2>2, <2>3, <2>4 DEF Warming
<1>21. pc'["receiver"] # "error"
  BY <1>4
<1>22. Sound => \A y \in Range(List("receiver")) : task'["receiver"][y] # "error"
  BY <1>4
<1>. QED
  BY <1>4, <1>6, <1>8, <1>9, <1>10, <1>11, <1>12, <1>15, <1>16, <1>17, <1>18, <1>19, <1>20, <1>21, <1>22,
     ReceiverStep

\* While the receiver's tasks run.
LEMMA AtWork ==
  ASSUME Inv, pc["receiver"] = "tasks"
  PROVE  /\ TypeOK /\ SenderState /\ ReceiverState /\ TaskState("receiver") /\ WireOut /\ WireBack
         /\ NumbersOut /\ Holding /\ ReadAddsUp /\ SeriesAddsUp /\ Warming
         /\ SameControl /\ Working("receiver") /\ setup.rtt \in Nat
         /\ Written = setup.rtt /\ FramesRead = 4 + setup.rtt
         /\ pc["sender"] # "ok" /\ Len(param) = 3
         /\ \A k \in DOMAIN param : param[k] = Param(k) /\ k \in Int
         /\ List("receiver") \in Seq(Connections) /\ IsInjective(List("receiver"))
         /\ Range(List("receiver")) \subseteq Connections
<1>1. /\ TypeOK /\ SenderState /\ ReceiverState /\ TaskState("receiver") /\ WireOut /\ WireBack
      /\ NumbersOut /\ Holding /\ ReadAddsUp /\ SeriesAddsUp /\ Warming /\ Apart
  BY DEF Inv
<1>2. SameControl
  BY <1>1 DEF Apart
<1>3. Written = setup.rtt /\ FramesRead = 4 + setup.rtt /\ Working("receiver") /\ setup.rtt \in Nat
  BY <1>1, ListFacts, SideFacts DEF Written, FramesRead, Working, TypeOK
<1>4. pc["sender"] # "ok"
  BY ReceiverEndsFirst
<1>5. DOMAIN param \subseteq Int
  BY <1>1, LenProperties DEF TypeOK
<1>6. Len(param) = 3 /\ \A k \in DOMAIN param : param[k] = Param(k) /\ k \in Int
  BY <1>1, <1>2, <1>5 DEF ReceiverState
<1>7. /\ List("receiver") \in Seq(Range(List("receiver"))) /\ IsInjective(List("receiver"))
      /\ Range(List("receiver")) \subseteq Connections
  BY <1>1, ListFacts, SideFacts DEF TypeOK
<1>8. List("receiver") \in Seq(Connections)
  <2>. DEFINE l == List("receiver")
  <2>. HIDE DEF l
  <2>1. l \in Seq(Range(l)) /\ Range(l) \subseteq Connections
    BY <1>7 DEF l
  <2>2. l \in Seq(Connections)
    BY <2>1
  <2>. QED
    BY <2>2 DEF l
<1>. QED
  BY <1>1, <1>2, <1>3, <1>4, <1>6, <1>7, <1>8

\* The receiver moves on without reading or writing.
LEMMA ReceiverMoves ==
  ASSUME Inv, UNCHANGED <<setup, wire, open, broken, late, SenderHalf>>, TypeOK',
         SenderState', TaskState("receiver")', SeriesAddsUp', Warming',
         pc["receiver"] = "tasks", pc'["receiver"] \in {"tasks", "result"},
         pc'["receiver"] = "result" => left'["receiver"] \in 1 .. 3 + Len(series'),
         Written' = Written, todo'["receiver"] = todo["receiver"],
         received' = received, param' = param,
         Sound => \A z \in Range(List("receiver")) :
                    task["receiver"][z] # "error" => task'["receiver"][z] # "error"
  PROVE  Inv'
<1>1. /\ TypeOK /\ SenderState /\ ReceiverState /\ TaskState("receiver") /\ WireOut /\ WireBack
      /\ NumbersOut /\ Holding /\ ReadAddsUp /\ SameControl /\ Working("receiver") /\ setup.rtt \in Nat
      /\ Written = setup.rtt /\ FramesRead = 4 + setup.rtt /\ Len(param) = 3
      /\ \A k \in DOMAIN param : param[k] = Param(k) /\ k \in Int
  BY AtWork
<1>2. pc'["sender"] = pc["sender"]
  BY DEF SenderHalf
<1>3. FramesRead' = FramesRead /\ Working("receiver")'
  BY <1>1 DEF FramesRead, Working
<1>4. \A y \in Connections : Units("receiver", y)' = Units("receiver", y) /\ Read(y)' = Read(y)
  <2>1. \A y \in Connections : Units("receiver", y)' = Units("receiver", y)
    BY <1>1, <1>3, SetupKept DEF Units
  <2>. QED
    BY <1>3, <2>1, SetupKept DEF Read
<1>5. WireOut'
  <2>1. \A y \in Connections : Sent(y)' = Sent(y)
    BY SenderKept
  <2>2. wire'["sender"] = wire["sender"]
    OBVIOUS
  <2>. QED
    BY <1>1, <1>2, <1>4, <2>1, <2>2, OutKept
<1>6. WireBack'
  <2>1. wire'["receiver"] = wire["receiver"] /\ pc["receiver"] # "error" /\ pc'["receiver"] # "error"
    OBVIOUS
  <2>. QED
    BY <1>1, <2>1, BackKeptByReceiver
<1>7. NumbersOut'
  BY <1>1 DEF NumbersOut
<1>8. Holding'
  BY <1>1, <1>2, HoldingKept, SideFacts
<1>9. ReceiverState'
  <2>1. SameControl' => \A k \in DOMAIN param' : param'[k] = Param(k)'
    BY <1>1, SetupKept
  <2>. QED
    BY <1>1, <2>1 DEF ReceiverState
<1>10. Apart'
  BY <1>1, SetupKept DEF Apart
<1>11. ReadAddsUp'
  <2>1. PICK g : /\ Sums(g, List("receiver"), [z \in Connections |-> Units("receiver", z)])
                 /\ g[Len(List("receiver"))] = received
    BY <1>1 DEF ReadAddsUp
  <2>2. [z \in Connections |-> Units("receiver", z)]' = [z \in Connections |-> Units("receiver", z)]
    BY <1>4
  <2>. QED
    BY <2>1, <2>2, SetupKept DEF ReadAddsUp
<1>12. pc'["receiver"] # "error"
  OBVIOUS
<1>13. Sound => \A y \in Range(List("receiver")) : task'["receiver"][y] # "error"
  BY SideFacts DEF Inv, Unfailing
<1>14. UNCHANGED <<setup, broken, late, SenderHalf>>
  OBVIOUS
<1>. QED
  BY <1>5, <1>6, <1>7, <1>8, <1>9, <1>10, <1>11, <1>12, <1>13, <1>14, ReceiverStep

\* A task of the receiver takes another state.
LEMMA TaskTurns ==
  ASSUME TypeOK, Working("receiver"), TaskState("receiver"), pc["receiver"] = "tasks",
         NEW z \in Range(List("receiver")), NEW x \in {"run", "mark", "ok", "error"},
         task' = [task EXCEPT !["receiver"][z] = x], x = "ok" => todo["receiver"][z] = 0,
         UNCHANGED <<setup, pc, todo>>
  PROVE  /\ z \in Connections
         /\ task' \in [Sides -> [Connections -> {"idle", "run", "mark", "ok", "error"}]]
         /\ task'["receiver"][z] = x /\ task'["sender"] = task["sender"]
         /\ \A y \in Connections \ {z} : task'["receiver"][y] = task["receiver"][y]
         /\ TaskState("receiver")'
<1>1. Range(List("receiver")) \subseteq Connections
  BY ListFacts, SideFacts DEF TypeOK
<1>2. /\ task' \in [Sides -> [Connections -> {"idle", "run", "mark", "ok", "error"}]]
      /\ task'["receiver"][z] = x /\ task'["sender"] = task["sender"]
      /\ \A y \in Connections \ {z} : task'["receiver"][y] = task["receiver"][y]
  BY <1>1, SideFacts DEF TypeOK
<1>3. ASSUME NEW y \in Range(List("receiver"))
      PROVE  /\ todo["receiver"][y] <= Share(List("receiver"), Gross, y)
             /\ task'["receiver"][y] = "ok" => todo["receiver"][y] = 0
  BY <1>1, <1>2 DEF TaskState
<1>4. TaskState("receiver")'
  BY <1>3, SetupKept DEF TaskState
<1>. QED
  BY <1>1, <1>2, <1>4

\* when one of its tasks ends, well or not,
LEMMA ReceiverTaskEndsKeeps ==
  ASSUME Inv, NEW z \in Range(List("receiver")), TaskDone("receiver", z) \/ TaskFails("receiver", z)
  PROVE  Inv'
<1>1. pc["receiver"] = "tasks" /\ task["receiver"][z] = "run"
  BY DEF TaskDone, TaskFails
<1>2. /\ TypeOK /\ SenderState /\ TaskState("receiver") /\ SeriesAddsUp /\ Warming
      /\ Working("receiver")
  BY <1>1, AtWork
<1>3. UNCHANGED <<setup, wire, open, broken, pc, left, todo, receiving, got, late>>
  BY DEF TaskDone, TaskFails
<1>4. PICK x \in {"ok", "error"} :
        /\ task' = [task EXCEPT !["receiver"][z] = x]
        /\ x = "ok" => todo["receiver"][z] = 0
        /\ x = "error" => AtEnd("receiver", z)
  BY SideFacts DEF TaskDone, TaskFails
<1>5. /\ z \in Connections
      /\ task' \in [Sides -> [Connections -> {"idle", "run", "mark", "ok", "error"}]]
      /\ task'["receiver"][z] = x /\ task'["sender"] = task["sender"]
      /\ \A y \in Connections \ {z} : task'["receiver"][y] = task["receiver"][y]
      /\ TaskState("receiver")'
  BY <1>1, <1>2, <1>3, <1>4, TaskTurns
<1>6. UNCHANGED <<setup, wire, open, broken, late, SenderHalf>>
  BY <1>3, <1>5 DEF SenderHalf
<1>7. TypeOK'
  BY <1>2, <1>3, <1>5 DEF TypeOK, receiving
<1>8. SenderState'
  BY <1>2, <1>3 DEF SenderState, receiving
<1>9. SeriesAddsUp'
  BY <1>2, <1>3 DEF SeriesAddsUp, receiving
<1>10. Warming'
  <2>1. Marking' = Marking
    <3>1. \A y \in Range(List("receiver")) : task'["receiver"][y] = "mark" <=> task["receiver"][y] = "mark"
      BY <1>1, <1>2, <1>5, AtWork
    <3>. QED
      BY <1>3, <3>1, SetupKept DEF Marking, receiving
  <2>. QED
    BY <1>2, <1>3, <2>1, SetupKept DEF Warming, receiving
<1>11. Written' = Written
  BY <1>1, <1>3 DEF Written
<1>12. Sound => \A y \in Range(List("receiver")) :
                  task["receiver"][y] # "error" => task'["receiver"][y] # "error"
  <2>1. Sound => x # "error"
    BY <1>1, <1>4, ReceiverCanGoOn
  <2>2. Range(List("receiver")) \subseteq Connections
    BY <1>1, AtWork
  <2>. QED
    BY <1>5, <2>1, <2>2
<1>13. todo'["receiver"] = todo["receiver"] /\ received' = received /\ param' = param
       /\ pc'["receiver"] = "tasks"
  BY <1>1, <1>3 DEF receiving
<1>. QED
  BY <1>1, <1>5, <1>6, <1>7, <1>8, <1>9, <1>10, <1>11, <1>12, <1>13, ReceiverMoves

\* when all of them have,
LEMMA RDoneKeeps ==
  ASSUME Inv, RDone
  PROVE  Inv'
<1>1. /\ pc["receiver"] = "tasks" /\ FirstNotOk("receiver") = "ok"
      /\ pc' = [pc EXCEPT !["receiver"] = "result"]
      /\ left' = [left EXCEPT !["receiver"] = 3 + Len(series)]
      /\ UNCHANGED <<setup, wire, open, broken, todo, task, receiving, got, late>>
  BY DEF RDone
<1>2. /\ TypeOK /\ SenderState /\ TaskState("receiver") /\ SeriesAddsUp /\ Warming
      /\ Working("receiver") /\ setup.rtt \in Nat /\ Written = setup.rtt
      /\ Len(series) \in Nat /\ Total = setup.rtt + 3 + Len(series)
  BY <1>1, AtWork, CountTypes
<1>3. \A y \in Range(List("receiver")) : task["receiver"][y] = "ok"
  BY <1>1, <1>2, TasksEnd, SideFacts
<1>4. /\ pc' \in [Sides -> {"params", "ping", "pong", "go", "tasks", "result", "ok", "error"}]
      /\ left' \in [Sides -> Nat]
      /\ pc'["receiver"] = "result" /\ left'["receiver"] = 3 + Len(series)
      /\ pc'["sender"] = pc["sender"] /\ left'["sender"] = left["sender"]
  BY <1>1, <1>2, SideFacts DEF TypeOK
<1>5. UNCHANGED <<setup, wire, open, broken, late, SenderHalf>>
  BY <1>1, <1>4 DEF SenderHalf
<1>6. TypeOK'
  BY <1>1, <1>2, <1>4 DEF TypeOK, receiving
<1>7. SenderState'
  BY <1>1, <1>2, <1>5, SenderKept DEF receiving
<1>8. TaskState("receiver")'
  <2>1. ASSUME NEW y \in Range(List("receiver"))
        PROVE  /\ todo["receiver"][y] <= Share(List("receiver"), Gross, y)
               /\ task["receiver"][y] = "ok" => todo["receiver"][y] = 0
    BY <1>2 DEF TaskState
  <2>. QED
    BY <1>1, <1>3, <2>1, SetupKept DEF TaskState
<1>9. SeriesAddsUp'
  BY <1>1, <1>2 DEF SeriesAddsUp, receiving
<1>10. Warming'
  <2>1. Marking' = Marking
    BY <1>1, SetupKept DEF Marking, receiving
  <2>. QED
    BY <1>1, <1>2, <2>1, SetupKept DEF Warming, receiving
<1>11. Written' = Written
  <2>1. Total' = Total
    BY <1>1 DEF Total, receiving
  <2>2. Written' = Total - (3 + Len(series))
    BY <1>4, <2>1 DEF Written
  <2>. QED
    BY <1>2, <2>2
<1>12. /\ pc'["receiver"] \in {"tasks", "result"} /\ left'["receiver"] \in 1 .. 3 + Len(series')
       /\ todo'["receiver"] = todo["receiver"] /\ received' = received /\ param' = param
  BY <1>1, <1>2, <1>4 DEF receiving
<1>13. \A y \in Range(List("receiver")) : task'["receiver"][y] = task["receiver"][y]
  BY <1>1
<1>. QED
  BY <1>1, <1>5, <1>6, <1>7, <1>8, <1>9, <1>10, <1>11, <1>12, <1>13, ReceiverMoves

\* There are no more tasks than connections on the list.
LEMMA TasksCounted ==
  ASSUME TypeOK, NEW M \in SUBSET Range(List("receiver"))
  PROVE  /\ IsFiniteSet(M) /\ Cardinality(M) \in Nat
         /\ Cardinality(M) <= Len(List("receiver")) /\ Len(List("receiver")) \in Nat
<1>. DEFINE l == List("receiver")
<1>1. l \in Seq(Range(l))
  BY ListFacts, SideFacts DEF TypeOK
<1>2. M \in SUBSET Range(l)
  OBVIOUS
<1>. HIDE DEF l
<1>3. Len(l) \in Nat /\ DOMAIN l = 1 .. Len(l)
  BY <1>1, LenProperties
<1>4. l \in Surjection(1 .. Len(l), Range(l))
  <2>1. l \in [1 .. Len(l) -> Range(l)]
    BY <1>1, <1>3, LenProperties
  <2>2. \A y \in Range(l) : \E i \in 1 .. Len(l) : l[i] = y
    BY <1>3 DEF Range
  <2>. QED
    BY <2>1, <2>2 DEF Surjection
<1>5. IsFiniteSet(1 .. Len(l)) /\ Cardinality(1 .. Len(l)) = Len(l)
  <2>. DEFINE n == Len(l)
  <2>. HIDE DEF n
  <2>1. n \in Nat /\ n \in Int /\ 1 \in Int
    BY <1>3 DEF n
  <2>2. IsFiniteSet(1 .. n) /\ Cardinality(1 .. n) = (IF 1 > n THEN 0 ELSE n - 1 + 1)
    BY <2>1, FS_Interval
  <2>3. IsFiniteSet(1 .. n) /\ Cardinality(1 .. n) = n
    BY <2>1, <2>2
  <2>. QED
    BY <2>3 DEF n
<1>6. IsFiniteSet(Range(l)) /\ Cardinality(Range(l)) <= Len(l)
  BY <1>4, <1>5, FS_Surjection
<1>7. IsFiniteSet(M) /\ Cardinality(M) <= Cardinality(Range(l))
  BY <1>2, <1>6, FS_Subset
<1>8. Cardinality(M) \in Nat /\ Cardinality(Range(l)) \in Nat
  BY <1>6, <1>7, FS_CardinalityType
<1>. QED
  BY <1>3, <1>6, <1>7, <1>8 DEF l

\* Blocks of one task more, and of no more tasks.
LEMMA Blocks ==
  /\ \A a \in Nat : BLOCK * (a + 1) = BLOCK * a + BLOCK /\ BLOCK * a \in Nat
  /\ \A a, b \in Nat : a <= b => BLOCK * a <= BLOCK * b
<1>1. BLOCK \in Nat
  BY ConstantFacts
<1>. DEFINE n == BLOCK
<1>2. \A a \in Nat : n * (a + 1) = n * a + n /\ n * a \in Nat
  BY <1>1
<1>3. ASSUME NEW a \in Nat, NEW b \in Nat, a <= b PROVE n * a <= n * b
  <2>1. PICK c \in Nat : b = a + c
    <3>1. b - a \in Nat /\ b = a + (b - a)
      BY <1>3
    <3>. QED
      BY <3>1
  <2>2. n * (a + c) = n * a + n * c /\ n * c \in Nat /\ n * a \in Nat
    BY <1>1
  <2>. QED
    BY <2>1, <2>2
<1>. QED
  BY <1>2, <1>3

\* when a task marks the end of the warm-up, or finds it marked,
LEMMA RMarkKeeps ==
  ASSUME Inv, NEW z \in Range(List("receiver")), RMark(z)
  PROVE  Inv'
<1>1. /\ pc["receiver"] = "tasks" /\ task["receiver"][z] = "mark"
      /\ measured' = (IF before[z] >= WARM_UP /\ measured = -1 THEN received ELSE measured)
      /\ task' = [task EXCEPT !["receiver"][z] = "run"]
      /\ UNCHANGED <<setup, wire, open, broken, pc, left, todo, param, received, before, series,
                     sampled, got, late>>
  BY DEF RMark
<1>2. /\ TypeOK /\ SenderState /\ TaskState("receiver") /\ SeriesAddsUp /\ Warming
      /\ Working("receiver")
  BY <1>1, AtWork
<1>3. /\ z \in Connections
      /\ task' \in [Sides -> [Connections -> {"idle", "run", "mark", "ok", "error"}]]
      /\ task'["receiver"][z] = "run" /\ task'["sender"] = task["sender"]
      /\ \A y \in Connections \ {z} : task'["receiver"][y] = task["receiver"][y]
      /\ TaskState("receiver")'
  BY <1>1, <1>2, TaskTurns
<1>4. UNCHANGED <<setup, wire, open, broken, late, SenderHalf>>
  BY <1>1, <1>3 DEF SenderHalf
<1>5. /\ received \in Nat /\ before[z] \in Nat /\ measured \in Nat \cup {-1} /\ WARM_UP \in Nat
      /\ WARM_UP >= 1
  BY <1>2, <1>3, ConstantFacts DEF TypeOK
<1>6. TypeOK'
  <2>1. measured' \in Nat \cup {-1}
    BY <1>1, <1>5
  <2>. QED
    BY <1>1, <1>2, <1>3, <2>1 DEF TypeOK
<1>7. SenderState'
  BY <1>1, <1>2, <1>4, SenderKept
<1>8. SeriesAddsUp'
  BY <1>1, <1>2 DEF SeriesAddsUp
<1>9. Warming'
  <2>. DEFINE L == Len(List("receiver"))
              c == Cardinality(Marking)
  <2>1. /\ \A y \in Connections : before[y] <= received
        /\ measured = -1 => received < WARM_UP + BLOCK * c /\ (received >= WARM_UP => Marking # {})
        /\ measured # -1 => measured >= WARM_UP /\ measured < WARM_UP + BLOCK * L
    BY <1>2 DEF Warming
  <2>2. c \in Nat /\ L \in Nat /\ BLOCK * c <= BLOCK * L /\ BLOCK * c \in Nat /\ BLOCK * L \in Nat
    <3>1. c \in Nat /\ L \in Nat /\ c <= L
      BY <1>2, TasksCounted DEF Marking
    <3>. HIDE DEF c, L
    <3>. QED
      BY <3>1, Blocks
  <2>3. before' = before /\ received' = received /\ List("receiver")' = List("receiver")
    BY <1>1, SetupKept
  <2>. HIDE DEF c, L
  <2>4. CASE measured # -1
    <3>1. measured' = measured
      BY <1>1, <2>4
    <3>. QED
      BY <2>1, <2>3, <2>4, <3>1 DEF Warming, L
  <2>5. CASE measured = -1 /\ before[z] >= WARM_UP
    <3>1. measured' = received
      BY <1>1, <2>5
    <3>2. received >= WARM_UP /\ received < WARM_UP + BLOCK * L /\ received # -1
      BY <1>3, <1>5, <2>1, <2>2, <2>5
    <3>. QED
      BY <2>1, <2>3, <3>1, <3>2 DEF Warming, L
  <2>6. CASE measured = -1 /\ ~(before[z] >= WARM_UP)
    <3>1. measured' = -1
      BY <1>1, <2>6
    <3>2. Marking' = Marking
      BY <1>1, <1>2, <1>3, <2>3, <2>6, ListFacts, SideFacts DEF Marking, TypeOK
    <3>. QED
      BY <2>1, <2>3, <2>6, <3>1, <3>2 DEF Warming, c
  <2>. QED
    BY <2>4, <2>5, <2>6
<1>10. Written' = Written
  BY <1>1 DEF Written
<1>11. Sound => \A y \in Range(List("receiver")) :
                  task["receiver"][y] # "error" => task'["receiver"][y] # "error"
  BY <1>1, <1>3, AtWork
<1>12. /\ todo'["receiver"] = todo["receiver"] /\ received' = received /\ param' = param
       /\ pc'["receiver"] = "tasks"
  BY <1>1
<1>. QED
  BY <1>1, <1>3, <1>4, <1>6, <1>7, <1>8, <1>9, <1>10, <1>11, <1>12, ReceiverMoves

\* when a sample is taken,
LEMMA RSampleKeeps ==
  ASSUME Inv, RSample
  PROVE  Inv'
<1>1. /\ pc["receiver"] = "tasks" /\ series' = Append(series, received - sampled) /\ sampled' = received
      /\ UNCHANGED <<setup, wire, open, broken, pc, left, todo, task, param, received, before,
                     measured, got, late>>
  BY DEF RSample
<1>2. /\ TypeOK /\ SenderState /\ TaskState("receiver") /\ SeriesAddsUp /\ Warming
      /\ Working("receiver") /\ pc["sender"] # "ok"
  BY <1>1, AtWork
<1>3. UNCHANGED <<setup, wire, open, broken, late, SenderHalf>>
  BY <1>1 DEF SenderHalf
<1>. DEFINE n == Len(series)
            x == received - sampled
<1>4. /\ n \in Nat /\ series \in Seq(Nat) /\ x \in Nat /\ received \in Nat /\ sampled \in Nat
      /\ sampled + x = received
  BY <1>2, LenProperties DEF TypeOK
<1>. HIDE DEF x
<1>5. /\ series' \in Seq(Nat) /\ Len(series') = n + 1 /\ series'[n + 1] = x
      /\ \A i \in 1 .. n : series'[i] = series[i]
  <2>1. series' = Append(series, x)
    BY <1>1 DEF x
  <2>. QED
    BY <1>4, <2>1, AppendProperties
<1>6. TypeOK'
  <2>1. sampled' \in 0 .. received'
    BY <1>1, <1>4
  <2>. QED
    BY <1>1, <1>2, <1>5, <2>1 DEF TypeOK
<1>7. SenderState'
  <2>1. Len(got) \in Nat
    BY <1>2, CountTypes
  <2>2. pc["sender"] = "result" => Len(got) < 3 + (n + 1)
    BY <1>2, <1>4, <2>1 DEF SenderState
  <2>. QED
    BY <1>1, <1>2, <1>5, <2>2 DEF SenderState
<1>8. SeriesAddsUp'
  <2>1. PICK g : /\ g \in [0 .. n -> Int] /\ g[0] = 0
                 /\ \A i \in 1 .. n : g[i] = g[i - 1] + series[i]
                 /\ g[n] = sampled
    BY <1>2 DEF SeriesAddsUp
  <2>. DEFINE h == [i \in 0 .. n + 1 |-> IF i = n + 1 THEN received ELSE g[i]]
  <2>2. h \in [0 .. n + 1 -> Int] /\ h[0] = 0 /\ h[n + 1] = received /\ h[n] = sampled
    BY <1>4, <2>1
  <2>3. ASSUME NEW i \in 1 .. n + 1 PROVE h[i] = h[i - 1] + series'[i]
    <3>1. CASE i = n + 1
      <4>1. i - 1 = n /\ h[i] = received /\ h[i - 1] = sampled /\ series'[i] = x
        BY <1>4, <1>5, <2>2, <3>1
      <4>. HIDE DEF h
      <4>. QED
        BY <1>4, <4>1
    <3>2. CASE i # n + 1
      <4>1. i \in 1 .. n /\ i \in 0 .. n + 1 /\ i - 1 \in 0 .. n + 1 /\ i - 1 # n + 1
        BY <1>4, <2>3, <3>2
      <4>2. h[i] = g[i] /\ h[i - 1] = g[i - 1]
        BY <3>2, <4>1
      <4>. HIDE DEF h
      <4>. QED
        BY <1>5, <2>1, <4>1, <4>2
    <3>. QED
      BY <3>1, <3>2
  <2>. HIDE DEF h
  <2>4. /\ h \in [0 .. Len(series') -> Int] /\ h[0] = 0
        /\ \A i \in 1 .. Len(series') : h[i] = h[i - 1] + series'[i]
        /\ h[Len(series')] = sampled'
    BY <1>1, <1>5, <2>2, <2>3
  <2>. QED
    BY <2>4 DEF SeriesAddsUp
<1>9. Warming'
  <2>1. Marking' = Marking
    BY <1>1, SetupKept DEF Marking
  <2>. QED
    BY <1>1, <1>2, <2>1, SetupKept DEF Warming
<1>10. Written' = Written
  BY <1>1 DEF Written
<1>11. \A y \in Range(List("receiver")) : task["receiver"][y] # "error" => task'["receiver"][y] # "error"
  BY <1>1
<1>12. TaskState("receiver")'
  <2>1. ASSUME NEW y \in Range(List("receiver"))
        PROVE  /\ todo["receiver"][y] <= Share(List("receiver"), Gross, y)
               /\ task["receiver"][y] = "ok" => todo["receiver"][y] = 0
    BY <1>2 DEF TaskState
  <2>. QED
    BY <1>1, <2>1, SetupKept DEF TaskState
<1>13. /\ todo'["receiver"] = todo["receiver"] /\ received' = received /\ param' = param
       /\ pc'["receiver"] = "tasks"
  BY <1>1
<1>. QED
  BY <1>1, <1>3, <1>6, <1>7, <1>8, <1>9, <1>10, <1>11, <1>12, <1>13, ReceiverMoves

\* when a task reads,
LEMMA RReadKeeps ==
  ASSUME Inv, NEW z \in Range(List("receiver")), RRead(z)
  PROVE  Inv'
<1>1. /\ pc["receiver"] = "tasks" /\ task["receiver"][z] = "run"
      /\ task' = [task EXCEPT !["receiver"][z] = "mark"]
      /\ UNCHANGED <<setup, open, broken, pc, left, param, measured, series, sampled, got, late>>
  BY DEF RRead
<1>2. /\ TypeOK /\ SenderState /\ ReceiverState /\ TaskState("receiver") /\ WireOut /\ WireBack
      /\ NumbersOut /\ Holding /\ ReadAddsUp /\ SeriesAddsUp /\ Warming
      /\ SameControl /\ Working("receiver") /\ Len(param) = 3
      /\ \A k \in DOMAIN param : param[k] = Param(k) /\ k \in Int
      /\ List("receiver") \in Seq(Connections) /\ IsInjective(List("receiver"))
      /\ z \in Connections
  BY <1>1, AtWork
<1>3. PICK n \in 1 .. Min({todo["receiver"][z], BLOCK, Len(wire["sender"][z])}) :
        /\ Take("receiver", z, n)
        /\ received' = received + n
        /\ before' = [before EXCEPT ![z] = received']
        /\ todo' = [todo EXCEPT !["receiver"][z] = @ - n]
  BY DEF RRead
<1>4. n \in Nat /\ n >= 1 /\ n <= todo["receiver"][z] /\ n <= BLOCK /\ n <= Len(wire["sender"][z])
  <2>. DEFINE a == todo["receiver"][z]
              c == Len(wire["sender"][z])
  <2>1. a \in Int /\ BLOCK \in Int /\ c \in Int
    BY <1>2, ConstantFacts, LenProperties, SideFacts DEF TypeOK
  <2>2. n \in 1 .. Min({a, BLOCK, c})
    OBVIOUS
  <2>. HIDE DEF a, c
  <2>3. Min({a, BLOCK, c}) \in Int /\ Min({a, BLOCK, c}) <= a /\ Min({a, BLOCK, c}) <= BLOCK
        /\ Min({a, BLOCK, c}) <= c
    BY <2>1, MinOfThree
  <2>4. n \in Nat /\ n >= 1 /\ n <= a /\ n <= BLOCK /\ n <= c
    BY <2>1, <2>2, <2>3
  <2>. QED
    BY <2>4 DEF a, c
<1>5. TakenFrom("sender", z, n) /\ wire'["receiver"] = wire["receiver"]
  <2>1. Gone("sender", z, n)
    BY <1>3, SideFacts DEF Take, Gone
  <2>. QED
    BY <1>2, <1>4, <2>1, GoneFacts, SideFacts
<1>6. /\ todo' \in [Sides -> [Connections -> Nat]]
      /\ todo'["receiver"][z] = todo["receiver"][z] - n
      /\ \A y \in Connections \ {z} : todo'["receiver"][y] = todo["receiver"][y]
      /\ todo'["sender"] = todo["sender"]
      /\ Units("receiver", z)' = Units("receiver", z) + n
      /\ \A y \in Connections \ {z} : Units("receiver", y)' = Units("receiver", y)
  <2>1. "receiver" \in Sides /\ Other("receiver") = "sender"
    BY SideFacts
  <2>2. LessLeft("receiver", z, n) /\ UNCHANGED <<setup, pc>>
    BY <1>1, <1>3 DEF LessLeft
  <2>. QED
    BY <1>2, <1>4, <2>1, <2>2, PartDone
<1>7. /\ task' \in [Sides -> [Connections -> {"idle", "run", "mark", "ok", "error"}]]
      /\ task'["receiver"][z] = "mark" /\ task'["sender"] = task["sender"]
      /\ \A y \in Connections \ {z} : task'["receiver"][y] = task["receiver"][y]
  BY <1>1, <1>2, SideFacts DEF TypeOK
<1>8. /\ received \in Nat /\ received' \in Nat /\ received' = received + n
      /\ before' \in [Connections -> Nat] /\ before'[z] = received'
      /\ \A y \in Connections \ {z} : before'[y] = before[y]
  BY <1>2, <1>3, <1>4 DEF TypeOK
<1>9. UNCHANGED <<setup, broken, late, SenderHalf>>
  BY <1>1, <1>6, <1>7 DEF SenderHalf
<1>10. TypeOK'
  <2>1. wire' \in [Sides -> [Connections -> Seq(Items)]]
    BY <1>5 DEF TakenFrom
  <2>2. sampled' \in 0 .. received'
    BY <1>1, <1>2, <1>4, <1>8 DEF TypeOK
  <2>. QED
    BY <1>1, <1>2, <1>6, <1>7, <1>8, <2>1, <2>2 DEF TypeOK, Items
<1>11. NumbersOut'
  BY <1>2, <1>5, NumbersLeft
<1>12. Holding'
  BY <1>1, <1>2, HoldingKept, SideFacts
<1>13. SenderState'
  BY <1>1, <1>2, <1>9, SenderKept
<1>14. ReceiverState'
  <2>1. SameControl' => \A k \in DOMAIN param' : param'[k] = Param(k)'
    BY <1>1, <1>2, SetupKept
  <2>. QED
    BY <1>1, <1>2, <2>1 DEF ReceiverState
<1>15. TaskState("receiver")'
  <2>1. ASSUME NEW y \in Range(List("receiver"))
        PROVE  /\ todo'["receiver"][y] <= Share(List("receiver"), Gross, y)
               /\ task'["receiver"][y] = "ok" => todo'["receiver"][y] = 0
    <3>1. /\ todo["receiver"][y] <= Share(List("receiver"), Gross, y)
          /\ task["receiver"][y] = "ok" => todo["receiver"][y] = 0
      BY <1>2 DEF TaskState
    <3>2. y \in Connections /\ todo["receiver"][y] \in Nat /\ Share(List("receiver"), Gross, y) \in Nat
      BY <1>2, WorkingFacts, SideFacts
    <3>3. CASE y = z
      BY <1>4, <1>6, <1>7, <3>1, <3>2, <3>3
    <3>4. CASE y # z
      BY <1>6, <1>7, <3>1, <3>2, <3>4
    <3>. QED
      BY <3>3, <3>4
  <2>. QED
    BY <1>1, <2>1, SetupKept DEF TaskState
<1>16. FramesRead' = FramesRead /\ Written' = Written
  BY <1>1 DEF FramesRead, Written
<1>17. Read(z)' = Read(z) + n /\ \A y \in Connections \ {z} : Read(y)' = Read(y)
  <2>. DEFINE e == IF z = Control("receiver") THEN FramesRead ELSE 0
  <2>1. e \in Int /\ Units("receiver", z) \in Int
    BY <1>2, CountTypes, SideFacts
  <2>2. Read(z) = Units("receiver", z) + e /\ Read(z)' = Units("receiver", z) + n + e
    BY <1>1, <1>6, <1>16, SetupKept DEF Read
  <2>. HIDE DEF e
  <2>3. Read(z)' = Read(z) + n
    BY <1>4, <2>1, <2>2
  <2>4. \A y \in Connections \ {z} : Read(y)' = Read(y)
    BY <1>1, <1>6, <1>16, SetupKept DEF Read
  <2>. QED
    BY <2>3, <2>4
<1>18. pc["receiver"] # "error" /\ pc'["receiver"] # "error"
  BY <1>1
<1>19. WireOut'
  BY <1>2, <1>4, <1>5, <1>9, <1>17, <1>18, ReadsOut
<1>20. WireBack'
  BY <1>1, <1>2, <1>5, <1>9, <1>16, <1>18, BackKeptByReceiver
<1>21. Apart'
  BY <1>1, <1>2, SetupKept DEF Apart
<1>22. ReadAddsUp'
  <2>. DEFINE l == List("receiver")
              f == [y \in Connections |-> Units("receiver", y)]
              h == [y \in Connections |-> Units("receiver", y)']
  <2>1. PICK F : Sums(F, l, f) /\ F[Len(l)] = received
    BY <1>2 DEF ReadAddsUp
  <2>2. f \in [Connections -> Int] /\ h \in [Connections -> Int]
    <3>1. \A y \in Connections : Units("receiver", y) \in Int
      BY <1>2, CountTypes, SideFacts
    <3>2. \A y \in Connections : Units("receiver", y)' \in Int
      BY <1>4, <1>6, <3>1
    <3>. QED
      BY <3>1, <3>2
  <2>3. h[z] = f[z] + n
    BY <1>2, <1>6
  <2>4. \A y \in Connections \ {z} : h[y] = f[y]
    BY <1>6
  <2>5. l \in Seq(Connections) /\ IsInjective(l) /\ z \in Range(l) /\ n \in Int
    BY <1>2, <1>4
  <2>. HIDE DEF l, f, h
  <2>6. \E H : Sums(H, l, h) /\ H[Len(l)] = F[Len(l)] + n
    <3>1. OnePartMore(Connections, l, f, F, z, n, h)
      BY <2>1, <2>2, <2>3, <2>4, <2>5 DEF OnePartMore
    <3>. QED
      BY <3>1, PartGrows
  <2>7. \E H : Sums(H, l, h) /\ H[Len(l)] = received'
    BY <1>8, <2>1, <2>6
  <2>8. l = List("receiver")'
    BY <1>1, SetupKept DEF l
  <2>. QED
    BY <2>7, <2>8 DEF ReadAddsUp, h
<1>23. SeriesAddsUp'
  BY <1>1, <1>2 DEF SeriesAddsUp
<1>24. Warming'
  <2>. DEFINE c == Cardinality(Marking)
              L == List("receiver")
  <2>1. /\ \A y \in Connections : before[y] <= received /\ before[y] \in Nat
        /\ measured = -1 => received < WARM_UP + BLOCK * c
        /\ measured # -1 => measured >= WARM_UP /\ measured < WARM_UP + BLOCK * Len(L)
    BY <1>2 DEF Warming, TypeOK
  <2>2. \A y \in Connections : before'[y] <= received'
    <3>. TAKE y \in Connections
    <3>1. CASE y = z
      BY <1>8, <3>1
    <3>2. CASE y # z
      BY <1>4, <1>8, <2>1, <3>2
    <3>. QED
      BY <3>1, <3>2
  <2>3. L' = L /\ measured' = measured
    BY <1>1, SetupKept
  <2>4. Marking \in SUBSET Range(L) /\ z \notin Marking /\ z \in Range(L)
    BY <1>1 DEF Marking
  <2>5. \A y \in Range(L) \ {z} : y \in Marking' <=> y \in Marking
    BY <1>2, <1>7, <1>8, <2>3, ListFacts, SideFacts DEF Marking, TypeOK
  <2>6. z \in Marking' <=> received' >= WARM_UP
    BY <1>7, <1>8, <2>3, <2>4 DEF Marking
  <2>7. Marking' \in SUBSET Range(L)
    BY <2>3 DEF Marking
  <2>8. IsFiniteSet(Marking) /\ c \in Nat /\ Cardinality(Marking') \in Nat
    BY <1>2, <2>4, <2>7, TasksCounted
  <2>9. WARM_UP \in Nat /\ BLOCK \in Nat /\ BLOCK * c \in Nat /\ BLOCK * Cardinality(Marking') \in Nat
    BY <2>8, Blocks, ConstantFacts
  <2>10. ASSUME measured = -1
         PROVE  /\ received' < WARM_UP + BLOCK * Cardinality(Marking')
                /\ received' >= WARM_UP => Marking' # {}
    <3>1. CASE received' >= WARM_UP
      <4>1. Marking' = Marking \cup {z}
        BY <2>4, <2>5, <2>6, <2>7, <3>1
      <4>2. Cardinality(Marking') = c + 1
        BY <2>4, <2>8, <4>1, FS_AddElement
      <4>3. BLOCK * (c + 1) = BLOCK * c + BLOCK
        BY <2>8, Blocks
      <4>4. received < WARM_UP + BLOCK * c
        BY <2>1, <2>10
      <4>. HIDE DEF c
      <4>5. received' < WARM_UP + (BLOCK * c + BLOCK)
        BY <1>4, <1>8, <2>9, <4>4
      <4>. QED
        BY <4>1, <4>2, <4>3, <4>5
    <3>2. CASE ~(received' >= WARM_UP)
      BY <1>8, <2>9, <3>2
    <3>. QED
      BY <3>1, <3>2
  <2>. HIDE DEF c
  <2>. QED
    BY <2>1, <2>2, <2>3, <2>10 DEF Warming
<1>25. Sound => \A y \in Range(List("receiver")) : task'["receiver"][y] # "error"
  <2>1. Sound => \A y \in Range(List("receiver")) : task["receiver"][y] # "error"
    BY SideFacts DEF Inv, Unfailing
  <2>2. Range(List("receiver")) \subseteq Connections
    BY <1>1, AtWork
  <2>. QED
    BY <1>7, <2>1, <2>2
<1>. QED
  BY <1>9, <1>10, <1>11, <1>12, <1>13, <1>14, <1>15, <1>18, <1>19, <1>20, <1>21, <1>22, <1>23, <1>24, <1>25,
     ReceiverStep

\* and when it writes a frame of the result, the last one included.
LEMMA RResultKeeps ==
  ASSUME Inv, RResult
  PROVE  Inv'
<1>. DEFINE z == Control("receiver")
            a == left["receiver"]
            n == Len(Report) - a + 1
            x == Frame("RESULT", Report[n])
<1>1. /\ TypeOK /\ SenderState /\ ReceiverState /\ TaskState("receiver") /\ WireOut /\ WireBack
      /\ NumbersOut /\ Holding /\ ReadAddsUp /\ SeriesAddsUp /\ Warming
      /\ pc["receiver"] = "result" /\ z \notin broken /\ SameControl
      /\ Put("receiver", z, <<x>>)
      /\ left' = [left EXCEPT !["receiver"] = a - 1]
      /\ IF a = 1 THEN Finish("receiver", "ok") ELSE UNCHANGED <<pc, open>>
      /\ UNCHANGED <<setup, broken, todo, task, receiving, got, late>>
  BY DEF Inv, RResult, CanWrite, Apart
<1>2. /\ a \in 1 .. 3 + Len(series) /\ Len(series) \in Nat /\ Total = setup.rtt + 3 + Len(series)
      /\ setup.rtt \in Nat /\ Len(Report) = 3 + Len(series) /\ z \in Connections
      /\ Report' = Report
  BY <1>1, CountTypes, ListFacts, SideFacts, ReportFacts DEF TypeOK, ReceiverState, Report, receiving
<1>3. n \in 1 .. 3 + Len(series) /\ Report[n] \in Int
  <2>1. n \in 1 .. 3 + Len(series)
    BY <1>2
  <2>. HIDE DEF n
  <2>. QED
    BY <1>1, <2>1, ReportFacts
<1>4. x \in Items
  BY <1>3, FrameFacts DEF FrameTypes
<1>5. /\ pc' \in [Sides -> {"params", "ping", "pong", "go", "tasks", "result", "ok", "error"}]
      /\ pc'["receiver"] = (IF a = 1 THEN "ok" ELSE "result") /\ pc'["sender"] = pc["sender"]
      /\ open' \in [Sides -> SUBSET Connections]
      /\ open'["sender"] = open["sender"]
      /\ open'["receiver"] = IF a = 1 /\ ~setup.then THEN {} ELSE open["receiver"]
  <2>1. CASE a = 1
    BY <1>1, <2>1, SideFacts DEF Finish, TypeOK
  <2>2. CASE a # 1
    BY <1>1, <2>2 DEF TypeOK
  <2>. QED
    BY <2>1, <2>2
<1>6. /\ left' \in [Sides -> Nat] /\ left'["receiver"] = a - 1 /\ left'["sender"] = left["sender"]
  <2>1. left \in [Sides -> Nat] /\ a - 1 \in Nat
    <3>1. a - 1 \in Nat
      BY <1>2
    <3>2. left \in [Sides -> Nat]
      BY <1>1 DEF TypeOK
    <3>. QED
      BY <3>1, <3>2
  <2>2. left' = [left EXCEPT !["receiver"] = a - 1]
    BY <1>1
  <2>. QED
    BY <2>1, <2>2, SideFacts
<1>7. AddedTo("receiver", z, x) /\ wire'["sender"] = wire["sender"]
  <2>. HIDE DEF x
  <2>. QED
    BY <1>1, <1>2, <1>4, FrameAdded, SideFacts
<1>8. UNCHANGED <<setup, broken, late, SenderHalf>>
  BY <1>1, <1>5, <1>6 DEF SenderHalf
<1>9. pc'["receiver"] \in {"result", "ok"}
  BY <1>5
<1>10. TypeOK'
  <2>1. wire' \in [Sides -> [Connections -> Seq(Items)]]
    BY <1>7 DEF AddedTo
  <2>. HIDE DEF x
  <2>. QED
    BY <1>1, <1>5, <1>6, <1>9, <2>1 DEF TypeOK, Items, receiving
<1>11. NumbersOut'
  BY <1>1, <1>7 DEF NumbersOut
<1>12. Holding'
  <2>1. /\ open["receiver"] = Range(List("receiver"))
        /\ open["sender"] = (IF pc["sender"] = "error" \/ (pc["sender"] = "ok" /\ ~setup.then)
                             THEN {} ELSE Range(List("sender")))
    BY <1>1, SideFacts DEF Holding
  <2>. QED
    BY <1>1, <1>5, <2>1, SetupKept, SideFacts DEF Holding
<1>13. SenderState'
  BY <1>1, <1>8, SenderKept DEF receiving
<1>14. ReceiverState'
  <2>1. DOMAIN param \subseteq Int
    BY <1>1, LenProperties DEF TypeOK
  <2>2. SameControl' => \A k \in DOMAIN param' : param'[k] = Param(k)'
    BY <1>1, <2>1, SetupKept DEF ReceiverState, receiving
  <2>3. pc'["receiver"] = "result" => left'["receiver"] \in 1 .. 3 + Len(series')
    BY <1>1, <1>2, <1>5, <1>6 DEF receiving
  <2>4. Len(param') = 3
    BY <1>1 DEF ReceiverState, receiving
  <2>. QED
    BY <1>9, <2>2, <2>3, <2>4 DEF ReceiverState
<1>15. Working("receiver") /\ Working("receiver")'
  BY <1>1, <1>9 DEF Working
<1>16. TaskState("receiver")'
  <2>1. ASSUME NEW y \in Range(List("receiver"))
        PROVE  /\ todo["receiver"][y] <= Share(List("receiver"), Gross, y)
               /\ task["receiver"][y] = "ok" => todo["receiver"][y] = 0
               /\ task["receiver"][y] = "ok"
    BY <1>1, <1>15 DEF TaskState
  <2>. QED
    BY <1>1, <2>1, SetupKept DEF TaskState
<1>17. \A y \in Connections : Units("receiver", y)' = Units("receiver", y)
  BY <1>1, <1>15, SetupKept DEF Units
<1>18. WireOut'
  <2>1. FramesRead' = FramesRead
    BY <1>1, <1>9 DEF FramesRead
  <2>2. \A y \in Connections : Read(y)' = Read(y)
    BY <1>1, <1>17, <2>1, SetupKept DEF Read
  <2>3. \A y \in Connections : Sent(y)' = Sent(y)
    BY <1>8, SenderKept
  <2>4. pc["sender"] = "error" => pc'["sender"] = "error"
    BY <1>5
  <2>5. pc["receiver"] # "error"
    BY <1>1
  <2>. QED
    BY <1>1, <1>7, <2>2, <2>3, <2>4, <2>5, OutKept
<1>19. Written = Total - a /\ Written' = Written + 1
  <2>1. Written = Total - a
    BY <1>1 DEF Written
  <2>2. Total' = Total
    BY <1>1 DEF Total, receiving
  <2>3. Written' = Total - (a - 1)
    <3>1. CASE a = 1
      BY <1>2, <1>5, <2>2, <3>1 DEF Written
    <3>2. CASE a # 1
      BY <1>5, <1>6, <2>2, <3>2 DEF Written
    <3>. QED
      BY <3>1, <3>2
  <2>. QED
    BY <1>2, <2>1, <2>3
<1>20. x = FromReceiver(Written + 1)
  <2>1. Written + 1 > setup.rtt /\ (Written + 1) - setup.rtt = n /\ Written + 1 \in Int
    <3>1. n = 3 + Len(series) - a + 1
      BY <1>2
    <3>2. Written = setup.rtt + 3 + Len(series) - a
      BY <1>2, <1>19
    <3>3. a \in Int /\ a <= 3 + Len(series) /\ Len(series) \in Int /\ setup.rtt \in Int
      BY <1>2
    <3>. DEFINE w == Written
                s == Len(series)
                r == setup.rtt
    <3>. HIDE DEF x, n, a, w, s, r
    <3>4. n = 3 + s - a + 1 /\ w = r + 3 + s - a /\ a \in Int /\ a <= 3 + s /\ s \in Int /\ r \in Int
      BY <3>1, <3>2, <3>3 DEF w, s, r
    <3>5. w + 1 > r /\ (w + 1) - r = n /\ w + 1 \in Int
      BY <3>4
    <3>. QED
      BY <3>5 DEF w, r
  <2>. HIDE DEF n
  <2>. QED
    BY <1>2, <2>1 DEF FromReceiver
<1>21. WireBack'
  <2>1. UNCHANGED <<measured, series>> /\ pc["receiver"] # "error" /\ pc'["receiver"] # "error"
    BY <1>1, <1>9 DEF receiving
  <2>. HIDE DEF x
  <2>. QED
    BY <1>1, <1>4, <1>7, <1>8, <1>19, <1>20, <2>1, SendsBack
<1>22. Apart'
  BY <1>1, SetupKept DEF Apart
<1>23. ReadAddsUp'
  <2>1. [y \in Connections |-> Units("receiver", y)]' = [y \in Connections |-> Units("receiver", y)]
    BY <1>1, <1>17, SetupKept DEF Connections
  <2>. QED
    BY <1>1, <1>15, <2>1, SetupKept DEF ReadAddsUp, receiving, Sums
<1>24. SeriesAddsUp'
  BY <1>1 DEF SeriesAddsUp, receiving
<1>25. Warming'
  <2>1. Marking' = Marking
    BY <1>1, SetupKept DEF Marking, receiving
  <2>. QED
    BY <1>1, <2>1, SetupKept DEF Warming, receiving
<1>26. pc'["receiver"] # "error"
  BY <1>9
<1>27. Sound => \A y \in Range(List("receiver")) : task'["receiver"][y] # "error"
  BY <1>1, SideFacts DEF Inv, Unfailing
<1>. QED
  BY <1>8, <1>10, <1>11, <1>12, <1>13, <1>14, <1>16, <1>18, <1>21, <1>22, <1>23, <1>24, <1>25,
     <1>26, <1>27, ReceiverStep

----------------------------------------------------------------------------
(* The connections, and the invariant.                                      *)

\* The invariant is kept when a connection is lost, with all that was under way on it.
LEMMA LoseKeeps ==
  ASSUME Inv, NEW z \in Connections, z \notin broken, Lose(z)
  PROVE  Inv'
<1>1. /\ TypeOK /\ WireOut /\ WireBack /\ NumbersOut /\ Apart
      /\ broken' = broken \cup {z}
      /\ UNCHANGED <<setup, open, pc, left, todo, task, receiving, got, late>>
  BY DEF Inv, Lose
<1>2. /\ wire \in [Sides -> [Connections -> Seq(Items)]]
      /\ wire' = [d \in Sides |-> [wire[d] EXCEPT ![z] = <<>>]]
  BY <1>1 DEF TypeOK, Items, Lose
<1>3. ASSUME NEW d \in Sides
      PROVE  /\ wire'[d] \in [Connections -> Seq(Items)] /\ wire'[d][z] = <<>>
             /\ \A y \in Connections \ {z} : wire'[d][y] = wire[d][y]
  <2>. DEFINE u == wire[d]
  <2>1. wire'[d] = [u EXCEPT ![z] = <<>>] /\ u \in [Connections -> Seq(Items)] /\ <<>> \in Seq(Items)
    BY <1>2
  <2>. HIDE DEF u
  <2>2. wire'[d] \in [Connections -> Seq(Items)] /\ wire'[d][z] = <<>>
    BY <2>1
  <2>3. \A y \in Connections \ {z} : wire'[d][y] = u[y]
    BY <2>1
  <2>. QED
    BY <2>2, <2>3 DEF u
<1>4. wire' \in [Sides -> [Connections -> Seq(Items)]]
  BY <1>2, <1>3
<1>5. UNCHANGED <<setup, SenderHalf, ReceiverHalf>>
  BY <1>1 DEF SenderHalf, ReceiverHalf
<1>6. TypeOK'
  BY <1>1, <1>4 DEF TypeOK, Items, receiving
<1>7. DOMAIN <<>> = {}
  OBVIOUS
<1>8. NumbersOut'
  <2>1. \A y \in Connections : \A k \in DOMAIN wire'["sender"][y] : wire'["sender"][y][k].v \in Nat
    BY <1>1, <1>3, <1>7, SideFacts DEF NumbersOut
  <2>. QED
    BY <1>1, <2>1 DEF NumbersOut, Connections
<1>9. Holding'
  BY <1>1, SetupKept DEF Inv, Holding
<1>10. SenderState' /\ TaskState("sender")' /\ ReceiverState' /\ TaskState("receiver")'
  BY <1>1, <1>5, SenderKept, ReceiverKept DEF Inv, receiving
<1>11. ReadAddsUp' /\ SeriesAddsUp' /\ Warming'
  BY <1>5, ReceiverKept DEF Inv
<1>12. WireOut'
  <2>1. SUFFICES ASSUME SameControl, pc["receiver"] # "error" PROVE WireOut'
    BY <1>1, SetupKept DEF WireOut
  <2>2. PICK c \in Connections : c = Control("sender")
    BY <1>1, ListFacts, SideFacts DEF TypeOK
  <2>3. Control("sender")' = c /\ \A y \in Connections : Sent(y)' = Sent(y) /\ Read(y)' = Read(y)
    BY <1>5, <2>2, SetupKept, SenderKept, ReceiverKept
  <2>4. \A k \in DOMAIN wire["sender"][c] : wire["sender"][c][k] = FromSender(Read(c) + k)
    BY <1>1, <2>1, <2>2 DEF WireOut
  <2>5. \A k \in DOMAIN wire'["sender"][c] : wire'["sender"][c][k] = FromSender(Read(c) + k)
    BY <1>3, <1>7, <2>4, SideFacts
  <2>6. \A k \in DOMAIN wire'["sender"][c] : FromSender(Read(c) + k)' = FromSender(Read(c) + k)
    <3>1. wire'["sender"][c] \in Seq(Items)
      BY <1>3, SideFacts
    <3>2. ASSUME NEW k \in DOMAIN wire'["sender"][c] PROVE FromSender(Read(c) + k)' = FromSender(Read(c) + k)
      <4>1. Read(c)' = Read(c)
        BY <2>3
      <4>2. setup' = setup /\ Gross' = Gross /\ Read(c)' = Read(c)
        BY <1>1, <2>3, SetupKept
      <4>. QED
        BY <4>2 DEF FromSender, Param
    <3>. QED
      BY <3>2
  <2>7. pc["sender"] # "error" => \A y \in Connections \ broken' : Len(wire'["sender"][y]) = Sent(y) - Read(y)
    BY <1>1, <1>3, <2>1, SideFacts DEF WireOut
  <2>8. \A k \in DOMAIN wire'["sender"][c] : wire'["sender"][c][k] = FromSender(Read(c) + k)'
    BY <2>5, <2>6
  <2>9. pc'["sender"] # "error" => \A y \in (Connections \ broken)' : Len(wire'["sender"][y]) = Sent(y)' - Read(y)'
    BY <1>1, <2>3, <2>7 DEF Connections
  <2>10. c = Control("sender")'
    BY <2>3
  <2>. QED
    BY <2>8, <2>9, <2>10 DEF WireOut
<1>13. WireBack'
  <2>1. \A y \in Connections \ {Control("receiver")} : wire'["receiver"][y] = <<>>
    BY <1>1, <1>3, SideFacts DEF WireBack
  <2>2. \A y \in (Connections \ {Control("receiver")})' : wire'["receiver"][y] = <<>>
    BY <1>1, <2>1, SetupKept DEF Connections
  <2>3. ASSUME SameControl, pc["sender"] # "error"
        PROVE  LET line == wire'["receiver"][Control("sender")]
               IN /\ \A k \in DOMAIN line : line[k] = FromReceiver(Taken + k)
                  /\ \A k \in DOMAIN got : got[k] = Report[k]
                  /\ pc["receiver"] # "error" =>
                       /\ Taken + Len(line) <= Written
                       /\ Control("sender") \notin broken' => Taken + Len(line) = Written
                  /\ pc["receiver"] = "error" => Taken + Len(line) < Total
    <3>1. PICK c \in Connections : c = Control("sender")
      BY <1>1, ListFacts, SideFacts DEF TypeOK
    <3>2. /\ \A k \in DOMAIN wire["receiver"][c] : wire["receiver"][c][k] = FromReceiver(Taken + k)
          /\ \A k \in DOMAIN got : got[k] = Report[k]
          /\ pc["receiver"] # "error" =>
               /\ Taken + Len(wire["receiver"][c]) <= Written
               /\ c \notin broken => Taken + Len(wire["receiver"][c]) = Written
          /\ pc["receiver"] = "error" => Taken + Len(wire["receiver"][c]) < Total
      BY <1>1, <2>3, <3>1 DEF WireBack
    <3>3. CASE c = z
      <4>1. wire'["receiver"][c] = <<>> /\ c \in broken' /\ Len(wire'["receiver"][c]) = 0
        BY <1>1, <1>3, <3>3, SideFacts
      <4>2. Len(wire["receiver"][c]) \in Nat
        BY <1>2, SideFacts, LenProperties
      <4>3. Taken \in Int /\ Written \in Int /\ Total \in Int
        BY <1>1, CountTypes
      <4>4. /\ pc["receiver"] # "error" => Taken + Len(wire'["receiver"][c]) <= Written
            /\ pc["receiver"] = "error" => Taken + Len(wire'["receiver"][c]) < Total
        BY <3>2, <4>1, <4>2, <4>3
      <4>. QED
        BY <1>7, <3>1, <3>2, <4>1, <4>4
    <3>4. CASE c # z
      <4>1. wire'["receiver"][c] = wire["receiver"][c] /\ (c \notin broken' <=> c \notin broken)
        BY <1>1, <1>3, <3>4, SideFacts
      <4>. QED
        BY <3>1, <3>2, <4>1
    <3>. QED
      BY <3>3, <3>4
  <2>4. /\ Taken' = Taken /\ Written' = Written /\ Total' = Total /\ Report' = Report
        /\ Control("sender")' = Control("sender") /\ (SameControl' <=> SameControl)
    BY <1>1, <1>5, SetupKept, SenderKept, ReceiverKept DEF Report, receiving
  <2>5. \A k \in Int : FromReceiver(Taken + k)' = FromReceiver(Taken + k)
    BY <1>1, <2>4 DEF FromReceiver
  <2>6. \A k \in DOMAIN wire'["receiver"][Control("sender")] : k \in Int
    <3>1. PICK c \in Connections : c = Control("sender")
      BY <1>1, ListFacts, SideFacts DEF TypeOK
    <3>2. wire'["receiver"][c] \in Seq(Items)
      BY <1>3, SideFacts
    <3>. QED
      BY <3>1, <3>2, LenProperties
  <2>. QED
    BY <1>1, <2>2, <2>3, <2>4, <2>5, <2>6 DEF WireBack
<1>14. Apart'
  <2>1. ~SameControl =>
          /\ \A y \in Connections : wire'["receiver"][y] = <<>>
          /\ \A k \in DOMAIN wire'["sender"][Control("receiver")] :
               wire'["sender"][Control("receiver")][k] = Payload
    <3>1. PICK c \in Connections : c = Control("receiver")
      BY <1>1, LineTypes, SideFacts
    <3>2. SUFFICES ASSUME ~SameControl
                   PROVE  /\ \A y \in Connections : wire'["receiver"][y] = <<>>
                          /\ \A k \in DOMAIN wire'["sender"][c] : wire'["sender"][c][k] = Payload
      BY <3>1
    <3>3. /\ \A y \in Connections : wire["receiver"][y] = <<>>
          /\ \A k \in DOMAIN wire["sender"][c] : wire["sender"][c][k] = Payload
      BY <1>1, <3>1, <3>2 DEF Apart
    <3>4. \A y \in Connections : wire'["receiver"][y] = <<>>
      BY <1>3, <3>3, SideFacts
    <3>5. \A k \in DOMAIN wire'["sender"][c] : wire'["sender"][c][k] = Payload
      BY <1>3, <1>7, <3>3, SideFacts
    <3>. QED
      BY <3>4, <3>5
  <2>2. Connections' = Connections
    BY DEF Connections
  <2>. QED
    BY <1>1, <2>1, <2>2, SetupKept DEF Apart, receiving
<1>15. Unfailing'
  BY <1>1 DEF Unfailing, Sound
<1>. QED
  BY <1>6, <1>8, <1>9, <1>10, <1>11, <1>12, <1>13, <1>14, <1>15 DEF Inv

\* The invariant holds at the start,
LEMMA InvInit ==
  ASSUME Init
  PROVE  Inv
<1>1. /\ setup \in Setups
      /\ wire = [d \in Sides |-> [z \in Connections |-> <<>>]]
      /\ open = [d \in Sides |-> Range(List(d))]
      /\ broken = {}
      /\ pc = [d \in Sides |-> "params"]
      /\ left = [d \in Sides |-> 3]
      /\ todo = [d \in Sides |-> [z \in Connections |-> 0]]
      /\ task = [d \in Sides |-> [z \in Connections |-> "idle"]]
      /\ param = <<>> /\ received = 0 /\ before = [z \in Connections |-> 0] /\ measured = -1
      /\ series = <<>> /\ sampled = 0 /\ got = <<>> /\ late = FALSE
  BY DEF Init
<1>2. /\ pc["sender"] = "params" /\ pc["receiver"] = "params"
      /\ left["sender"] = 3 /\ left["receiver"] = 3
      /\ \A z \in Connections : wire["sender"][z] = <<>> /\ wire["receiver"][z] = <<>>
  BY <1>1, SideFacts
<1>3. /\ \A d \in Sides : Range(List(d)) \subseteq Connections /\ Control(d) \in Connections
      /\ setup.rtt \in Nat
  BY <1>1, ListFacts, SideFacts
<1>4. /\ Len(<<>>) = 0 /\ DOMAIN <<>> = {} /\ <<>> \in Seq(Items) /\ <<>> \in Seq(Nat) /\ <<>> \in Seq(Int)
  OBVIOUS
<1>5. TypeOK
  <2>1. wire \in [Sides -> [Connections -> Seq(Items)]]
    BY <1>1, <1>4
  <2>2. open \in [Sides -> SUBSET Connections]
    BY <1>1, <1>3
  <2>3. /\ pc \in [Sides -> {"params", "ping", "pong", "go", "tasks", "result", "ok", "error"}]
        /\ pc["receiver"] # "pong" /\ left \in [Sides -> Nat]
    BY <1>1, <1>2
  <2>4. /\ todo \in [Sides -> [Connections -> Nat]]
        /\ task \in [Sides -> [Connections -> {"idle", "run", "mark", "ok", "error"}]]
        /\ before \in [Connections -> Nat]
    BY <1>1
  <2>5. received \in Nat /\ measured \in Nat \cup {-1} /\ sampled \in 0 .. received
    <3>1. received = 0 /\ sampled = 0 /\ measured = -1
      BY <1>1
    <3>. QED
      BY <3>1
  <2>7. late \in BOOLEAN
    <3>1. late = FALSE
      BY <1>1
    <3>. QED
      BY <3>1, Zenon
  <2>6. param \in Seq(Nat) /\ series \in Seq(Nat) /\ got \in Seq(Int)
    BY <1>1, <1>4
  <2>. QED
    BY <1>1, <2>1, <2>2, <2>3, <2>4, <2>5, <2>6, <2>7 DEF TypeOK, Items
<1>6. NumbersOut
  BY <1>2, <1>4 DEF NumbersOut
<1>7. Holding
  BY <1>1 DEF Holding
<1>8. SenderState
  BY <1>1, <1>2 DEF SenderState
<1>9. ReceiverState
  BY <1>1, <1>2, <1>4 DEF ReceiverState
<1>10. ~Working("sender") /\ ~Working("receiver")
  BY <1>2 DEF Working
<1>11. TaskState("sender") /\ TaskState("receiver") /\ ReadAddsUp
  BY <1>10 DEF TaskState, ReadAddsUp
<1>12. WireOut
  <2>1. FramesSent = 0 /\ FramesRead = 0
    BY <1>2 DEF FramesSent, FramesRead
  <2>2. \A y \in Connections : Sent(y) = 0 /\ Read(y) = 0
    BY <1>10, <2>1 DEF Sent, Read, Units
  <2>. QED
    BY <1>2, <1>3, <1>4, <2>2, SideFacts DEF WireOut
<1>13. WireBack
  <2>1. Taken = 0 /\ Written = 0
    BY <1>2 DEF Taken, Written
  <2>. QED
    BY <1>1, <1>2, <1>3, <1>4, <2>1, SideFacts DEF WireBack
<1>14. Apart
  BY <1>1, <1>2, <1>3, <1>4, SideFacts DEF Apart
<1>15. SeriesAddsUp
  <2>. DEFINE g == [i \in 0 .. 0 |-> 0]
  <2>1. g \in [0 .. Len(series) -> Int] /\ g[0] = 0 /\ g[Len(series)] = sampled
    BY <1>1, <1>4
  <2>2. \A i \in 1 .. Len(series) : g[i] = g[i - 1] + series[i]
    BY <1>1, <1>4
  <2>. HIDE DEF g
  <2>. QED
    BY <2>1, <2>2 DEF SeriesAddsUp
<1>16. Warming
  <2>1. IsFiniteSet(Marking) /\ Cardinality(Marking) \in Nat
    <3>1. Marking \in SUBSET Range(List("receiver"))
      BY DEF Marking
    <3>. QED
      BY <1>5, <3>1, TasksCounted
  <2>2. BLOCK * Cardinality(Marking) \in Nat /\ WARM_UP \in Nat \ {0}
    BY <2>1, Blocks, ConstantFacts
  <2>. QED
    BY <1>1, <2>2 DEF Warming
<1>17. Unfailing
  BY <1>1, <1>3 DEF Unfailing
<1>. QED
  BY <1>5, <1>6, <1>7, <1>8, <1>9, <1>11, <1>12, <1>13, <1>14, <1>15, <1>16, <1>17 DEF Inv

\* is kept by every step,
LEMMA InvStep ==
  ASSUME Inv, [Next]_vars
  PROVE  Inv'
<1>1. CASE Sender
  <2>1. CASE SParams \/ SPing \/ SPong \/ SGo \/ SWritten \/ SResult
    BY <2>1, SParamsKeeps, SPingKeeps, SPongKeeps, SGoKeeps, SWrittenKeeps, SResultKeeps
  <2>2. CASE \E z \in Range(List("sender")) : SWrite(z)
    BY <2>2, SWriteKeeps
  <2>3. CASE Both("sender")
    <3>1. CASE \E z \in Range(List("sender")) : TaskFails("sender", z) \/ TaskDone("sender", z)
      BY <3>1, SenderTaskFailsKeeps, SenderTaskDoneKeeps
    <3>2. CASE \/ TasksFailed("sender") \/ WriteFails("sender") \/ ReadFails("sender")
               \/ Timeout("sender") \/ Unexpected("sender")
      BY <3>2, SenderFailsKeeps
    <3>. QED
      BY <2>3, <3>1, <3>2 DEF Both
  <2>. QED
    BY <1>1, <2>1, <2>2, <2>3 DEF Sender
<1>2. CASE Receiver
  <2>1. CASE RParams \/ RPong \/ RGo \/ RDone \/ RResult
    BY <2>1, RParamsKeeps, RPongKeeps, RGoKeeps, RDoneKeeps, RResultKeeps
  <2>2. CASE \E z \in Range(List("receiver")) : RRead(z) \/ RMark(z)
    BY <2>2, RReadKeeps, RMarkKeeps
  <2>3. CASE \E z \in Range(List("receiver")) : TaskFails("receiver", z) \/ TaskDone("receiver", z)
    BY <2>3, ReceiverTaskEndsKeeps
  <2>4. CASE \/ TasksFailed("receiver") \/ WriteFails("receiver") \/ ReadFails("receiver")
             \/ Timeout("receiver") \/ Unexpected("receiver") \/ RPongFails
    BY <2>4, ReceiverFailsKeeps
  <2>. QED
    BY <1>2, <2>1, <2>2, <2>3, <2>4 DEF Receiver, Both
<1>3. CASE RSample
  BY <1>3, RSampleKeeps
<1>4. CASE \E z \in Connections : ~Ended /\ (Break(z) \/ Reset(z))
  BY <1>4, LoseKeeps DEF Break, Reset
<1>5. CASE UNCHANGED vars
  <2>1. /\ setup' = setup /\ wire' = wire /\ open' = open /\ broken' = broken /\ pc' = pc /\ left' = left
        /\ todo' = todo /\ task' = task /\ param' = param /\ received' = received /\ before' = before
        /\ measured' = measured /\ series' = series /\ sampled' = sampled /\ got' = got /\ late' = late
    BY <1>5 DEF vars
  <2>2. UNCHANGED <<setup, broken, SenderHalf, ReceiverHalf>> /\ Connections' = Connections
    BY <2>1 DEF SenderHalf, ReceiverHalf, receiving, Connections
  <2>3. TypeOK'
    BY <2>1, <2>2 DEF Inv, TypeOK
  <2>4. NumbersOut' /\ Holding' /\ Apart' /\ Unfailing'
    <3>1. NumbersOut'
      BY <2>1, <2>2 DEF Inv, NumbersOut
    <3>2. Holding'
      BY <2>1, SetupKept DEF Inv, Holding
    <3>3. Apart'
      BY <2>1, <2>2, SetupKept DEF Inv, Apart
    <3>4. Unfailing'
      BY <2>1, SetupKept DEF Inv, Unfailing, Sound
    <3>. QED
      BY <3>1, <3>2, <3>3, <3>4
  <2>5. SenderState' /\ TaskState("sender")'
    BY <2>1, <2>2, SenderKept DEF Inv
  <2>6. ReceiverState' /\ TaskState("receiver")' /\ ReadAddsUp' /\ SeriesAddsUp' /\ Warming'
    BY <2>2, ReceiverKept DEF Inv
  <2>7. WireOut'
    <3>1. \A y \in Connections : Sent(y)' = Sent(y) /\ Read(y)' = Read(y)
      BY <2>2, SenderKept, ReceiverKept
    <3>. QED
      BY <2>1, <2>2, <3>1, OutKept DEF Inv
  <2>8. WireBack'
    <3>1. Taken' = Taken /\ got' = got
      BY <2>1, <2>2, SenderKept
    <3>. QED
      BY <2>1, <2>2, <3>1, BackKept DEF Inv
  <2>. QED
    BY <2>3, <2>4, <2>5, <2>6, <2>7, <2>8 DEF Inv
<1>. QED
  BY <1>1, <1>2, <1>3, <1>4, <1>5 DEF Next

\* and so holds always.
LEMMA Invariance == Spec => []Inv
<1>1. Init => Inv
  BY InvInit
<1>2. Inv /\ [Next]_vars => Inv'
  BY InvStep
<1>. QED
  BY <1>1, <1>2, PTL DEF Spec

----------------------------------------------------------------------------
(* The theorems.                                                           *)

\* Every variable keeps its type; in particular no side counts more units than its share
\* (todo stays a natural number) and no sample is taken of more than was received
\* (bench.rs:198-212, 299-309, 322-352).
THEOREM TypeCorrect == Spec => []TypeOK
<1>1. Inv => TypeOK
  BY DEF Inv
<1>. QED
  BY <1>1, Invariance, PTL

\* If both sides hold the same connections, none breaks and no frame is late, then neither side
\* fails: each finds the frame it expects, and the connection it writes to or reads from is
\* held by the other (bench.rs:127-162, 182-236, 272-284).
THEOREM FailureHasCauseHolds == Spec => []FailureHasCause
<1>1. Inv => FailureHasCause
  BY DEF Inv, Unfailing, Sound, FailureHasCause
<1>. QED
  BY <1>1, Invariance, PTL

\* A list's shares have a sum.
LEMMA SharesHaveASum ==
  ASSUME NEW l, l \in Seq(Range(l)), l # <<>>, IsInjective(l), NEW all \in Nat,
         NEW f, \A z \in Range(l) : f[z] = Share(l, all, z)
  PROVE  \E g : Sums(g, l, f)
<1>. DEFINE n == Len(l)
            q == all \div n
            m == all % n
            g == [i \in 0 .. n |-> i * q + IF i <= m THEN i ELSE m]
<1>1. n \in Nat \ {0} /\ q \in Nat /\ m \in Nat /\ m < n
  BY ShareFacts
<1>2. ASSUME NEW i \in 1 .. n PROVE f[l[i]] = q + IF i <= m THEN 1 ELSE 0
  <2>1. l[i] \in Range(l)
    BY LenProperties DEF Range
  <2>2. Share(l, all, l[i]) = q + IF i <= m THEN 1 ELSE 0
    BY ShareFacts
  <2>. QED
    BY <2>1, <2>2
<1>. HIDE DEF n, q, m
<1>3. \A i \in Int : i * q \in Int /\ (i - 1) * q \in Int /\ (i - 1) * q + q = i * q
  BY <1>1
<1>4. g \in [0 .. n -> Int] /\ g[0] = 0
  BY <1>1, <1>3
<1>5. ASSUME NEW i \in 1 .. n PROVE g[i] = g[i - 1] + f[l[i]]
  <2>1. i \in 0 .. n /\ i - 1 \in 0 .. n /\ i \in Int
    BY <1>1
  <2>. DEFINE a == (i - 1) * q
              b == i * q
  <2>2. /\ g[i] = b + (IF i <= m THEN i ELSE m)
        /\ g[i - 1] = a + IF i - 1 <= m THEN i - 1 ELSE m
    BY <2>1
  <2>3. a + q = b /\ a \in Int /\ b \in Int
    BY <1>3, <2>1
  <2>. HIDE DEF a, b, g
  <2>4. f[l[i]] = q + IF i <= m THEN 1 ELSE 0
    BY <1>2
  <2>5. i \in Int /\ m \in Int /\ q \in Int
    BY <1>1
  <2>6. CASE i <= m
    BY <2>2, <2>3, <2>4, <2>5, <2>6
  <2>7. CASE i = m + 1
    BY <2>2, <2>3, <2>4, <2>5, <2>7
  <2>8. CASE i > m + 1
    BY <2>2, <2>3, <2>4, <2>5, <2>8
  <2>. QED
    BY <2>5, <2>6, <2>7, <2>8
<1>6. Sums(g, l, f)
  BY <1>4, <1>5 DEF Sums, n
<1>. QED
  BY <1>6

\* A side whose tasks are through has done with all there was.
LEMMA SideDone ==
  ASSUME TypeOK, NEW d \in Sides, Working(d), TaskState(d),
         \A z \in Range(List(d)) : todo[d][z] = 0,
         NEW f, f = [z \in Connections |-> Units(d, z)]
  PROVE  /\ f \in [Connections -> Nat]
         /\ \A z \in Connections \ Range(List(d)) : f[z] = 0
         /\ \E g : Sums(g, List(d), f)
         /\ \A g : Sums(g, List(d), f) => g[Len(List(d))] = Gross
<1>. DEFINE l == List(d)
<1>1. /\ l \in Seq(Range(l)) /\ l # <<>> /\ IsInjective(l) /\ Gross \in Nat /\ Range(l) \subseteq Connections
  BY ListFacts DEF TypeOK
<1>2. \A z \in Range(l) : f[z] = Share(l, Gross, z) /\ f[z] \in Nat
  <2>1. ASSUME NEW z \in Range(List(d)) PROVE Units(d, z) = Share(List(d), Gross, z) /\ Units(d, z) \in Nat
    <3>1. /\ Units(d, z) = Share(List(d), Gross, z) - todo[d][z] /\ todo[d][z] = 0
          /\ Share(List(d), Gross, z) \in Nat
      BY WorkingFacts
    <3>. QED
      BY <3>1
  <2>. QED
    BY <1>1, <2>1
<1>3. \A z \in Connections \ Range(l) : f[z] = 0
  BY DEF Units
<1>4. f \in [Connections -> Nat]
  BY <1>2, <1>3
<1>5. l = List(d)
  OBVIOUS
<1>. HIDE DEF l
<1>6. \E g : Sums(g, l, f)
  BY <1>1, <1>2, SharesHaveASum
<1>7. \A g : Sums(g, l, f) => g[Len(l)] = Gross
  BY <1>1, <1>2, SharesAddUp
<1>. QED
  BY <1>3, <1>4, <1>5, <1>6, <1>7

\* The receiver reports when it has received everything.
LEMMA AllReceived ==
  ASSUME Inv, pc["receiver"] \in {"result", "ok"}
  PROVE  received = Gross
<1>1. /\ TypeOK /\ Working("receiver") /\ TaskState("receiver") /\ ReadAddsUp
      /\ \A z \in Range(List("receiver")) : todo["receiver"][z] = 0
  BY DEF Inv, TaskState, Working
<1>2. PICK f : f = [z \in Connections |-> Units("receiver", z)]
  OBVIOUS
<1>3. PICK g : Sums(g, List("receiver"), f) /\ g[Len(List("receiver"))] = received
  BY <1>1, <1>2 DEF ReadAddsUp
<1>4. g[Len(List("receiver"))] = Gross
  BY <1>1, <1>2, <1>3, SideDone, SideFacts
<1>. QED
  BY <1>3, <1>4

\* The measurement begins after the warm-up, less than one block for each connection later, and
\* has begun when the receiver reports (bench.rs:340-352).
THEOREM MeasuredAfterWarmUpHolds == Spec => []MeasuredAfterWarmUp
<1>1. ASSUME Inv PROVE MeasuredAfterWarmUp
  <2>1. measured # -1 => /\ measured >= WARM_UP
                         /\ measured < WARM_UP + BLOCK * Len(List("receiver"))
    BY <1>1 DEF Inv, Warming
  <2>2. ASSUME pc["receiver"] \in {"result", "ok"} PROVE measured # -1
    <3>1. received = Gross /\ Gross >= WARM_UP
      BY <1>1, <2>2, AllReceived, ListFacts, SideFacts DEF Inv, TypeOK
    <3>2. Marking = {}
      BY <1>1, <2>2 DEF Inv, TaskState, Working, Marking
    <3>. QED
      BY <1>1, <3>1, <3>2 DEF Inv, Warming
  <2>. QED
    BY <2>1, <2>2 DEF MeasuredAfterWarmUp
<1>. QED
  BY <1>1, Invariance, PTL

\* Parts that nowhere exceed those of another list, and make up as much, are the same.
LEMMA SameParts ==
  ASSUME NEW Names, NEW l, NEW m, NEW f, NEW h, NEW F, NEW H,
         Below(Names, l, m, f, h, F, H), F[Len(l)] = H[Len(m)]
  PROVE  \A z \in Names : f[z] = h[z]
<1>. SUFFICES ASSUME NEW z \in Names, f[z] # h[z] PROVE FALSE
  OBVIOUS
<1>1. /\ l \in Seq(Names) /\ m \in Seq(Names) /\ IsInjective(l) /\ IsInjective(m)
      /\ f \in [Names -> Nat] /\ h \in [Names -> Nat]
      /\ \A y \in Names : f[y] <= h[y]
      /\ \A y \in Names \ Range(m) : h[y] = 0
      /\ Sums(F, l, f) /\ Sums(H, m, h)
  BY DEF Below
<1>2. f[z] < h[z] /\ f[z] \in Nat /\ h[z] \in Nat /\ h[z] - 1 \in Nat
  BY <1>1
<1>3. z \in Range(m)
  BY <1>1, <1>2
<1>. DEFINE x == -1
            e == [h EXCEPT ![z] = h[z] - 1]
<1>4. /\ e \in [Names -> Nat] /\ e \in [Names -> Int] /\ e[z] = h[z] - 1
      /\ h \in [Names -> Int] /\ \A y \in Names \ {z} : e[y] = h[y]
  BY <1>1, <1>2
<1>5. x \in Int /\ h[z] - 1 = h[z] + x
  BY <1>2
<1>. HIDE DEF e
<1>6. \E E : Sums(E, m, e) /\ E[Len(m)] = H[Len(m)] + x
  <2>. HIDE DEF x
  <2>1. OnePartMore(Names, m, h, H, z, x, e)
    BY <1>1, <1>3, <1>4, <1>5 DEF OnePartMore
  <2>. QED
    BY <2>1, PartGrows
<1>7. PICK E : Sums(E, m, e) /\ E[Len(m)] = H[Len(m)] + x
  BY <1>6
<1>8. Below(Names, l, m, f, e, F, E)
  <2>1. ASSUME NEW y \in Names PROVE f[y] <= e[y]
    <3>1. CASE y = z
      BY <1>2, <1>4, <3>1
    <3>2. CASE y # z
      BY <1>1, <1>4, <3>2
    <3>. QED
      BY <3>1, <3>2
  <2>2. \A y \in Names \ Range(m) : e[y] = 0
    BY <1>1, <1>3, <1>4
  <2>. QED
    BY <1>1, <1>4, <1>7, <2>1, <2>2 DEF Below
<1>9. F[Len(l)] <= E[Len(m)]
  <2>1. Len(l) \in Nat /\ Dominates(Len(l))
    BY <1>1, LenProperties, Dominated
  <2>. QED
    BY <1>8, <2>1 DEF Dominates
<1>10. H[Len(m)] \in Int
  <2>1. Len(m) \in Nat
    BY <1>1, LenProperties
  <2>2. H \in [0 .. Len(m) -> Int]
    BY <1>1 DEF Sums
  <2>. QED
    BY <2>1, <2>2
<1>. QED
  BY <1>7, <1>9, <1>10

\* When the sender is through, and no connection broke, none carries anything of the measurement
\* any more, and both sides hold all of theirs, if a transfer follows (bench.rs:158-162): what the
\* receiver has read of each connection is what the sender has written to it, even if their
\* lists are not the same.
THEOREM StreamsCleanHolds == Spec => []StreamsClean
<1>1. ASSUME Inv PROVE StreamsClean
  <2>. SUFFICES ASSUME pc["sender"] = "ok", setup.then, broken = {}
                PROVE  /\ \A d \in Sides, z \in Connections : wire[d][z] = <<>>
                       /\ \A d \in Sides : open[d] = Range(List(d))
    BY DEF StreamsClean
  <2>. DEFINE ls == List("sender")
              lr == List("receiver")
              f == [z \in Connections |-> Units("receiver", z)]
              h == [z \in Connections |-> Units("sender", z)]
  <2>1. /\ TypeOK /\ WireOut /\ WireBack /\ Holding /\ TaskState("sender") /\ TaskState("receiver")
        /\ SameControl /\ pc["receiver"] = "ok" /\ wire["receiver"][Control("sender")] = <<>>
        /\ Working("sender") /\ Working("receiver")
        /\ \A d \in Sides : \A z \in Range(List(d)) : todo[d][z] = 0
    BY <1>1, ReceiverEndsFirst, SideFacts DEF Inv, TaskState, Working
  <2>2. \A d \in Sides : open[d] = Range(List(d))
    BY <2>1, SideFacts DEF Holding
  <2>3. \A z \in Connections : wire["receiver"][z] = <<>>
    BY <2>1 DEF WireBack, SameControl
  <2>4. FramesSent = 4 + setup.rtt /\ FramesRead = 4 + setup.rtt /\ setup.rtt \in Nat
    BY <2>1, ListFacts, SideFacts DEF FramesSent, FramesRead, TypeOK
  <2>5. ASSUME NEW z \in Connections
        PROVE  /\ Len(wire["sender"][z]) = h[z] - f[z] /\ Len(wire["sender"][z]) \in Nat
               /\ h[z] \in Int /\ f[z] \in Int
    <3>. DEFINE e == IF z = Control("sender") THEN 4 + setup.rtt ELSE 0
    <3>1. Sent(z) = Units("sender", z) + e /\ Read(z) = Units("receiver", z) + e /\ e \in Int
      BY <2>1, <2>4 DEF Sent, Read, SameControl
    <3>2. Len(wire["sender"][z]) = Sent(z) - Read(z)
      BY <2>1 DEF WireOut
    <3>3. Units("sender", z) \in Int /\ Units("receiver", z) \in Int
      BY <2>1, CountTypes, SideFacts
    <3>4. Len(wire["sender"][z]) \in Nat
      BY <2>1, SideFacts, LenProperties DEF TypeOK
    <3>. HIDE DEF e
    <3>. QED
      BY <3>1, <3>2, <3>3, <3>4
  <2>6. /\ f \in [Connections -> Nat] /\ h \in [Connections -> Nat]
        /\ \A z \in Connections \ Range(ls) : h[z] = 0
        /\ (\E F : Sums(F, lr, f)) /\ (\E H : Sums(H, ls, h))
        /\ \A F : Sums(F, lr, f) => F[Len(lr)] = Gross
        /\ \A H : Sums(H, ls, h) => H[Len(ls)] = Gross
    <3>. HIDE DEF f, h
    <3>1. /\ f \in [Connections -> Nat]
          /\ \E F : Sums(F, lr, f)
          /\ \A F : Sums(F, lr, f) => F[Len(lr)] = Gross
      BY <2>1, SideDone, SideFacts DEF f
    <3>2. /\ h \in [Connections -> Nat]
          /\ \A z \in Connections \ Range(ls) : h[z] = 0
          /\ \E H : Sums(H, ls, h)
          /\ \A H : Sums(H, ls, h) => H[Len(ls)] = Gross
      BY <2>1, SideDone, SideFacts DEF h
    <3>. QED
      BY <3>1, <3>2
  <2>7. ls \in Seq(Connections) /\ lr \in Seq(Connections) /\ IsInjective(ls) /\ IsInjective(lr)
    <3>1. ASSUME NEW d \in Sides PROVE List(d) \in Seq(Connections) /\ IsInjective(List(d))
      <4>1. List(d) \in Seq(Range(List(d))) /\ Range(List(d)) \subseteq Connections /\ IsInjective(List(d))
        BY <2>1, ListFacts DEF TypeOK
      <4>. QED
        BY <4>1, SeqMonotonic
    <3>. QED
      BY <3>1, SideFacts
  <2>. HIDE DEF f, h, ls, lr
  <2>8. \A z \in Connections : f[z] <= h[z]
    BY <2>5
  <2>9. PICK F, H : Sums(F, lr, f) /\ Sums(H, ls, h)
    BY <2>6
  <2>10. Below(Connections, lr, ls, f, h, F, H) /\ F[Len(lr)] = H[Len(ls)]
    BY <2>6, <2>7, <2>8, <2>9 DEF Below
  <2>11. \A z \in Connections : f[z] = h[z]
    BY <2>10, SameParts
  <2>12. ASSUME NEW z \in Connections PROVE wire["sender"][z] = <<>>
    <3>1. Len(wire["sender"][z]) = 0
      BY <2>5, <2>11
    <3>2. wire["sender"][z] \in Seq(Items)
      BY <2>1, LineTypes, SideFacts
    <3>. QED
      BY <3>1, <3>2, EmptySeq
  <2>. QED
    BY <2>2, <2>3, <2>12, SideFacts
<1>. QED
  BY <1>1, Invariance, PTL

----------------------------------------------------------------------------
(* The sum over a set that ResultDelivered takes of the series.            *)

\* The element CHOOSE takes first, and a sum over a set, one element after another.
Picked(s) == CHOOSE x \in s : TRUE
Summing(S, v, F) ==
  F = [s \in SUBSET S |-> IF s = {} THEN 0 ELSE v[Picked(s)] + F[s \ {Picked(s)}]]
SummingUpTo(S, v, k, F) ==
  /\ F \in [SUBSET S -> Int]
  /\ \A s \in SUBSET S : Cardinality(s) <= k =>
       F[s] = IF s = {} THEN 0 ELSE v[Picked(s)] + F[s \ {Picked(s)}]

\* Without the element picked a set is smaller by one.
Smaller(S) ==
  \A s \in SUBSET S :
    /\ Cardinality(s) \in Nat /\ (Cardinality(s) = 0 <=> s = {})
    /\ s # {} => /\ Picked(s) \in s /\ Picked(s) \in S
                 /\ s \ {Picked(s)} \in SUBSET S
                 /\ Cardinality(s \ {Picked(s)}) = Cardinality(s) - 1
                 /\ Cardinality(s) - 1 \in Nat

\* That is so of every finite set.
LEMMA PickedFacts ==
  ASSUME NEW S, IsFiniteSet(S)
  PROVE  Smaller(S)
<1>. SUFFICES ASSUME NEW s \in SUBSET S
              PROVE  /\ Cardinality(s) \in Nat /\ (Cardinality(s) = 0 <=> s = {})
                     /\ s # {} => /\ Picked(s) \in s /\ Picked(s) \in S
                                  /\ s \ {Picked(s)} \in SUBSET S
                                  /\ Cardinality(s \ {Picked(s)}) = Cardinality(s) - 1
                                  /\ Cardinality(s) - 1 \in Nat
  BY DEF Smaller
<1>1. IsFiniteSet(s)
  BY FS_Subset
<1>2. Cardinality(s) \in Nat /\ (Cardinality(s) = 0 <=> s = {})
  BY <1>1, FS_CardinalityType, FS_EmptySet
<1>3. ASSUME s # {} PROVE Picked(s) \in s
  BY <1>3 DEF Picked
<1>4. ASSUME s # {}, NEW x, x = Picked(s) PROVE Cardinality(s \ {x}) = Cardinality(s) - 1
  BY <1>1, <1>3, <1>4, FS_RemoveElement
<1>. QED
  BY <1>1, <1>2, <1>3, <1>4

\* What sums all sets of less than k elements can be extended to those of k,
LEMMA SummingOneMore ==
  ASSUME NEW S, IsFiniteSet(S), NEW v, \A x \in S : v[x] \in Int, NEW k \in Nat \ {0},
         NEW G, SummingUpTo(S, v, k - 1, G)
  PROVE  \E F : SummingUpTo(S, v, k, F)
<1>0. Smaller(S)
  BY PickedFacts
<1>. DEFINE F == [s \in SUBSET S |-> IF Cardinality(s) <= k - 1 THEN G[s]
                                     ELSE v[Picked(s)] + G[s \ {Picked(s)}]]
<1>1. G \in [SUBSET S -> Int]
  BY DEF SummingUpTo
<1>2. \A s \in SUBSET S : F[s] = IF Cardinality(s) <= k - 1 THEN G[s]
                                 ELSE v[Picked(s)] + G[s \ {Picked(s)}]
  OBVIOUS
<1>3. F \in [SUBSET S -> Int]
  <2>1. ASSUME NEW s \in SUBSET S
        PROVE  (IF Cardinality(s) <= k - 1 THEN G[s] ELSE v[Picked(s)] + G[s \ {Picked(s)}]) \in Int
    <3>1. CASE Cardinality(s) <= k - 1
      BY <1>1, <3>1
    <3>2. CASE ~(Cardinality(s) <= k - 1)
      <4>0. Cardinality(s) \in Nat /\ (Cardinality(s) = 0 <=> s = {})
        BY <1>0 DEF Smaller
      <4>1. s # {}
        BY <3>2, <4>0
      <4>2. v[Picked(s)] \in Int /\ G[s \ {Picked(s)}] \in Int
        BY <1>0, <1>1, <4>1 DEF Smaller
      <4>. QED
        BY <3>2, <4>2
    <3>. QED
      BY <3>1, <3>2
  <2>. QED
    BY <2>1
<1>. HIDE DEF F
<1>4. ASSUME NEW s \in SUBSET S, Cardinality(s) <= k
      PROVE  F[s] = IF s = {} THEN 0 ELSE v[Picked(s)] + F[s \ {Picked(s)}]
  <2>1. CASE s = {}
    <3>0. Cardinality(s) \in Nat /\ (Cardinality(s) = 0 <=> s = {})
      BY <1>0 DEF Smaller
    <3>1. Cardinality(s) = 0
      BY <2>1, <3>0
    <3>2. F[s] = G[s]
      <4>1. Cardinality(s) <= k - 1
        BY <3>1
      <4>. QED
        BY <1>2, <4>1
    <3>3. G[s] = 0
      BY <2>1, <3>1 DEF SummingUpTo
    <3>. QED
      BY <2>1, <3>2, <3>3
  <2>2. CASE s # {}
    <3>. DEFINE r == s \ {Picked(s)}
    <3>1. r \in SUBSET S /\ Cardinality(r) = Cardinality(s) - 1 /\ Cardinality(s) \in Nat
      BY <1>0, <2>2 DEF Smaller
    <3>. HIDE DEF r
    <3>2. Cardinality(r) <= k - 1
      BY <1>4, <3>1
    <3>3. F[r] = G[r]
      BY <1>2, <3>1, <3>2
    <3>4. F[s] = v[Picked(s)] + G[r]
      <4>1. CASE Cardinality(s) <= k - 1
        <5>1. F[s] = G[s]
          BY <1>2, <4>1
        <5>2. G[s] = v[Picked(s)] + G[r]
          BY <2>2, <4>1 DEF SummingUpTo, r
        <5>. QED
          BY <5>1, <5>2
      <4>2. CASE ~(Cardinality(s) <= k - 1)
        BY <1>2, <4>2 DEF r
      <4>. QED
        BY <4>1, <4>2
    <3>. QED
      BY <2>2, <3>3, <3>4 DEF r
  <2>. QED
    BY <2>1, <2>2
<1>5. SummingUpTo(S, v, k, F)
  BY <1>3, <1>4 DEF SummingUpTo
<1>. QED
  BY <1>5

\* so a function that sums all subsets exists,
LEMMA SummingExists ==
  ASSUME NEW S, IsFiniteSet(S), NEW v, \A x \in S : v[x] \in Int
  PROVE  \E F : Summing(S, v, F)
<1>0. Smaller(S)
  BY PickedFacts
<1>. DEFINE bad == {k \in Nat : ~\E F : SummingUpTo(S, v, k, F)}
<1>1. \E F : SummingUpTo(S, v, 0, F)
  <2>. DEFINE F == [s \in SUBSET S |-> 0]
  <2>1. ASSUME NEW s \in SUBSET S, Cardinality(s) <= 0 PROVE s = {} /\ F[s] = 0
    <3>0. Cardinality(s) \in Nat /\ (Cardinality(s) = 0 <=> s = {})
      BY <1>0 DEF Smaller
    <3>1. Cardinality(s) = 0
      BY <2>1, <3>0
    <3>. QED
      BY <3>0, <3>1
  <2>2. F \in [SUBSET S -> Int]
    OBVIOUS
  <2>. HIDE DEF F
  <2>3. SummingUpTo(S, v, 0, F)
    BY <2>1, <2>2 DEF SummingUpTo
  <2>. QED
    BY <2>3
<1>2. bad = {}
  <2>1. SUFFICES ASSUME bad # {} PROVE FALSE
    OBVIOUS
  <2>2. PICK k \in bad : \A j \in bad : k <= j
    BY <2>1, Least
  <2>3. k \in Nat \ {0} /\ k - 1 \in Nat /\ k - 1 \notin bad
    BY <1>1, <2>2
  <2>4. PICK G : SummingUpTo(S, v, k - 1, G)
    BY <2>3
  <2>. QED
    BY <2>2, <2>3, <2>4, SummingOneMore
<1>3. Cardinality(S) \in Nat
  BY FS_CardinalityType
<1>4. PICK F : SummingUpTo(S, v, Cardinality(S), F)
  BY <1>2, <1>3
<1>5. ASSUME NEW s \in SUBSET S
      PROVE  F[s] = IF s = {} THEN 0 ELSE v[Picked(s)] + F[s \ {Picked(s)}]
  <2>1. Cardinality(s) <= Cardinality(S)
    BY FS_Subset
  <2>. QED
    BY <1>4, <2>1 DEF SummingUpTo
<1>6. F = [s \in SUBSET S |-> F[s]]
  BY <1>4 DEF SummingUpTo
<1>7. Summing(S, v, F)
  BY <1>5, <1>6 DEF Summing
<1>. QED
  BY <1>7

\* and there is only one.
LEMMA SummingIsOne ==
  ASSUME NEW S, IsFiniteSet(S), NEW v, \A x \in S : v[x] \in Int, NEW F, NEW G, Summing(S, v, F), Summing(S, v, G)
  PROVE  F = G
<1>0. Smaller(S)
  BY PickedFacts
<1>1. \A s \in SUBSET S : /\ F[s] = IF s = {} THEN 0 ELSE v[Picked(s)] + F[s \ {Picked(s)}]
                          /\ G[s] = IF s = {} THEN 0 ELSE v[Picked(s)] + G[s \ {Picked(s)}]
  BY DEF Summing
<1>. DEFINE bad == {k \in Nat : \E s \in SUBSET S : Cardinality(s) = k /\ F[s] # G[s]}
<1>2. bad = {}
  <2>1. SUFFICES ASSUME bad # {} PROVE FALSE
    OBVIOUS
  <2>2. PICK k \in bad : \A j \in bad : k <= j
    BY <2>1, Least
  <2>3. PICK s \in SUBSET S : Cardinality(s) = k /\ F[s] # G[s]
    BY <2>2
  <2>4. s # {}
    BY <1>1, <2>3
  <2>. DEFINE r == s \ {Picked(s)}
  <2>5. r \in SUBSET S /\ Cardinality(r) = k - 1 /\ k - 1 \in Nat
    BY <1>0, <2>3, <2>4 DEF Smaller
  <2>6. F[s] = v[Picked(s)] + F[r] /\ G[s] = v[Picked(s)] + G[r]
    BY <1>1, <2>4
  <2>. HIDE DEF r
  <2>7. k - 1 \notin bad /\ k \in Nat
    BY <2>2, <2>5
  <2>8. F[r] = G[r]
    BY <2>5, <2>7
  <2>. QED
    BY <2>3, <2>6, <2>8
<1>3. ASSUME NEW s \in SUBSET S PROVE F[s] = G[s]
  <2>1. Cardinality(s) \in Nat
    BY <1>0 DEF Smaller
  <2>. QED
    BY <1>2, <2>1
<1>4. F = [s \in SUBSET S |-> F[s]] /\ G = [s \in SUBSET S |-> G[s]]
  BY DEF Summing
<1>. QED
  BY <1>3, <1>4

\* The same parts in the same order have one sum.
LEMMA SumsAreOne ==
  ASSUME NEW l, NEW f, NEW g, NEW h, Sums(g, l, f), Sums(h, l, f), Len(l) \in Nat
  PROVE  g[Len(l)] = h[Len(l)]
<1>. DEFINE n == Len(l)
            bad == {i \in 0 .. n : g[i] # h[i]}
<1>1. n \in Nat /\ g[0] = 0 /\ h[0] = 0
      /\ \A i \in 1 .. n : g[i] = g[i - 1] + f[l[i]] /\ h[i] = h[i - 1] + f[l[i]]
  BY DEF Sums
<1>. HIDE DEF n
<1>2. bad = {}
  <2>1. SUFFICES ASSUME bad # {} PROVE FALSE
    OBVIOUS
  <2>2. bad \in SUBSET Nat
    BY <1>1
  <2>3. PICK i \in bad : \A j \in bad : i <= j
    BY <2>1, <2>2, Least
  <2>4. i \in 1 .. n /\ i - 1 \in 0 .. n /\ i - 1 \notin bad
    BY <1>1, <2>3
  <2>5. g[i - 1] = h[i - 1] /\ g[i] # h[i]
    BY <2>3, <2>4
  <2>. QED
    BY <1>1, <2>4, <2>5
<1>3. g[n] = h[n]
  BY <1>1, <1>2
<1>. QED
  BY <1>3 DEF n

\* The sum over the set of a list's names is the sum along the list.
LEMMA SumsAgree ==
  ASSUME NEW S, IsFiniteSet(S), NEW v, \A x \in S : v[x] \in Int, NEW F, Summing(S, v, F),
         NEW l \in Seq(S), IsInjective(l), Range(l) = S, NEW g, Sums(g, l, v)
  PROVE  F[S] = g[Len(l)]
<1>0. Smaller(S)
  BY PickedFacts
<1>. DEFINE part(s) == [k \in S |-> IF k \in s THEN v[k] ELSE 0]
            Good(s) == \E H : Sums(H, l, part(s)) /\ H[Len(l)] = F[s]
            bad == {k \in Nat : \E s \in SUBSET S : Cardinality(s) = k /\ ~Good(s)}
<1>1. Len(l) \in Nat /\ \A i \in 1 .. Len(l) : l[i] \in S
  BY LenProperties, ElementOfSeq
<1>2. \A s \in SUBSET S : F[s] = IF s = {} THEN 0 ELSE v[Picked(s)] + F[s \ {Picked(s)}]
  BY DEF Summing
<1>3. Good({})
  <2>. DEFINE H == [i \in 0 .. Len(l) |-> 0]
  <2>1. H \in [0 .. Len(l) -> Int] /\ H[0] = 0 /\ H[Len(l)] = 0
    BY <1>1
  <2>2. ASSUME NEW i \in 1 .. Len(l) PROVE H[i] = H[i - 1] + part({})[l[i]]
    <3>1. H[i] = 0 /\ H[i - 1] = 0 /\ part({})[l[i]] = 0
      BY <1>1
    <3>. QED
      BY <3>1
  <2>3. F[{}] = 0
    BY <1>2
  <2>. HIDE DEF H, part
  <2>4. Sums(H, l, part({}))
    BY <2>1, <2>2 DEF Sums
  <2>. QED
    BY <2>1, <2>3, <2>4
<1>4. bad = {}
  <2>1. SUFFICES ASSUME bad # {} PROVE FALSE
    OBVIOUS
  <2>2. PICK k \in bad : \A j \in bad : k <= j
    BY <2>1, Least
  <2>3. PICK s \in SUBSET S : Cardinality(s) = k /\ ~Good(s)
    BY <2>2
  <2>4. s # {}
    BY <1>3, <2>3
  <2>5. PICK z : z = Picked(s)
    OBVIOUS
  <2>. DEFINE r == s \ {z}
  <2>6. z \in s /\ z \in S /\ r \in SUBSET S /\ Cardinality(r) = k - 1 /\ k - 1 \in Nat
    BY <1>0, <2>3, <2>4, <2>5 DEF Smaller
  <2>7. F[s] = v[z] + F[r]
    BY <1>2, <2>4, <2>5
  <2>. HIDE DEF Good, r
  <2>8. k - 1 \notin bad
    <3>1. k \in Nat /\ ~(k <= k - 1)
      BY <2>2, <2>6
    <3>. QED
      BY <2>2, <3>1
  <2>9. Good(r)
    BY <2>6, <2>8
  <2>. USE DEF Good, r
  <2>10. PICK H : Sums(H, l, part(r)) /\ H[Len(l)] = F[r]
    BY <2>9
  <2>. DEFINE f == part(r)
              h == part(s)
              x == v[z]
  <2>11. /\ f \in [S -> Int] /\ h \in [S -> Int] /\ x \in Int
         /\ (\A y \in S \ {z} : h[y] = f[y]) /\ f[z] = 0 /\ h[z] = x
    BY <2>6
  <2>12. \E K : Sums(K, l, h) /\ K[Len(l)] = H[Len(l)] + x
    <3>1. Sums(H, l, f)
      BY <2>10
    <3>. HIDE DEF f, h, x
    <3>2. h[z] = f[z] + x
      BY <2>11
    <3>3. OnePartMore(S, l, f, H, z, x, h)
      BY <2>6, <2>11, <3>1, <3>2 DEF OnePartMore
    <3>. QED
      BY <3>3, PartGrows
  <2>13. F[r] \in Int
    <3>1. H[Len(l)] \in Int
      BY <1>1, <2>10 DEF Sums
    <3>. QED
      BY <2>10, <3>1
  <2>. HIDE DEF part, r
  <2>14. Good(s)
    BY <2>7, <2>10, <2>11, <2>12, <2>13
  <2>. QED
    BY <2>3, <2>14
<1>5. Good(S)
  <2>1. Cardinality(S) \in Nat
    BY FS_CardinalityType
  <2>. QED
    BY <1>4, <2>1
<1>6. \A k \in S : part(S)[k] = v[k]
  OBVIOUS
<1>7. PICK H : Sums(H, l, part(S)) /\ H[Len(l)] = F[S]
  BY <1>5
<1>8. Sums(H, l, v)
  <2>. HIDE DEF part
  <2>. QED
    BY <1>1, <1>6, <1>7 DEF Sums
<1>. QED
  BY <1>1, <1>7, <1>8, SumsAreOne

\* Three values of the report come before those of the series.
LEMMA SeriesReported ==
  ASSUME TypeOK, SeriesAddsUp, Len(got) = 3 + Len(series), got = Report
  PROVE  MapThenSumSet(LAMBDA k : got[k], 4 .. Len(got)) = sampled
<1>. DEFINE m == Len(series)
            S == 4 .. Len(got)
            l == [i \in 1 .. m |-> i + 3]
<1>1. m \in Nat /\ Len(got) = 3 + m
      /\ (\A k \in 1 .. m : Report[3 + k] = series[k]) /\ \A k \in 1 .. 3 + m : Report[k] \in Int
  BY ReportFacts, LenProperties DEF TypeOK
<1>2. \A k \in 1 .. m : got[3 + k] = series[k]
  BY <1>1
<1>. HIDE DEF m
<1>3. IsFiniteSet(S)
  <2>1. 4 \in Int /\ Len(got) \in Int
    BY <1>1
  <2>. QED
    BY <2>1, FS_Interval
<1>4. \A k \in S : got[k] \in Int
  BY <1>1
<1>5. /\ l \in [1 .. m -> S] /\ \A i \in 1 .. m : l[i] = i + 3
  BY <1>1
<1>6. l \in Seq(S) /\ Len(l) = m /\ DOMAIN l = 1 .. m
  <2>1. l \in Seq(S)
    BY <1>1
  <2>. HIDE DEF l, S
  <2>2. DOMAIN l = 1 .. m
    BY <1>5
  <2>. QED
    BY <1>1, <2>1, <2>2, LenProperties
<1>7. IsInjective(l)
  <2>. HIDE DEF l, S
  <2>. QED
    BY <1>1, <1>5, <1>6 DEF IsInjective
<1>8. Range(l) = S
  <2>1. ASSUME NEW k \in S PROVE k \in Range(l)
    <3>1. k - 3 \in 1 .. m /\ l[k - 3] = k
      BY <1>1
    <3>. QED
      BY <1>6, <3>1 DEF Range
  <2>2. ASSUME NEW k \in Range(l) PROVE k \in S
    BY <1>5, <1>6 DEF Range
  <2>. QED
    BY <2>1, <2>2
<1>9. PICK g : Sums(g, l, got) /\ g[Len(l)] = sampled
  <2>1. PICK g : /\ g \in [0 .. m -> Int] /\ g[0] = 0
                 /\ \A i \in 1 .. m : g[i] = g[i - 1] + series[i]
                 /\ g[m] = sampled
    BY DEF SeriesAddsUp, m
  <2>2. ASSUME NEW i \in 1 .. m PROVE got[l[i]] = series[i]
    <3>1. l[i] = i + 3 /\ got[3 + i] = series[i] /\ i + 3 = 3 + i
      BY <1>1, <1>2, <1>5
    <3>. QED
      BY <3>1
  <2>. HIDE DEF l
  <2>3. Sums(g, l, got)
    BY <1>6, <2>1, <2>2 DEF Sums
  <2>. QED
    BY <1>6, <2>1, <2>3
<1>. HIDE DEF l
<1>10. PICK F : Summing(S, got, F)
  <2>. HIDE DEF S
  <2>. QED
    BY <1>3, <1>4, SummingExists
<1>11. F[S] = sampled
  <2>. HIDE DEF S
  <2>1. F[S] = g[Len(l)]
    BY <1>3, <1>4, <1>6, <1>7, <1>8, <1>9, <1>10, SumsAgree
  <2>. QED
    BY <1>9, <2>1
<1>12. F = CHOOSE G : G = [s \in SUBSET S |-> IF s = {} THEN 0
                          ELSE got[CHOOSE x \in s : TRUE] + G[s \ {CHOOSE x \in s : TRUE}]]
  <2>. HIDE DEF S
  <2>1. \A G : Summing(S, got, G) <=> G = F
    BY <1>3, <1>4, <1>10, SummingIsOne
  <2>. QED
    BY <2>1 DEF Summing, Picked
<1>13. MapThenSumSet(LAMBDA k : got[k], S) = F[S]
  BY <1>12, Zenon DEF MapThenSumSet, MapThenFoldSet
<1>. QED
  BY <1>11, <1>13

\* What the sender reports is what the receiver measured: the receiver is through and has
\* received everything, the sender has its report frame for frame, and the samples in it add
\* up to what was received at the last of them (bench.rs:229-240, 356-378).
THEOREM ResultDeliveredHolds == Spec => []ResultDelivered
<1>1. ASSUME Inv PROVE ResultDelivered
  <2>. SUFFICES ASSUME pc["sender"] = "ok"
                PROVE  /\ pc["receiver"] = "ok" /\ received = Gross /\ got = Report
                       /\ MapThenSumSet(LAMBDA k : got[k], 4 .. Len(got)) = sampled
    BY DEF ResultDelivered
  <2>1. /\ TypeOK /\ SeriesAddsUp /\ pc["receiver"] = "ok" /\ Len(got) = 3 + Len(series)
        /\ \A k \in DOMAIN got : got[k] = Report[k]
    BY <1>1, ReceiverEndsFirst DEF Inv
  <2>2. received = Gross
    BY <1>1, <2>1, AllReceived
  <2>3. got = Report
    <3>1. got \in Seq(Int) /\ Report \in Seq(Int) /\ Len(Report) = Len(got)
      BY <2>1, ReportFacts DEF TypeOK
    <3>2. \A k \in 1 .. Len(got) : got[k] = Report[k]
      BY <2>1, <3>1, LenProperties
    <3>. QED
      BY <3>1, <3>2, SeqEqual
  <2>. QED
    BY <2>1, <2>2, <2>3, SeriesReported
<1>. QED
  BY <1>1, Invariance, PTL
=============================================================================
