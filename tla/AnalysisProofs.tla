---------------------------- MODULE AnalysisProofs ----------------------------
(***************************************************************************)
(* Proofs about what the relay makes of a client's probes (NatAnalysis) and*)
(* of the analysis (Candidates), for every list of probes: what an analysis*)
(* comes to, that its range holds its prediction, and that the prediction  *)
(* is among the addresses the client's peer is told.                       *)
(***************************************************************************)
EXTENDS Candidates, FiniteSetTheorems, SequenceTheorems, WellFoundedInduction, TLAPS

----------------------------------------------------------------------------
(* The numbers of an analysis.                                             *)

\* A set of natural numbers has a least one.
LEMMA LeastNatural ==
  ASSUME NEW S \in SUBSET Nat, S # {}
  PROVE  \E x \in S : \A y \in S : x <= y
<1>. DEFINE Less == OpToRel(<, Nat)
<1>1. \E x \in S : \A y \in S : <<y, x>> \notin Less
  <2>1. IsWellFoundedOn(Less, Nat)
    BY NatLessThanWellFounded
  <2>. QED
    BY <2>1, WFMin
<1>2. \A x, y \in Nat : <<y, x>> \in Less <=> y < x
  BY DEF OpToRel
<1>. HIDE DEF Less
<1>3. PICK x \in S : \A y \in S : <<y, x>> \notin Less
  BY <1>1
<1>4. ASSUME NEW y \in S PROVE x <= y
  <2>1. x \in Nat /\ y \in Nat /\ ~(y < x)
    BY <1>2, <1>3
  <2>. QED
    BY <2>1
<1>. QED
  BY <1>4

\* Min and Max pick an element of a set of integers that is bounded on that side.
LEMMA MinFacts ==
  ASSUME NEW S \in SUBSET Int, S # {}, NEW b \in Int, \A x \in S : b <= x
  PROVE  Min(S) \in S /\ Min(S) \in Int /\ \A x \in S : Min(S) <= x
<1>. DEFINE T == {x - b : x \in S}
<1>1. T \in SUBSET Nat /\ T # {}
  <2>1. \A x \in S : x - b \in Nat
    OBVIOUS
  <2>2. PICK x \in S : TRUE
    OBVIOUS
  <2>3. x - b \in T
    OBVIOUS
  <2>. QED
    BY <2>1, <2>3
<1>2. PICK t \in T : \A u \in T : t <= u
  BY <1>1, LeastNatural
<1>3. PICK x \in S : t = x - b
  OBVIOUS
<1>4. ASSUME NEW y \in S PROVE x <= y
  <2>1. y - b \in T
    OBVIOUS
  <2>2. x - b <= y - b
    BY <1>2, <1>3, <2>1
  <2>. QED
    BY <2>2
<1>5. \E z \in S : \A y \in S : z =< y
  BY <1>4
<1>. QED
  BY <1>5 DEF Min

\* The same for the greatest.
LEMMA MaxFacts ==
  ASSUME NEW S \in SUBSET Int, S # {}, NEW b \in Int, \A x \in S : x <= b
  PROVE  Max(S) \in S /\ Max(S) \in Int /\ \A x \in S : x <= Max(S)
<1>. DEFINE T == {b - x : x \in S}
<1>1. T \in SUBSET Nat /\ T # {}
  <2>1. \A x \in S : b - x \in Nat
    OBVIOUS
  <2>2. PICK x \in S : TRUE
    OBVIOUS
  <2>3. b - x \in T
    OBVIOUS
  <2>. QED
    BY <2>1, <2>3
<1>2. PICK t \in T : \A u \in T : t <= u
  BY <1>1, LeastNatural
<1>3. PICK x \in S : t = b - x
  OBVIOUS
<1>4. ASSUME NEW y \in S PROVE y <= x
  <2>1. b - y \in T
    OBVIOUS
  <2>2. b - x <= b - y
    BY <1>2, <1>3, <2>1
  <2>. QED
    BY <2>2
<1>5. \E z \in S : \A y \in S : z >= y
  BY <1>4
<1>. QED
  BY <1>5 DEF Max

\* Min and Max of two numbers.
LEMMA OfTwo ==
  ASSUME NEW a \in Int, NEW b \in Int
  PROVE  /\ Max({a, b}) = IF a >= b THEN a ELSE b
         /\ Min({a, b}) = IF a <= b THEN a ELSE b
<1>1. Max({a, b}) \in {a, b} /\ a <= Max({a, b}) /\ b <= Max({a, b})
  <2>1. {a, b} \in SUBSET Int /\ {a, b} # {} /\ a \in {a, b} /\ b \in {a, b}
    OBVIOUS
  <2>2. \E c \in Int : \A x \in {a, b} : x <= c
    <3>1. CASE a <= b
      BY <3>1
    <3>2. CASE b <= a
      BY <3>2
    <3>. QED
      BY <3>1, <3>2
  <2>. QED
    BY <2>1, <2>2, MaxFacts
<1>2. Min({a, b}) \in {a, b} /\ Min({a, b}) <= a /\ Min({a, b}) <= b
  <2>1. {a, b} \in SUBSET Int /\ {a, b} # {} /\ a \in {a, b} /\ b \in {a, b}
    OBVIOUS
  <2>2. \E c \in Int : \A x \in {a, b} : c <= x
    <3>1. CASE a <= b
      BY <3>1
    <3>2. CASE b <= a
      BY <3>2
    <3>. QED
      BY <3>1, <3>2
  <2>. QED
    BY <2>1, <2>2, MinFacts
<1>. QED
  BY <1>1, <1>2

\* Min and Max of three.
LEMMA OfThree ==
  ASSUME NEW a \in Int, NEW b \in Int, NEW c \in Int
  PROVE  /\ Max({a, b, c}) \in {a, b, c} /\ Max({a, b, c}) \in Int
         /\ a <= Max({a, b, c}) /\ b <= Max({a, b, c}) /\ c <= Max({a, b, c})
         /\ Min({a, b, c}) \in {a, b, c} /\ Min({a, b, c}) \in Int
         /\ Min({a, b, c}) <= a /\ Min({a, b, c}) <= b /\ Min({a, b, c}) <= c
<1>. DEFINE S == {a, b, c}
<1>1. S \in SUBSET Int /\ S # {} /\ a \in S /\ b \in S /\ c \in S
  OBVIOUS
<1>2. \E d \in Int : \A x \in S : x <= d
  <2>. DEFINE m == IF a >= b THEN a ELSE b
              d == IF m >= c THEN m ELSE c
  <2>1. d \in Int /\ a <= d /\ b <= d /\ c <= d
    OBVIOUS
  <2>. HIDE DEF d
  <2>. QED
    BY <2>1
<1>3. \E d \in Int : \A x \in S : d <= x
  <2>. DEFINE m == IF a <= b THEN a ELSE b
              d == IF m <= c THEN m ELSE c
  <2>1. d \in Int /\ d <= a /\ d <= b /\ d <= c
    OBVIOUS
  <2>. HIDE DEF d
  <2>. QED
    BY <2>1
<1>4. Max(S) \in S /\ Max(S) \in Int /\ \A x \in S : x <= Max(S)
  <2>. HIDE DEF S
  <2>. QED
    BY <1>1, <1>2, MaxFacts
<1>5. Min(S) \in S /\ Min(S) \in Int /\ \A x \in S : Min(S) <= x
  <2>. HIDE DEF S
  <2>. QED
    BY <1>1, <1>3, MinFacts
<1>. QED
  BY <1>1, <1>4, <1>5

\* Counting up along a sequence: what holds of the start and passes on, holds throughout.
\* (Upto says that g is the function of the sums of the first elements.)
Upto(g, s, n) == g = [k \in 0 .. n |-> IF k = 0 THEN 0 ELSE g[k - 1] + s[k]]

\* A set of places that is not empty has a first one.
LEMMA FirstPlace ==
  ASSUME NEW n \in Nat, NEW S \in SUBSET (0 .. n), S # {}, 0 \notin S
  PROVE  \E k \in S : k - 1 \in 0 .. n /\ k - 1 \notin S /\ k \in 1 .. n
<1>1. S \in SUBSET Nat
  OBVIOUS
<1>2. PICK k \in S : \A y \in S : k <= y
  BY <1>1, LeastNatural
<1>3. k \in 1 .. n
  OBVIOUS
<1>4. k - 1 \notin S
  BY <1>2, <1>3
<1>. QED
  BY <1>3, <1>4

\* There are such sums.
LEMMA UptoExists ==
  ASSUME NEW s \in Seq(Int)
  PROVE  \E g : Upto(g, s, Len(s))
<1>. DEFINE P(n) == \E g \in [0 .. n -> Int] : Upto(g, s, n)
            Bad == {n \in 0 .. Len(s) : ~P(n)}
<1>1. P(0)
  <2>1. [k \in 0 .. 0 |-> 0] \in [0 .. 0 -> Int] /\ Upto([k \in 0 .. 0 |-> 0], s, 0)
    BY DEF Upto
  <2>. QED
    BY <2>1
<1>2. ASSUME NEW n \in 1 .. Len(s), P(n - 1) PROVE P(n)
  <2>1. PICK g \in [0 .. n - 1 -> Int] : Upto(g, s, n - 1)
    BY <1>2
  <2>. DEFINE f == [k \in 0 .. n |-> IF k = n THEN g[n - 1] + s[n] ELSE g[k]]
  <2>2. n \in Nat /\ n > 0 /\ s[n] \in Int /\ g[n - 1] \in Int
    OBVIOUS
  <2>3. f \in [0 .. n -> Int]
    BY <2>2
  <2>4. ASSUME NEW k \in 0 .. n PROVE f[k] = IF k = 0 THEN 0 ELSE f[k - 1] + s[k]
    <3>1. k # 0 => k - 1 \in 0 .. n - 1
      OBVIOUS
    <3>2. k # n => g[k] = IF k = 0 THEN 0 ELSE g[k - 1] + s[k]
      BY <2>1 DEF Upto
    <3>. QED
      BY <2>2, <3>1, <3>2
  <2>5. Upto(f, s, n)
    <3>. HIDE DEF f
    <3>1. f = [k \in 0 .. n |-> f[k]]
      BY <2>3
    <3>. QED
      BY <2>4, <3>1 DEF Upto
  <2>. HIDE DEF f
  <2>. QED
    BY <2>3, <2>5
<1>. HIDE DEF P
<1>3. Bad = {}
  <2>. SUFFICES ASSUME Bad # {} PROVE FALSE
    OBVIOUS
  <2>1. Len(s) \in Nat /\ Bad \in SUBSET (0 .. Len(s)) /\ 0 \notin Bad
    BY <1>1
  <2>. QED
    <3>1. PICK k \in Bad : k - 1 \in 0 .. Len(s) /\ k - 1 \notin Bad /\ k \in 1 .. Len(s)
      BY <2>1, FirstPlace
    <3>. QED
      BY <1>2, <3>1
<1>4. P(Len(s))
  BY <1>3
<1>. QED
  BY <1>4 DEF P

\* The total of integers is one.
LEMMA TotalType ==
  ASSUME NEW s \in Seq(Int)
  PROVE  Total(s) \in Int
<1>. DEFINE g == CHOOSE g : Upto(g, s, Len(s))
            Bad == {k \in 0 .. Len(s) : g[k] \notin Int}
<1>1. Upto(g, s, Len(s))
  BY UptoExists
<1>2. Total(s) = g[Len(s)]
  BY DEF Total, Upto
<1>. HIDE DEF g
<1>3. \A k \in 0 .. Len(s) : g[k] = IF k = 0 THEN 0 ELSE g[k - 1] + s[k]
  BY <1>1 DEF Upto
<1>4. Bad = {}
  <2>. SUFFICES ASSUME Bad # {} PROVE FALSE
    OBVIOUS
  <2>1. Len(s) \in Nat /\ Bad \in SUBSET (0 .. Len(s)) /\ 0 \notin Bad
    BY <1>3
  <2>2. PICK k \in Bad : k - 1 \in 0 .. Len(s) /\ k - 1 \notin Bad /\ k \in 1 .. Len(s)
    BY <2>1, FirstPlace
  <2>3. g[k - 1] \in Int /\ s[k] \in Int /\ g[k] = g[k - 1] + s[k]
    BY <1>3, <2>2
  <2>. QED
    BY <2>3
<1>. QED
  BY <1>2, <1>4

\* Rounding a quotient gives a whole number.
LEMMA RoundDivType ==
  ASSUME NEW a \in Int, NEW b \in Nat, b > 0
  PROVE  RoundDiv(a, b) \in Int
<1>1. a \div b \in Int
  OBVIOUS
<1>2. RoundDiv(a, b) \in {a \div b, a \div b + 1}
  BY DEF RoundDiv
<1>. QED
  BY <1>1, <1>2

\* Rounding what is not negative gives nothing negative.
LEMMA RoundDivOfNat ==
  ASSUME NEW a \in Nat, NEW b \in Nat, b > 0
  PROVE  RoundDiv(a, b) \in Nat
<1>1. a \div b \in Nat
  OBVIOUS
<1>2. RoundDiv(a, b) \in {a \div b, a \div b + 1}
  BY DEF RoundDiv
<1>. QED
  BY <1>1, <1>2

\* Twice a number, halved.
LEMMA RoundHalf ==
  ASSUME NEW x \in Int
  PROVE  RoundDiv(2 * x, 2) = x
<1>1. (2 * x) \div 2 = x /\ (2 * x) % 2 = 0
  OBVIOUS
<1>. QED
  BY <1>1 DEF RoundDiv

\* Rounding is off by half at most.
LEMMA RoundWithin ==
  ASSUME NEW x \in Nat, NEW b \in Nat, b > 0
  PROVE  /\ RoundDiv(x, b) \in Nat
         /\ 2 * (b * RoundDiv(x, b)) <= 2 * x + b /\ 2 * x - b <= 2 * (b * RoundDiv(x, b))
<1>. DEFINE q == x \div b
            r == x % b
            d == RoundDiv(x, b)
<1>1. q \in Nat /\ r \in Nat /\ x = b * q + r /\ r < b
  OBVIOUS
<1>2. d = IF 2 * r < b \/ (2 * r = b /\ q % 2 = 0) THEN q ELSE q + 1
  BY DEF RoundDiv
<1>. HIDE DEF q, r, d
<1>3. CASE d = q /\ 2 * r <= b
  <2>. DEFINE y == b * q
  <2>1. y \in Nat /\ b * d = y
    BY <1>1, <1>3
  <2>. HIDE DEF y
  <2>2. x = y + r
    BY <1>1 DEF y
  <2>. QED
    BY <1>1, <1>3, <2>1, <2>2 DEF d
<1>4. CASE d = q + 1 /\ 2 * r >= b
  <2>. DEFINE y == b * q
  <2>1. y \in Nat /\ b * d = y + b
    BY <1>1, <1>4
  <2>. HIDE DEF y
  <2>2. x = y + r
    BY <1>1 DEF y
  <2>. QED
    BY <1>1, <1>4, <2>1, <2>2 DEF d
<1>5. (d = q /\ 2 * r <= b) \/ (d = q + 1 /\ 2 * r >= b)
  <2>1. 2 * r < b \/ 2 * r = b \/ 2 * r > b
    BY <1>1
  <2>2. CASE 2 * r < b \/ (2 * r = b /\ q % 2 = 0)
    BY <1>1, <1>2, <2>2
  <2>3. CASE ~(2 * r < b \/ (2 * r = b /\ q % 2 = 0))
    BY <1>1, <1>2, <2>1, <2>3
  <2>. QED
    BY <2>2, <2>3
<1>. QED
  BY <1>3, <1>4, <1>5

\* What divides leaves nothing to round.
LEMMA RoundExact ==
  ASSUME NEW q \in Nat, NEW b \in Nat, b > 0
  PROVE  RoundDiv(b * q, b) = q
<1>. DEFINE x == b * q
            d == RoundDiv(x, b)
<1>1. x \in Nat
  OBVIOUS
<1>. HIDE DEF x
<1>2. /\ d \in Nat /\ 2 * (b * d) <= 2 * x + b /\ 2 * x - b <= 2 * (b * d)
  BY <1>1, RoundWithin
<1>. HIDE DEF d
<1>3. ~(d < q)
  <2>1. SUFFICES ASSUME d < q PROVE FALSE
    OBVIOUS
  <2>2. b * (d + 1) <= b * q
    BY <1>2, <2>1
  <2>3. b * (d + 1) = b * d + b /\ b * d \in Nat
    BY <1>2
  <2>. QED
    BY <1>1, <1>2, <2>2, <2>3 DEF x
<1>4. ~(d > q)
  <2>1. SUFFICES ASSUME d > q PROVE FALSE
    OBVIOUS
  <2>2. b * (q + 1) <= b * d
    BY <1>2, <2>1
  <2>3. b * (q + 1) = b * q + b /\ b * d \in Nat
    BY <1>2
  <2>. QED
    BY <1>1, <1>2, <2>2, <2>3 DEF x
<1>. QED
  BY <1>2, <1>3, <1>4 DEF d, x

\* A quotient rounded up.
LEMMA CeilFacts ==
  ASSUME NEW w \in Nat, NEW b \in Nat, b > 0
  PROVE  CeilDiv(w, b) \in Nat /\ w <= b * CeilDiv(w, b)
<1>. DEFINE x == w + b - 1
            c == x \div b
            r == x % b
<1>1. x \in Nat
  OBVIOUS
<1>2. CeilDiv(w, b) = c
  BY DEF CeilDiv
<1>3. x = w + b - 1
  OBVIOUS
<1>. HIDE DEF x
<1>4. c \in Nat /\ r \in Nat /\ x = b * c + r /\ r < b
  BY <1>1
<1>. HIDE DEF c, r
<1>. QED
  <2>. DEFINE y == b * c
  <2>1. y \in Nat /\ x = y + r
    BY <1>4
  <2>. HIDE DEF y
  <2>2. w <= y
    BY <1>3, <1>4, <2>1
  <2>. QED
    BY <1>2, <1>4, <2>2 DEF y

\* Two rounded multiples of w over b are at most the quotient rounded up apart.
LEMMA StepGap ==
  ASSUME NEW w \in Nat, NEW b \in Nat, b > 0, NEW i \in Nat
  PROVE  RoundDiv((i + 1) * w, b) <= RoundDiv(i * w, b) + CeilDiv(w, b)
<1>. DEFINE x == i * w
            y == (i + 1) * w
            c == CeilDiv(w, b)
            p == RoundDiv(x, b)
            q == RoundDiv(y, b)
<1>1. x \in Nat /\ y \in Nat /\ y = x + w
  OBVIOUS
<1>2. c \in Nat /\ w <= b * c
  BY CeilFacts
<1>. HIDE DEF x, y, c
<1>3. /\ p \in Nat /\ 2 * x - b <= 2 * (b * p)
      /\ q \in Nat /\ 2 * (b * q) <= 2 * y + b
  BY <1>1, RoundWithin
<1>. HIDE DEF p, q
<1>4. SUFFICES ASSUME q >= p + c + 1 PROVE FALSE
  BY <1>2, <1>3 DEF p, q, c, x, y
<1>. DEFINE u == b * p
            v == b * c
<1>5. u \in Nat /\ v \in Nat /\ b * (p + c + 1) = u + v + b
  BY <1>2, <1>3
<1>6. b * (p + c + 1) <= b * q /\ b * q \in Nat
  BY <1>2, <1>3, <1>4
<1>7. w <= v
  BY <1>2
<1>8. 2 * x - b <= 2 * u
  BY <1>3
<1>. HIDE DEF u, v
<1>9. v = w
  BY <1>1, <1>2, <1>3, <1>5, <1>6, <1>7, <1>8
<1>10. x = b * (i * c) /\ y = b * ((i + 1) * c)
  <2>1. w = b * c
    BY <1>9 DEF v
  <2>2. i * (b * c) = b * (i * c) /\ (i + 1) * (b * c) = b * ((i + 1) * c)
    BY <1>2
  <2>. QED
    BY <2>1, <2>2 DEF x, y
<1>11. i * c \in Nat /\ (i + 1) * c \in Nat /\ (i + 1) * c = i * c + c
  BY <1>2
<1>12. p = i * c /\ q = (i + 1) * c
  <2>. DEFINE m == i * c
              n == (i + 1) * c
  <2>1. m \in Nat /\ n \in Nat /\ x = b * m /\ y = b * n
    BY <1>10, <1>11
  <2>. HIDE DEF m, n
  <2>2. p = m /\ q = n
    BY <2>1, RoundExact DEF p, q
  <2>. QED
    BY <2>2 DEF m, n
<1>. QED
  BY <1>2, <1>4, <1>11, <1>12

\* The limits of the ports that are offered.
LEMMA PortLimits == MIN_PORT \in Nat \ {0} /\ MAX_PORT \in Nat /\ MIN_PORT <= MAX_PORT
BY DEF MIN_PORT, MAX_PORT

\* Clamping gives a port within the limits, and leaves one that was.
LEMMA InRange ==
  ASSUME NEW x \in Int
  PROVE  /\ InPortRange(x) \in Int
         /\ MIN_PORT <= InPortRange(x) /\ InPortRange(x) <= MAX_PORT
         /\ MIN_PORT <= x /\ x <= MAX_PORT => InPortRange(x) = x
<1>. DEFINE m == Min({MAX_PORT, x})
<1>1. m = IF MAX_PORT <= x THEN MAX_PORT ELSE x
  BY OfTwo, PortLimits
<1>2. m \in Int /\ m <= MAX_PORT /\ (x <= MAX_PORT => m = x)
  BY <1>1, PortLimits
<1>. HIDE DEF m
<1>3. Max({MIN_PORT, m}) = IF MIN_PORT >= m THEN MIN_PORT ELSE m
  BY <1>2, OfTwo, PortLimits
<1>4. InPortRange(x) = Max({MIN_PORT, m})
  BY DEF InPortRange, m
<1>. QED
  BY <1>2, <1>3, <1>4, PortLimits

\* A list of integers is bounded.
LEMMA Bounds ==
  ASSUME NEW s \in Seq(Int)
  PROVE  \E lo, hi \in Int : \A k \in DOMAIN s : lo <= s[k] /\ s[k] <= hi
<1>. DEFINE P(n) == \E lo, hi \in Int : \A k \in 1 .. n : lo <= s[k] /\ s[k] <= hi
            Bad == {n \in 0 .. Len(s) : ~P(n)}
<1>1. P(0)
  OBVIOUS
<1>2. ASSUME NEW n \in 1 .. Len(s), P(n - 1) PROVE P(n)
  <2>1. PICK lo \in Int, hi \in Int : \A k \in 1 .. n - 1 : lo <= s[k] /\ s[k] <= hi
    BY <1>2
  <2>. DEFINE l == IF lo <= s[n] THEN lo ELSE s[n]
              h0 == IF hi >= s[n] THEN hi ELSE s[n]
  <2>2. s[n] \in Int /\ l \in Int /\ h0 \in Int
    OBVIOUS
  <2>3. ASSUME NEW k \in 1 .. n PROVE l <= s[k] /\ s[k] <= h0
    <3>1. s[k] \in Int
      OBVIOUS
    <3>2. CASE k = n
      BY <2>2, <3>2
    <3>3. CASE k # n
      <4>1. k \in 1 .. n - 1
        BY <3>3
      <4>2. lo <= s[k] /\ s[k] <= hi
        BY <2>1, <4>1
      <4>. QED
        BY <2>2, <3>1, <4>2
    <3>. QED
      BY <3>2, <3>3
  <2>. HIDE DEF l, h0
  <2>. QED
    BY <2>2, <2>3
<1>. HIDE DEF P
<1>3. Bad = {}
  <2>. SUFFICES ASSUME Bad # {} PROVE FALSE
    OBVIOUS
  <2>1. Len(s) \in Nat /\ Bad \in SUBSET (0 .. Len(s)) /\ 0 \notin Bad
    BY <1>1
  <2>2. PICK k \in Bad : k - 1 \in 0 .. Len(s) /\ k - 1 \notin Bad /\ k \in 1 .. Len(s)
    BY <2>1, FirstPlace
  <2>. QED
    BY <1>2, <2>2
<1>4. P(Len(s)) /\ DOMAIN s = 1 .. Len(s)
  BY <1>3
<1>. QED
  BY <1>4 DEF P

\* So some of its elements, or all, have a least and a greatest among them.
LEMMA Extremes ==
  ASSUME NEW s \in Seq(Int), NEW T \in SUBSET Values(s), T # {}
  PROVE  /\ Min(T) \in T /\ Min(T) \in Int /\ \A x \in T : x \in Int /\ Min(T) <= x
         /\ Max(T) \in T /\ Max(T) \in Int /\ \A x \in T : x <= Max(T)
<1>1. PICK lo \in Int, hi \in Int : \A k \in DOMAIN s : lo <= s[k] /\ s[k] <= hi
  BY Bounds
<1>2. T \in SUBSET Int
  BY DEF Values
<1>3. \A x \in T : lo <= x /\ x <= hi
  BY <1>1 DEF Values
<1>4. Min(T) \in T /\ Min(T) \in Int /\ \A x \in T : Min(T) <= x
  BY <1>2, <1>3, MinFacts
<1>5. Max(T) \in T /\ Max(T) \in Int /\ \A x \in T : x <= Max(T)
  BY <1>2, <1>3, MaxFacts
<1>. QED
  BY <1>2, <1>4, <1>5

\* What the least and the greatest of a list are.
LEMMA ListFacts ==
  ASSUME NEW s \in Seq(Int), s # <<>>
  PROVE  /\ Values(s) # {} /\ Values(s) \subseteq Int
         /\ \A k \in DOMAIN s : s[k] \in Values(s)
         /\ Min(Values(s)) \in Values(s) /\ Min(Values(s)) \in Int
         /\ Max(Values(s)) \in Values(s) /\ Max(Values(s)) \in Int
         /\ \A x \in Values(s) : Min(Values(s)) <= x /\ x <= Max(Values(s))
         /\ Width(s) \in Nat
<1>1. 1 \in DOMAIN s
  OBVIOUS
<1>2. Values(s) # {} /\ Values(s) \subseteq Int /\ \A k \in DOMAIN s : s[k] \in Values(s)
  BY <1>1 DEF Values
<1>3. /\ Min(Values(s)) \in Values(s) /\ Min(Values(s)) \in Int
      /\ Max(Values(s)) \in Values(s) /\ Max(Values(s)) \in Int
      /\ \A x \in Values(s) : Min(Values(s)) <= x /\ x <= Max(Values(s))
  BY <1>2, Extremes
<1>. QED
  BY <1>2, <1>3 DEF Width

\* The k-th in order is one of them; if they are all the same, it is that.
LEMMA RankedFacts ==
  ASSUME NEW s \in Seq(Int), NEW k \in 1 .. Len(s)
  PROVE  Ranked(s, k) \in Values(s) /\ Ranked(s, k) \in Int
<1>. DEFINE Below(v) == {j \in DOMAIN s : s[j] <= v}
            T == {v \in Values(s) : Cardinality(Below(v)) >= k}
            top == Max(Values(s))
            n == Len(s)
<1>1. s # <<>> /\ DOMAIN s = 1 .. n /\ n \in Nat /\ k <= n
  OBVIOUS
<1>2. top \in Values(s) /\ \A j \in DOMAIN s : s[j] <= top
  BY <1>1, ListFacts
<1>3. Below(top) = 1 .. n
  BY <1>1, <1>2
<1>4. Cardinality(1 .. n) = n
  <2>. HIDE DEF n
  <2>. QED
    BY <1>1, FS_Interval
<1>. HIDE DEF n, Below, top
<1>5. top \in T
  BY <1>1, <1>2, <1>3, <1>4
<1>. USE DEF Below
<1>6. T \in SUBSET Values(s) /\ T # {}
  BY <1>5
<1>7. Ranked(s, k) = Min(T)
  BY DEF Ranked
<1>. HIDE DEF T
<1>8. Min(T) \in T /\ Min(T) \in Int
  BY <1>6, Extremes
<1>. QED
  BY <1>6, <1>7, <1>8

\* Twice the median is a whole number, and twice the only value where there is one.
LEMMA MedianFacts ==
  ASSUME NEW s \in Seq(Int), s # <<>>
  PROVE  /\ Median2(s) \in Int
         /\ \A x : Values(s) = {x} => Median2(s) = 2 * x
<1>1. Len(s) \in Nat \ {0}
  OBVIOUS
<1>2. (Len(s) + 1) \div 2 \in 1 .. Len(s) /\ Len(s) \div 2 + 1 \in 1 .. Len(s)
  BY <1>1
<1>3. /\ Ranked(s, (Len(s) + 1) \div 2) \in Values(s) /\ Ranked(s, (Len(s) + 1) \div 2) \in Int
      /\ Ranked(s, Len(s) \div 2 + 1) \in Values(s) /\ Ranked(s, Len(s) \div 2 + 1) \in Int
  BY <1>2, RankedFacts
<1>. QED
  BY <1>3 DEF Median2

\* A function on 1 .. n is a sequence of that length.
LEMMA ListType ==
  ASSUME NEW n \in Nat, NEW l \in [1 .. n -> Int]
  PROVE  l \in Seq(Int) /\ Len(l) = n /\ DOMAIN l = 1 .. n
OBVIOUS

\* The variance, over its common denominator, is a whole number.
LEMMA VarianceType ==
  ASSUME NEW s \in Seq(Int), s # <<>>
  PROVE  Variance(s) \in Int
<1>. DEFINE n == Len(s)
            low == Min(Values(s))
            d == [k \in DOMAIN s |-> s[k] - low]
            e == [k \in DOMAIN s |-> d[k] * d[k]]
<1>1. DOMAIN s = 1 .. n /\ n \in Nat /\ low \in Int /\ \A k \in DOMAIN s : s[k] \in Int
  BY ListFacts
<1>. HIDE DEF n, low
<1>2. d \in [1 .. n -> Int] /\ \A k \in 1 .. n : d[k] \in Int
  BY <1>1
<1>. HIDE DEF d
<1>3. e \in [1 .. n -> Int]
  BY <1>1, <1>2
<1>. HIDE DEF e
<1>4. Total(d) \in Int /\ Total(e) \in Int
  <2>1. d \in Seq(Int) /\ e \in Seq(Int)
    BY <1>1, <1>2, <1>3, ListType
  <2>. QED
    BY <2>1, TotalType
<1>5. Variance(s) = n * Total(e) - Total(d) * Total(d)
  BY DEF Variance, n, low, d, e
<1>. DEFINE x == Total(e)
            y == Total(d)
<1>. HIDE DEF x, y
<1>6. n * x - y * y \in Int
  BY <1>1, <1>4 DEF x, y
<1>. QED
  BY <1>5, <1>6 DEF x, y

\* The tolerance for jitter is never nothing.
LEMMA JitterType ==
  ASSUME NEW s \in Seq(Int), s # <<>>
  PROVE  Jitter(s) \in Nat \ {0}
<1>. DEFINE w == Width(s)
            Close(k) == LET v == 16 * Variance(s)
                            half == (2 * k + 1) * Len(s)
                        IN v < half * half \/ (v = half * half /\ k % 2 = 0)
            T == {w} \cup {k \in 0 .. w : Close(k)}
<1>1. w \in Nat
  BY ListFacts
<1>2. TwoSigma(s) = Min(T)
  BY DEF TwoSigma
<1>. HIDE DEF w, Close
<1>3. T \in SUBSET Int /\ T # {} /\ \A x \in T : 0 <= x
  BY <1>1
<1>. HIDE DEF T
<1>4. Min(T) \in Int
  BY <1>3, MinFacts
<1>. DEFINE m == Min(T)
<1>5. Jitter(s) = IF 2 >= m THEN 2 ELSE m
  BY <1>2, <1>4, OfTwo DEF Jitter
<1>. HIDE DEF m
<1>. QED
  BY <1>4, <1>5 DEF m

\* The places of at least two probes are spread.
LEMMA LineXPositive ==
  ASSUME NEW n \in Nat, n >= 2
  PROVE  LineX(n) \in Nat \ {0}
<1>. DEFINE q == n * n
<1>1. q \in Nat /\ q >= 4
  <2>1. n * n >= 2 * n
    OBVIOUS
  <2>. QED
    BY <2>1
<1>2. LineX(n) = (q * (q - 1)) \div 12
  BY DEF LineX
<1>. HIDE DEF q
<1>. DEFINE r == q * (q - 1)
<1>3. r \in Nat /\ r >= 12
  <2>1. q * (q - 1) >= 4 * (q - 1)
    BY <1>1
  <2>. QED
    BY <1>1, <2>1
<1>. HIDE DEF r
<1>4. r \div 12 \in Nat /\ r \div 12 >= 1
  BY <1>3
<1>. QED
  BY <1>2, <1>4 DEF r

\* So is the covariance with the places.
LEMMA LineXYType ==
  ASSUME NEW s \in Seq(Int), s # <<>>
  PROVE  LineXY(s) \in Int
<1>. DEFINE n == Len(s)
            first == s[1]
            d == [k \in DOMAIN s |-> k * (s[k] - first)]
            e == [k \in DOMAIN s |-> s[k] - first]
<1>1. DOMAIN s = 1 .. n /\ n \in Nat /\ first \in Int /\ \A k \in DOMAIN s : s[k] \in Int
  OBVIOUS
<1>. HIDE DEF n, first
<1>2. e \in [1 .. n -> Int]
  BY <1>1
<1>3. d \in [1 .. n -> Int]
  <2>1. \A k \in 1 .. n : k \in Int /\ s[k] - first \in Int
    BY <1>1
  <2>2. \A x, y \in Int : x * y \in Int
    OBVIOUS
  <2>3. \A k \in 1 .. n : k * (s[k] - first) \in Int
    BY <2>1, <2>2
  <2>. QED
    BY <1>1, <2>3
<1>. HIDE DEF d, e
<1>4. Total(d) \in Int /\ Total(e) \in Int
  <2>1. d \in Seq(Int) /\ e \in Seq(Int)
    BY <1>1, <1>2, <1>3, ListType
  <2>. QED
    BY <2>1, TotalType
<1>. DEFINE x == Total(d)
            y == Total(e)
            z == (n * (n + 1)) \div 2
<1>5. LineXY(s) = n * x - z * y
  BY DEF LineXY, n, first, d, e
<1>6. z \in Int
  <2>1. n * (n + 1) \in Int
    BY <1>1
  <2>. QED
    BY <2>1
<1>. HIDE DEF x, y, z
<1>7. n * x - z * y \in Int
  BY <1>1, <1>4, <1>6 DEF x, y
<1>. QED
  BY <1>5, <1>7

\* The shift for the trend is never back.
LEMMA ShiftType ==
  ASSUME NEW s \in Seq(Int), s # <<>>
  PROVE  Shift(s) \in Nat
<1>1. CASE Trend(s)
  <2>1. Len(s) \in Nat /\ Len(s) >= 4
    BY <1>1 DEF Trend
  <2>2. LineX(Len(s)) \in Nat \ {0} /\ LineXY(s) \in Int
    BY <2>1, LineXPositive, LineXYType
  <2>3. ProbesPerSecond * LineXY(s) \in Int
    BY <2>2 DEF ProbesPerSecond
  <2>. DEFINE r == RoundDiv(ProbesPerSecond * LineXY(s), LineX(Len(s)))
              m == Min({MAX_RATE_SHIFT, r})
  <2>4. r \in Int
    BY <2>2, <2>3, RoundDivType
  <2>. HIDE DEF r
  <2>5. m \in Int
    <3>1. MAX_RATE_SHIFT \in Int
      BY DEF MAX_RATE_SHIFT
    <3>2. m = IF MAX_RATE_SHIFT <= r THEN MAX_RATE_SHIFT ELSE r
      BY <2>4, <3>1, OfTwo
    <3>. QED
      BY <2>4, <3>1, <3>2
  <2>6. Shift(s) = Max({0, m})
    BY <1>1 DEF Shift, r
  <2>. HIDE DEF m
  <2>7. Max({0, m}) = IF 0 >= m THEN 0 ELSE m
    BY <2>5, OfTwo
  <2>. QED
    BY <2>5, <2>6, <2>7
<1>2. CASE ~Trend(s)
  BY <1>2 DEF Shift
<1>. QED
  BY <1>1, <1>2

\* The band lies in the port range, is not all below it, and holds the ports it was made of
\* as far as they lie in the range.
LEMMA BandFacts ==
  ASSUME NEW s \in Seq(Int), s # <<>>, \A k \in DOMAIN s : s[k] > 0
  PROVE  /\ Band(s)[1] \in Int /\ MIN_PORT <= Band(s)[1]
         /\ Band(s)[2] \in Int /\ Band(s)[2] > 0
         /\ MIN_PORT <= Min(Values(s)) => Band(s)[1] <= Min(Values(s))
         /\ Max(Values(s)) <= MAX_PORT => Max(Values(s)) <= Band(s)[2]
<1>. DEFINE lo == Min(Values(s))
            hi == Max(Values(s))
            more == RoundDiv(hi - lo, 4)
            g == Block(s)
            base == (lo \div g) * g
            fits == {f \in {256, 512, 1024, 2048, 4096} :
                       hi - lo < f /\ lo \div f = hi \div f /\ 20 * (f - (hi - lo)) <= f}
<1>1. lo \in Int /\ hi \in Int /\ lo <= hi /\ lo > 0
  BY ListFacts DEF Values
<1>2. /\ g = 0 => Band(s) = <<Max({MIN_PORT, lo - more}), Min({MAX_PORT, hi + more})>>
      /\ g # 0 => Band(s) = <<Max({MIN_PORT, lo - more, base}),
                              Min({MAX_PORT, hi + more, base + g - 1})>>
  BY DEF Band
<1>3. g = 0 \/ (g = Min(fits) /\ fits # {})
  BY DEF Block
<1>. HIDE DEF lo, hi, g
<1>4. more \in Nat
  <2>. DEFINE d == hi - lo
              four == 4
  <2>1. d \in Nat /\ four \in Nat /\ four > 0
    BY <1>1
  <2>2. more = RoundDiv(d, four)
    OBVIOUS
  <2>. HIDE DEF d, four, more
  <2>3. RoundDiv(d, four) \in Nat
    BY <2>1, RoundDivOfNat
  <2>. QED
    BY <2>2, <2>3
<1>. HIDE DEF more
<1>5. CASE g = 0
  <2>. DEFINE x == lo - more
              y == hi + more
  <2>1. x \in Int /\ y \in Int /\ y > 0 /\ x <= lo /\ hi <= y
    BY <1>1, <1>4
  <2>2. Band(s) = <<Max({MIN_PORT, x}), Min({MAX_PORT, y})>>
    BY <1>2, <1>5
  <2>. HIDE DEF x, y
  <2>3. /\ Max({MIN_PORT, x}) \in Int /\ MIN_PORT <= Max({MIN_PORT, x})
        /\ MIN_PORT <= lo => Max({MIN_PORT, x}) <= lo
    <3>1. Max({MIN_PORT, x}) = IF MIN_PORT >= x THEN MIN_PORT ELSE x
      <4>1. MIN_PORT \in Int /\ MAX_PORT \in Int
        BY PortLimits
      <4>. QED
        BY <2>1, <4>1, OfTwo
    <3>. QED
      BY <1>1, <2>1, <3>1, PortLimits
  <2>4. /\ Min({MAX_PORT, y}) \in Int /\ Min({MAX_PORT, y}) > 0
        /\ hi <= MAX_PORT => hi <= Min({MAX_PORT, y})
    <3>1. Min({MAX_PORT, y}) = IF MAX_PORT <= y THEN MAX_PORT ELSE y
      <4>1. MIN_PORT \in Int /\ MAX_PORT \in Int
        BY PortLimits
      <4>. QED
        BY <2>1, <4>1, OfTwo
    <3>. QED
      BY <1>1, <2>1, <3>1, PortLimits
  <2>. QED
    BY <2>2, <2>3, <2>4 DEF lo, hi
<1>6. CASE g # 0
  <2>1. g \in fits
    <3>1. fits \in SUBSET Int /\ \A x \in fits : 0 <= x
      OBVIOUS
    <3>. HIDE DEF fits
    <3>. QED
      BY <1>3, <1>6, <3>1, MinFacts
  <2>2. base \in Int /\ base + g - 1 \in Int /\ base + g - 1 >= hi /\ base <= lo
    <3>1. g \in {256, 512, 1024, 2048, 4096} /\ lo \div g = hi \div g
      BY <2>1
    <3>2. CASE g = 256
      BY <1>1, <3>1, <3>2
    <3>3. CASE g = 512
      BY <1>1, <3>1, <3>3
    <3>4. CASE g = 1024
      BY <1>1, <3>1, <3>4
    <3>5. CASE g = 2048
      BY <1>1, <3>1, <3>5
    <3>6. CASE g = 4096
      BY <1>1, <3>1, <3>6
    <3>. QED
      BY <3>1, <3>2, <3>3, <3>4, <3>5, <3>6
  <2>. DEFINE x == lo - more
              y == hi + more
              z == base + g - 1
  <2>3. /\ x \in Int /\ y \in Int /\ y > 0 /\ z \in Int /\ z > 0
        /\ x <= lo /\ base <= lo /\ hi <= y /\ hi <= z
    BY <1>1, <1>4, <2>2
  <2>4. Band(s) = <<Max({MIN_PORT, x, base}), Min({MAX_PORT, y, z})>>
    BY <1>2, <1>6
  <2>. HIDE DEF base, x, y, z
  <2>5. /\ Max({MIN_PORT, x, base}) \in Int /\ MIN_PORT <= Max({MIN_PORT, x, base})
        /\ MIN_PORT <= lo => Max({MIN_PORT, x, base}) <= lo
    <3>1. MIN_PORT \in Int /\ x \in Int /\ base \in Int
      BY <2>2, <2>3, PortLimits
    <3>2. /\ Max({MIN_PORT, x, base}) \in Int /\ MIN_PORT <= Max({MIN_PORT, x, base})
          /\ Max({MIN_PORT, x, base}) \in {MIN_PORT, x, base}
      BY <3>1, OfThree
    <3>. QED
      BY <2>3, <3>2
  <2>6. /\ Min({MAX_PORT, y, z}) \in Int /\ Min({MAX_PORT, y, z}) > 0
        /\ hi <= MAX_PORT => hi <= Min({MAX_PORT, y, z})
    <3>1. Min({MAX_PORT, y, z}) \in {MAX_PORT, y, z} /\ Min({MAX_PORT, y, z}) \in Int
      <4>1. MAX_PORT \in Int /\ y \in Int /\ z \in Int
        BY <2>3, PortLimits
      <4>. QED
        BY <4>1, OfThree
    <3>. QED
      BY <2>3, <3>1, PortLimits
  <2>. QED
    BY <2>4, <2>5, <2>6 DEF lo, hi
<1>. QED
  BY <1>5, <1>6

\* The prediction and how far off it may be are numbers.
LEMMA ByPortType ==
  ASSUME NEW s \in Seq(Int), s # <<>>
  PROVE  ByPort(s)[1] \in Int /\ ByPort(s)[2] \in Nat
<1>. DEFINE n == Len(s)
            total == Total(s)
            dev == [k \in DOMAIN s |-> Absolute(n * s[k] - total)]
            off == Max({Absolute(n * s[k] - total) : k \in DOMAIN s})
            jitter == Jitter(s)
<1>1. DOMAIN s = 1 .. n /\ n \in Nat /\ n > 0 /\ \A k \in DOMAIN s : s[k] \in Int
  OBVIOUS
<1>2. total \in Int /\ jitter \in Nat
  BY TotalType, JitterType
<1>. HIDE DEF n, total, jitter
<1>3. dev \in [1 .. n -> Nat]
  <2>1. \A x, y \in Int : x * y \in Int
    OBVIOUS
  <2>2. \A k \in 1 .. n : n * s[k] \in Int
    BY <1>1, <2>1
  <2>3. \A x, y \in Int : Absolute(x - y) \in Nat
    BY DEF Absolute
  <2>4. \A k \in 1 .. n : Absolute(n * s[k] - total) \in Nat
    BY <1>2, <2>2, <2>3
  <2>. QED
    BY <1>1, <2>4
<1>4. Values(dev) = {Absolute(n * s[k] - total) : k \in DOMAIN s}
  BY DEF Values
<1>. HIDE DEF dev
<1>5. off \in Nat
  <2>0. dev \in [1 .. n -> Int]
    BY <1>3
  <2>1. dev \in Seq(Int) /\ Len(dev) = n
    BY <1>1, <2>0, ListType
  <2>2. dev # <<>>
    BY <1>1, <2>1
  <2>3. Max(Values(dev)) \in Values(dev)
    BY <2>1, <2>2, ListFacts
  <2>4. Values(dev) \subseteq Nat
    BY <1>3 DEF Values
  <2>. QED
    BY <1>4, <2>3, <2>4
<1>. HIDE DEF off
<1>6. ByPort(s) = <<RoundDiv(total, n), RoundDiv(off + n * jitter, n)>>
  BY DEF ByPort, off, n, total, jitter
<1>7. RoundDiv(total, n) \in Int
  BY <1>1, <1>2, RoundDivType
<1>. DEFINE e == off + n * jitter
<1>8. e \in Nat
  <2>1. \A x, y \in Nat : x * y \in Nat
    OBVIOUS
  <2>2. n * jitter \in Nat
    BY <1>1, <1>2, <2>1
  <2>. QED
    BY <1>5, <2>2
<1>. HIDE DEF e
<1>9. RoundDiv(e, n) \in Nat
  BY <1>1, <1>8, RoundDivOfNat
<1>. QED
  BY <1>6, <1>7, <1>9 DEF e

\* The same for the prediction from the differences.
LEMMA ByDeltaType ==
  ASSUME NEW s \in Seq(Int), s # <<>>, NEW l \in Int
  PROVE  ByDelta(s, l)[1] \in Int /\ ByDelta(s, l)[2] \in Nat
<1>. DEFINE n == Len(s)
            med == Median2(s)
            dev == [k \in DOMAIN s |-> Absolute(2 * s[k] - med)]
            off == Max({Absolute(2 * s[k] - med) : k \in DOMAIN s})
            jitter == Jitter(s)
            two == 2
<1>1. DOMAIN s = 1 .. n /\ n \in Nat /\ n > 0 /\ \A k \in DOMAIN s : s[k] \in Int
  OBVIOUS
<1>2. med \in Int /\ jitter \in Nat
  BY MedianFacts, JitterType
<1>. HIDE DEF n, med, jitter
<1>3. dev \in [1 .. n -> Nat]
  <2>1. \A x, y \in Int : Absolute(2 * x - y) \in Nat
    BY DEF Absolute
  <2>. QED
    BY <1>1, <1>2, <2>1
<1>4. Values(dev) = {Absolute(2 * s[k] - med) : k \in DOMAIN s}
  BY DEF Values
<1>. HIDE DEF dev
<1>5. off \in Nat
  <2>0. dev \in [1 .. n -> Int]
    BY <1>3
  <2>1. dev \in Seq(Int) /\ Len(dev) = n
    BY <1>1, <2>0, ListType
  <2>2. dev # <<>>
    BY <1>1, <2>1
  <2>3. Max(Values(dev)) \in Values(dev)
    BY <2>1, <2>2, ListFacts
  <2>4. Values(dev) \subseteq Nat
    BY <1>3 DEF Values
  <2>. QED
    BY <1>4, <2>3, <2>4
<1>. HIDE DEF off
<1>. DEFINE d == 2 * l + med
            e == off + 2 * jitter
<1>6. ByDelta(s, l) = <<RoundDiv(d, two), RoundDiv(e, two)>>
  BY DEF ByDelta, off, med, jitter
<1>7. d \in Int /\ e \in Nat /\ two \in Nat /\ two > 0
  BY <1>2, <1>5
<1>. HIDE DEF d, e, two
<1>8. RoundDiv(d, two) \in Int /\ RoundDiv(e, two) \in Nat
  BY <1>7, RoundDivType, RoundDivOfNat
<1>. QED
  BY <1>6, <1>8

----------------------------------------------------------------------------
(* The steps of an analysis.                                               *)

Patterns == {"unknown", "constant", "in_range", "random_like"}
Allocations == {"unbestimmt", "versatzstabil", "zufaellig_im_band", "fortlaufend"}
Figures(m) ==
  [pattern : Patterns, allocation : Allocations, mapping : {m}, n : Nat, min : Int, max : Int,
   deltaMin : Int, deltaMax : Int, delta2 : Int, predicted : Int, error : Int, shift : Int,
   scan : BOOLEAN, start : Int, end : Int]

\* A prediction that is a port the relay would offer, and a range above zero.
Framed(a) ==
  /\ MIN_PORT <= a.predicted /\ a.predicted <= MAX_PORT
  /\ MIN_PORT <= a.start /\ a.end > 0

\* What b keeps of the measurements in a.
SameFigures(a, b) ==
  /\ b.mapping = a.mapping /\ b.n = a.n /\ b.min = a.min /\ b.max = a.max
  /\ b.deltaMin = a.deltaMin /\ b.deltaMax = a.deltaMax /\ b.delta2 = a.delta2
  /\ b.shift = a.shift

Step(m, a, b) == b \in Figures(m) /\ Framed(b) /\ SameFigures(a, b)

\* One step after another.
LEMMA StepsCompose ==
  ASSUME NEW m, NEW a, NEW b, NEW d, SameFigures(a, b), Step(m, b, d)
  PROVE  Step(m, a, d)
BY DEF SameFigures, Step

\* A range that is a band holds the ports seen, as far as they are ones the relay offers.
Spans(a) ==
  a.pattern = "random_like" =>
    /\ a.scan
    /\ MIN_PORT <= a.min => a.start <= a.min
    /\ a.max <= MAX_PORT => a.max <= a.end

\* A band keeps the measurements, and its prediction is a port.
LEMMA AsBandStep ==
  ASSUME NEW m, NEW a \in Figures(m), Framed(a),
         NEW s \in Seq(Int), s # <<>>, \A k \in DOMAIN s : s[k] > 0
  PROVE  /\ Step(m, a, AsBand(a, s))
         /\ a.min = Min(Values(s)) /\ a.max = Max(Values(s)) => Spans(AsBand(a, s))
<1>. DEFINE b == Band(s)
            half == RoundDiv(Median2(s), 2)
            median == InPortRange(half)
            p == IF a.predicted \in b[1] .. b[2] THEN a.predicted ELSE median
<1>1. /\ b[1] \in Int /\ MIN_PORT <= b[1] /\ b[2] \in Int /\ b[2] > 0
      /\ MIN_PORT <= Min(Values(s)) => b[1] <= Min(Values(s))
      /\ Max(Values(s)) <= MAX_PORT => Max(Values(s)) <= b[2]
  BY BandFacts
<1>2. half \in Int
  <2>. DEFINE two == 2
              x == Median2(s)
  <2>1. x \in Int /\ two \in Nat /\ two > 0
    BY MedianFacts
  <2>2. half = RoundDiv(x, two)
    OBVIOUS
  <2>. HIDE DEF two, x, half
  <2>. QED
    BY <2>1, <2>2, RoundDivType
<1>. HIDE DEF b, half
<1>3. median \in Int /\ MIN_PORT <= median /\ median <= MAX_PORT
  BY <1>2, InRange
<1>. HIDE DEF median
<1>4. a.predicted \in Int /\ MIN_PORT <= a.predicted /\ a.predicted <= MAX_PORT
  BY DEF Figures, Framed
<1>5. p \in Int /\ MIN_PORT <= p /\ p <= MAX_PORT
  BY <1>3, <1>4
<1>6. AsBand(a, s) = [a EXCEPT !.pattern = "random_like", !.allocation = "zufaellig_im_band",
                        !.scan = TRUE, !.start = b[1], !.end = b[2], !.predicted = p]
  BY DEF AsBand, b, median, half, Figures
<1>. HIDE DEF p
<1>7. AsBand(a, s) \in Figures(m)
  BY <1>1, <1>5, <1>6 DEF Figures, Patterns, Allocations
<1>8. Framed(AsBand(a, s)) /\ SameFigures(a, AsBand(a, s))
  BY <1>1, <1>5, <1>6 DEF Figures, Framed, SameFigures
<1>9. ASSUME a.min = Min(Values(s)), a.max = Max(Values(s)) PROVE Spans(AsBand(a, s))
  <2>1. /\ AsBand(a, s).scan /\ AsBand(a, s).start = b[1] /\ AsBand(a, s).end = b[2]
        /\ AsBand(a, s).min = a.min /\ AsBand(a, s).max = a.max
    BY <1>6 DEF Figures
  <2>. QED
    BY <1>1, <1>9, <2>1 DEF Spans
<1>. QED
  BY <1>7, <1>8, <1>9 DEF Step

\* So does each class, and ports without spread are never a band.
LEMMA ClassifyStep ==
  ASSUME NEW m, NEW a \in Figures(m), Framed(a), NEW spread \in Nat,
         NEW s \in Seq(Int), s # <<>>, \A k \in DOMAIN s : s[k] > 0
  PROVE  /\ Step(m, a, Classify(a, spread, s))
         /\ spread = 0 => Classify(a, spread, s).allocation = "versatzstabil"
         /\ a.pattern = "unknown" /\ a.min = Min(Values(s)) /\ a.max = Max(Values(s)) =>
              Spans(Classify(a, spread, s))
<1>1. CASE spread = 0
  <2>1. Classify(a, spread, s) =
          [a EXCEPT !.pattern = "constant", !.allocation = "versatzstabil", !.scan = FALSE,
             !.error = 0, !.start = a.predicted, !.end = a.predicted]
    BY <1>1, Zenon DEF Classify
  <2>2. MIN_PORT \in Nat /\ MIN_PORT > 0
    BY PortLimits
  <2>3. Classify(a, spread, s) \in Figures(m)
    <3>. DEFINE p == a.predicted
                zero == 0
    <3>1. p \in Int /\ zero \in Int
      BY DEF Figures
    <3>2. Classify(a, spread, s) =
            [a EXCEPT !.pattern = "constant", !.allocation = "versatzstabil", !.scan = FALSE,
               !.error = zero, !.start = p, !.end = p]
      BY <2>1, Zenon
    <3>. HIDE DEF p, zero
    <3>. QED
      BY <3>1, <3>2 DEF Figures, Patterns, Allocations
  <2>4. /\ Classify(a, spread, s).predicted = a.predicted
        /\ Classify(a, spread, s).start = a.predicted /\ Classify(a, spread, s).end = a.predicted
        /\ Classify(a, spread, s).allocation = "versatzstabil"
        /\ Classify(a, spread, s).pattern = "constant"
        /\ SameFigures(a, Classify(a, spread, s))
    BY <2>1 DEF Figures, SameFigures
  <2>5. Framed(Classify(a, spread, s))
    <3>1. a.predicted \in Int
      BY DEF Figures
    <3>. QED
      BY <2>2, <2>4, <3>1 DEF Framed
  <2>. QED
    BY <2>3, <2>4, <2>5 DEF Step, Spans
<1>2. CASE spread # 0 /\ a.error <= RANDOM_LIKE_ERROR_RANGE
  <2>1. Classify(a, spread, s) =
          [a EXCEPT !.pattern = "in_range", !.allocation = "versatzstabil"]
    BY <1>2 DEF Classify
  <2>2. Classify(a, spread, s) \in Figures(m)
    BY <2>1 DEF Figures, Patterns, Allocations
  <2>3. /\ Framed(Classify(a, spread, s)) /\ SameFigures(a, Classify(a, spread, s))
        /\ Classify(a, spread, s).pattern = "in_range"
    BY <2>1 DEF Figures, SameFigures, Framed
  <2>. QED
    BY <1>2, <2>2, <2>3 DEF Step, Spans
<1>3. CASE spread # 0 /\ ~(a.error <= RANDOM_LIKE_ERROR_RANGE)
  <2>1. Classify(a, spread, s) = AsBand(a, s)
    BY <1>3 DEF Classify
  <2>. QED
    BY <1>3, <2>1, AsBandStep
<1>. QED
  BY <1>1, <1>2, <1>3

\* The percentage the client asked for keeps the prediction and the class.
LEMMA ExpandStep ==
  ASSUME NEW m, NEW a \in Figures(m), Framed(a), NEW percent \in Nat
  PROVE  /\ Step(m, a, Expand(a, percent)) /\ Expand(a, percent).allocation = a.allocation
         /\ Spans(a) => Spans(Expand(a, percent))
<1>. DEFINE width == a.end - a.start
            hundred == 100
            more == RoundDiv(width * percent, hundred)
            below == a.start - more \div 2
            above == a.end + (more - more \div 2)
<1>0. a.start \in Int /\ a.end \in Int /\ a.end > 0 /\ MIN_PORT <= a.start
  BY DEF Figures, Framed
<1>1. CASE a.start <= 0 \/ a.end <= a.start \/ more <= 0
  <2>1. Expand(a, percent) = a
    BY <1>1 DEF Expand
  <2>. QED
    BY <2>1 DEF Step, SameFigures
<1>2. CASE ~(a.start <= 0 \/ a.end <= a.start \/ more <= 0)
  <2>1. Expand(a, percent) = [a EXCEPT !.scan = TRUE, !.start = Max({MIN_PORT, below}),
                                !.end = Min({MAX_PORT, above})]
    BY <1>2 DEF Expand, Figures
  <2>2. more \in Int
    <3>. DEFINE x == width * percent
    <3>1. x \in Int /\ hundred \in Nat /\ hundred > 0
      <4>1. width \in Int
        BY <1>0
      <4>. HIDE DEF width
      <4>. QED
        BY <4>1
    <3>2. more = RoundDiv(x, hundred)
      OBVIOUS
    <3>. HIDE DEF x, hundred, more
    <3>. QED
      BY <3>1, <3>2, RoundDivType
  <2>3. more > 0
    <3>. HIDE DEF more
    <3>. QED
      BY <1>2, <2>2
  <2>. HIDE DEF more
  <2>4. below \in Int /\ above \in Int /\ above > 0 /\ below <= a.start /\ a.end <= above
    <3>1. more \div 2 \in Int /\ more \div 2 <= more /\ more \div 2 >= 0
      BY <2>2, <2>3
    <3>. QED
      BY <1>0, <2>2, <3>1
  <2>. HIDE DEF below, above
  <2>. DEFINE lo == Max({MIN_PORT, below})
              hi == Min({MAX_PORT, above})
  <2>5. MIN_PORT \in Int /\ MAX_PORT \in Int /\ MAX_PORT > 0
    BY PortLimits
  <2>6. lo \in Int /\ MIN_PORT <= lo /\ lo <= a.start
    <3>1. lo = IF MIN_PORT >= below THEN MIN_PORT ELSE below
      BY <2>4, <2>5, OfTwo
    <3>. HIDE DEF lo
    <3>. QED
      BY <1>0, <2>4, <2>5, <3>1
  <2>7. hi \in Int /\ hi > 0 /\ (a.max <= MAX_PORT /\ a.max <= a.end => a.max <= hi)
    <3>1. hi = IF MAX_PORT <= above THEN MAX_PORT ELSE above
      BY <2>4, <2>5, OfTwo
    <3>. HIDE DEF hi
    <3>2. a.max \in Int
      BY DEF Figures
    <3>. QED
      BY <1>0, <2>4, <2>5, <3>1, <3>2
  <2>8. Expand(a, percent) = [a EXCEPT !.scan = TRUE, !.start = lo, !.end = hi]
    BY <2>1
  <2>. HIDE DEF lo, hi
  <2>9. Expand(a, percent) \in Figures(m)
    BY <2>6, <2>7, <2>8 DEF Figures
  <2>10. /\ SameFigures(a, Expand(a, percent)) /\ Framed(Expand(a, percent))
         /\ Expand(a, percent).allocation = a.allocation
    BY <2>6, <2>7, <2>8 DEF Figures, SameFigures, Framed
  <2>11. Spans(a) => Spans(Expand(a, percent))
    <3>1. /\ Expand(a, percent).scan /\ Expand(a, percent).start = lo
          /\ Expand(a, percent).end = hi /\ Expand(a, percent).pattern = a.pattern
          /\ Expand(a, percent).min = a.min /\ Expand(a, percent).max = a.max
      BY <2>8 DEF Figures
    <3>2. a.min \in Int /\ a.max \in Int
      BY DEF Figures
    <3>. QED
      BY <1>0, <2>5, <2>6, <2>7, <3>1, <3>2 DEF Spans
  <2>. QED
    BY <2>9, <2>10, <2>11 DEF Step
<1>. QED
  BY <1>1, <1>2

\* At last the range holds the prediction.
LEMMA ContainStep ==
  ASSUME NEW m, NEW a \in Figures(m), Framed(a)
  PROVE  /\ Step(m, a, Contain(a)) /\ Contain(a).allocation = a.allocation
         /\ Contain(a).start <= Contain(a).predicted
         /\ Contain(a).predicted <= Contain(a).end
         /\ Spans(a) => Spans(Contain(a))
<1>. DEFINE p == a.predicted
            s == a.start
            e == a.end
            x == Max({MIN_PORT, p})
            y == Min({MAX_PORT, p})
            lo == Min({s, x})
            hi == Max({e, y})
<1>1. /\ p \in Int /\ s \in Int /\ e \in Int
      /\ MIN_PORT <= p /\ p <= MAX_PORT /\ MIN_PORT <= s /\ e > 0
  BY DEF Figures, Framed
<1>2. MIN_PORT \in Nat /\ MAX_PORT \in Nat /\ MIN_PORT > 0
  BY PortLimits
<1>3. Contain(a) = [a EXCEPT !.start = lo, !.end = hi]
  <2>1. ~(a.start <= 0 \/ a.end <= 0)
    BY <1>1, <1>2
  <2>. QED
    BY <2>1 DEF Contain, Figures
<1>. HIDE DEF p, s, e
<1>4. x = p
  <2>1. x = IF MIN_PORT >= p THEN MIN_PORT ELSE p
    BY <1>1, <1>2, OfTwo
  <2>. HIDE DEF x
  <2>. QED
    BY <1>1, <1>2, <2>1
<1>5. y = p
  <2>1. y = IF MAX_PORT <= p THEN MAX_PORT ELSE p
    BY <1>1, <1>2, OfTwo
  <2>. HIDE DEF y
  <2>. QED
    BY <1>1, <1>2, <2>1
<1>. HIDE DEF x, y
<1>6. lo = IF s <= p THEN s ELSE p
  BY <1>1, <1>4, OfTwo
<1>7. hi = IF e >= p THEN e ELSE p
  BY <1>1, <1>5, OfTwo
<1>. HIDE DEF lo, hi
<1>8. /\ lo \in Int /\ hi \in Int /\ lo <= p /\ p <= hi /\ MIN_PORT <= lo /\ hi > 0
      /\ lo <= s /\ e <= hi
  BY <1>1, <1>2, <1>6, <1>7
<1>9. Contain(a) \in Figures(m)
  BY <1>3, <1>8 DEF Figures
<1>10. /\ Contain(a).predicted = p /\ Contain(a).start = lo /\ Contain(a).end = hi
       /\ Contain(a).allocation = a.allocation /\ SameFigures(a, Contain(a))
  BY <1>3 DEF Figures, SameFigures, p
<1>11. Framed(Contain(a))
  BY <1>1, <1>8, <1>10 DEF Framed
<1>12. Spans(a) => Spans(Contain(a))
  <2>1. /\ Contain(a).pattern = a.pattern /\ Contain(a).scan = a.scan
        /\ Contain(a).min = a.min /\ Contain(a).max = a.max
    BY <1>3 DEF Figures
  <2>2. a.min \in Int /\ a.max \in Int
    BY DEF Figures
  <2>. QED
    BY <1>1, <1>2, <1>8, <1>10, <2>1, <2>2 DEF Spans, s, e
<1>. QED
  BY <1>8, <1>9, <1>10, <1>11, <1>12 DEF Step

\* A list of probes: what is noted of each is a port.
IsProbes(probes) ==
  /\ \E T : probes \in Seq(T)
  /\ \A k \in DOMAIN probes : probes[k].nat \in Nat \ {0} /\ probes[k].local \in Nat

PortsOf(probes) == [k \in DOMAIN probes |-> probes[k].nat]
DeltasOf(probes) == [k \in DOMAIN probes |-> probes[k].nat - probes[k].local]

\* The ports and the differences of a list of probes.
LEMMA ProbeLists ==
  ASSUME NEW probes, IsProbes(probes), Len(probes) >= 1
  PROVE  /\ PortsOf(probes) \in Seq(Int) /\ PortsOf(probes) # <<>>
         /\ \A k \in DOMAIN PortsOf(probes) : PortsOf(probes)[k] > 0
         /\ DeltasOf(probes) \in Seq(Int) /\ DeltasOf(probes) # <<>>
         /\ Len(probes) \in Nat
<1>. DEFINE n == Len(probes)
            p == PortsOf(probes)
            d == DeltasOf(probes)
<1>1. DOMAIN probes = 1 .. n /\ n \in Nat /\ n >= 1
  BY DEF IsProbes
<1>. HIDE DEF n
<1>2. p \in [1 .. n -> Int] /\ d \in [1 .. n -> Int] /\ \A k \in 1 .. n : p[k] > 0
  BY <1>1 DEF IsProbes, PortsOf, DeltasOf
<1>. HIDE DEF p, d
<1>3. p \in Seq(Int) /\ Len(p) = n /\ DOMAIN p = 1 .. n
  BY <1>1, <1>2, ListType
<1>4. d \in Seq(Int) /\ Len(d) = n
  BY <1>1, <1>2, ListType
<1>. QED
  BY <1>1, <1>2, <1>3, <1>4 DEF p, d, n

\* What analyze_nat measures, before it classifies.
Measured(probes, local, external) ==
  LET ports == PortsOf(probes)
      deltas == DeltasOf(probes)
      guess == IF external THEN ByPort(ports) ELSE ByDelta(deltas, local)
      p == InPortRange(InPortRange(guess[1]) + Shift(ports))
  IN [pattern |-> "unknown", allocation |-> "unbestimmt",
      mapping |-> Mapping(probes), n |-> Len(probes),
      min |-> Min(Values(ports)), max |-> Max(Values(ports)),
      deltaMin |-> IF external THEN 0 ELSE Min(Values(deltas)),
      deltaMax |-> IF external THEN 0 ELSE Max(Values(deltas)),
      delta2 |-> IF external THEN 0 ELSE Median2(deltas),
      predicted |-> p, error |-> guess[2], shift |-> Shift(ports), scan |-> guess[2] > 0,
      start |-> Max({MIN_PORT, p - guess[2]}), end |-> Min({MAX_PORT, p + guess[2]})]

SpreadOf(probes, external) ==
  Width(IF external THEN PortsOf(probes) ELSE DeltasOf(probes))

\* The trend's name for an allocation.
Renamed(b, trend) ==
  IF trend /\ b.allocation = "versatzstabil" THEN [b EXCEPT !.allocation = "fortlaufend"] ELSE b

\* Where an analysis comes from.
LEMMA AnalyzeSteps ==
  ASSUME NEW probes, NEW local, NEW external \in BOOLEAN, NEW percent,
         Len(probes) \in Nat
  PROVE  /\ Len(probes) < 2 => Analyze(probes, local, external, percent) = Unknown(0)
         /\ Len(probes) >= 2 /\ Values(DeltasOf(probes)) = {0} =>
              Analyze(probes, local, external, percent)
                = Preserved(local, Values(PortsOf(probes)), Mapping(probes), Len(probes))
         /\ Len(probes) >= 2 /\ Values(DeltasOf(probes)) # {0} =>
              Analyze(probes, local, external, percent)
                = Contain(Expand(Renamed(Classify(Measured(probes, local, external),
                                                  SpreadOf(probes, external), PortsOf(probes)),
                                         ~external /\ Trend(PortsOf(probes))), percent))
<1>. DEFINE named(b) == IF ~external /\ b.allocation = "versatzstabil" /\ Trend(PortsOf(probes))
                        THEN [b EXCEPT !.allocation = "fortlaufend"] ELSE b
<1>1. Analyze(probes, local, external, percent) =
        IF Len(probes) < 2 THEN Unknown(0)
        ELSE IF Values(DeltasOf(probes)) = {0}
        THEN Preserved(local, Values(PortsOf(probes)), Mapping(probes), Len(probes))
        ELSE Contain(Expand(named(Classify(Measured(probes, local, external),
                                           SpreadOf(probes, external), PortsOf(probes))), percent))
  BY Zenon DEF Analyze, Measured, SpreadOf, PortsOf, DeltasOf
<1>2. \A b : named(b) = Renamed(b, ~external /\ Trend(PortsOf(probes)))
  BY Zenon DEF Renamed
<1>. HIDE DEF named
<1>. QED
  BY <1>1, <1>2

\* What is measured are figures, and the prediction is a port.
LEMMA MeasuredType ==
  ASSUME NEW probes, IsProbes(probes), Len(probes) >= 1,
         NEW local \in Nat, NEW external \in BOOLEAN
  PROVE  /\ Measured(probes, local, external) \in Figures(Mapping(probes))
         /\ Framed(Measured(probes, local, external))
         /\ Measured(probes, local, external).pattern = "unknown"
         /\ Measured(probes, local, external).min = Min(Values(PortsOf(probes)))
         /\ Measured(probes, local, external).max = Max(Values(PortsOf(probes)))
<1>. DEFINE ports == PortsOf(probes)
            deltas == DeltasOf(probes)
            guess == IF external THEN ByPort(ports) ELSE ByDelta(deltas, local)
            g == guess[1]
            e == guess[2]
            q == InPortRange(g)
            shift == Shift(ports)
            p == InPortRange(q + shift)
            m == Mapping(probes)
            a == Measured(probes, local, external)
<1>1. /\ ports \in Seq(Int) /\ ports # <<>> /\ deltas \in Seq(Int) /\ deltas # <<>>
      /\ \A k \in DOMAIN ports : ports[k] > 0
      /\ Len(probes) \in Nat
  BY ProbeLists
<1>. HIDE DEF ports, deltas
<1>2. g \in Int /\ e \in Nat
  <2>1. CASE external
    <3>1. guess = ByPort(ports)
      BY <2>1
    <3>. QED
      BY <1>1, <3>1, ByPortType
  <2>2. CASE ~external
    <3>1. guess = ByDelta(deltas, local)
      BY <2>2
    <3>2. local \in Int
      OBVIOUS
    <3>. HIDE DEF guess
    <3>. QED
      BY <1>1, <3>1, <3>2, ByDeltaType
  <2>. QED
    BY <2>1, <2>2
<1>. HIDE DEF g, e
<1>3. shift \in Nat
  BY <1>1, ShiftType
<1>4. q \in Int
  BY <1>2, InRange
<1>. HIDE DEF q, shift
<1>5. p \in Int /\ MIN_PORT <= p /\ p <= MAX_PORT
  <2>. DEFINE x == q + shift
  <2>1. x \in Int
    BY <1>3, <1>4
  <2>. HIDE DEF x
  <2>2. InPortRange(x) \in Int /\ MIN_PORT <= InPortRange(x) /\ InPortRange(x) <= MAX_PORT
    BY <2>1, InRange
  <2>. QED
    BY <2>2 DEF x
<1>. HIDE DEF p
<1>6. /\ Min(Values(ports)) \in Int /\ Max(Values(ports)) \in Int
  BY <1>1, ListFacts
<1>7. /\ Min(Values(deltas)) \in Int /\ Max(Values(deltas)) \in Int /\ Median2(deltas) \in Int
  BY <1>1, ListFacts, MedianFacts
<1>. DEFINE lo == Max({MIN_PORT, p - e})
            hi == Min({MAX_PORT, p + e})
            dmin == IF external THEN 0 ELSE Min(Values(deltas))
            dmax == IF external THEN 0 ELSE Max(Values(deltas))
            d2 == IF external THEN 0 ELSE Median2(deltas)
<1>8. dmin \in Int /\ dmax \in Int /\ d2 \in Int
  BY <1>7
<1>9. lo \in Int /\ hi \in Int /\ MIN_PORT <= lo /\ hi > 0
  <2>. DEFINE x == p - e
              y == p + e
  <2>1. /\ x \in Int /\ y \in Int /\ y > 0
        /\ MIN_PORT \in Int /\ MAX_PORT \in Int /\ MAX_PORT > 0
    BY <1>2, <1>5, PortLimits
  <2>. HIDE DEF x, y
  <2>2. Max({MIN_PORT, x}) = IF MIN_PORT >= x THEN MIN_PORT ELSE x
    BY <2>1, OfTwo
  <2>3. Max({MIN_PORT, x}) \in Int /\ MIN_PORT <= Max({MIN_PORT, x})
    BY <2>1, <2>2
  <2>4. Min({MAX_PORT, y}) = IF MAX_PORT <= y THEN MAX_PORT ELSE y
    BY <2>1, OfTwo
  <2>5. Min({MAX_PORT, y}) \in Int /\ Min({MAX_PORT, y}) > 0
    BY <2>1, <2>4
  <2>. QED
    BY <2>3, <2>5 DEF x, y
<1>. DEFINE len == Len(probes)
            mn == Min(Values(ports))
            mx == Max(Values(ports))
            scan == e > 0
<1>10. a = [pattern |-> "unknown", allocation |-> "unbestimmt", mapping |-> m, n |-> len,
            min |-> mn, max |-> mx, deltaMin |-> dmin, deltaMax |-> dmax, delta2 |-> d2,
            predicted |-> p, error |-> e, shift |-> shift, scan |-> scan,
            start |-> lo, end |-> hi]
  BY DEF Measured, ports, deltas, g, e, q, shift, p
<1>11. len \in Nat /\ mn \in Int /\ mx \in Int /\ scan \in BOOLEAN
  BY <1>1, <1>2, <1>6
<1>. HIDE DEF lo, hi, dmin, dmax, d2, len, mn, mx, scan, m, a
<1>12. a \in Figures(m)
  BY <1>2, <1>3, <1>5, <1>8, <1>9, <1>10, <1>11 DEF Figures, Patterns, Allocations
<1>13. Framed(a)
  BY <1>5, <1>9, <1>10 DEF Framed
<1>14. a.pattern = "unknown" /\ a.min = mn /\ a.max = mx
  BY <1>10
<1>. QED
  BY <1>12, <1>13, <1>14 DEF a, m, mn, mx, ports

\* The name for a trend changes nothing else.
LEMMA RenamedStep ==
  ASSUME NEW m, NEW a \in Figures(m), Framed(a), NEW trend \in BOOLEAN
  PROVE  /\ Step(m, a, Renamed(a, trend))
         /\ a.allocation = "versatzstabil" =>
              Renamed(a, trend).allocation \in {"versatzstabil", "fortlaufend"}
         /\ Spans(a) => Spans(Renamed(a, trend))
<1>1. CASE ~(trend /\ a.allocation = "versatzstabil")
  <2>1. Renamed(a, trend) = a
    BY <1>1 DEF Renamed
  <2>. QED
    BY <2>1 DEF Step, SameFigures
<1>2. CASE trend /\ a.allocation = "versatzstabil"
  <2>1. Renamed(a, trend) = [a EXCEPT !.allocation = "fortlaufend"]
    BY <1>2 DEF Renamed
  <2>2. Renamed(a, trend) \in Figures(m)
    BY <2>1 DEF Figures, Allocations
  <2>3. /\ Framed(Renamed(a, trend)) /\ SameFigures(a, Renamed(a, trend))
        /\ Renamed(a, trend).allocation = "fortlaufend"
    BY <2>1 DEF Figures, Framed, SameFigures
  <2>4. Spans(a) => Spans(Renamed(a, trend))
    BY <2>1 DEF Figures, Spans
  <2>. QED
    BY <2>2, <2>3, <2>4 DEF Step
<1>. QED
  BY <1>1, <1>2

\* What an analysis of at least two probes with differing ports comes to.
Judged(a, measured, spread) ==
  /\ a \in Figures(measured.mapping)
  /\ MIN_PORT <= a.start /\ a.start <= a.predicted
  /\ a.predicted <= a.end /\ a.predicted <= MAX_PORT
  /\ SameFigures(measured, a) /\ Spans(a)
  /\ spread = 0 => a.allocation \in {"versatzstabil", "fortlaufend"}

\* An analysis keeps what was measured, its prediction is a port the relay may offer, and
\* its range holds the prediction, whatever the list of probes, the trend, the band, the
\* block and the percentage (nat_analyzer.py:205-219).
THEOREM AnalyzeSound ==
  ASSUME NEW probes, IsProbes(probes), Len(probes) >= 2, Values(DeltasOf(probes)) # {0},
         NEW local \in Nat, NEW external \in BOOLEAN, NEW percent \in Nat
  PROVE  Judged(Analyze(probes, local, external, percent),
                Measured(probes, local, external), SpreadOf(probes, external))
<1>. DEFINE ports == PortsOf(probes)
            trend == ~external /\ Trend(ports)
            spread == SpreadOf(probes, external)
            m == Mapping(probes)
            a == Measured(probes, local, external)
            b == Classify(a, spread, ports)
            d == Renamed(b, trend)
            e == Expand(d, percent)
            f == Contain(e)
<1>1. /\ ports \in Seq(Int) /\ ports # <<>> /\ \A k \in DOMAIN ports : ports[k] > 0
      /\ DeltasOf(probes) \in Seq(Int) /\ DeltasOf(probes) # <<>>
      /\ Len(probes) \in Nat
  <2>1. Len(probes) >= 1
    BY DEF IsProbes
  <2>. QED
    BY <2>1, ProbeLists
<1>2. Analyze(probes, local, external, percent) = f
  BY <1>1, AnalyzeSteps
<1>3. /\ a \in Figures(m) /\ Framed(a) /\ a.pattern = "unknown"
      /\ a.min = Min(Values(ports)) /\ a.max = Max(Values(ports))
  <2>1. Len(probes) >= 1
    BY <1>1
  <2>. QED
    BY <2>1, MeasuredType
<1>4. spread \in Nat
  <2>1. CASE external
    <3>1. spread = Width(ports)
      BY <2>1 DEF SpreadOf
    <3>. HIDE DEF ports, spread
    <3>. QED
      BY <1>1, <3>1, ListFacts
  <2>2. CASE ~external
    <3>1. spread = Width(DeltasOf(probes))
      BY <2>2 DEF SpreadOf
    <3>. HIDE DEF ports, spread
    <3>. QED
      BY <1>1, <3>1, ListFacts
  <2>. QED
    BY <2>1, <2>2
<1>5. trend \in BOOLEAN
  BY DEF Trend
<1>6. a.mapping = m
  BY <1>3 DEF Figures
<1>. HIDE DEF ports, trend, spread, a, m
<1>7. Step(m, a, b) /\ (spread = 0 => b.allocation = "versatzstabil") /\ Spans(b)
  BY <1>1, <1>3, <1>4, ClassifyStep
<1>. HIDE DEF b
<1>8. /\ Step(m, b, d)
      /\ b.allocation = "versatzstabil" => d.allocation \in {"versatzstabil", "fortlaufend"}
      /\ Spans(d)
  <2>1. b \in Figures(m) /\ Framed(b)
    BY <1>7 DEF Step
  <2>. QED
    BY <1>5, <1>7, <2>1, RenamedStep
<1>. HIDE DEF d
<1>9. Step(m, d, e) /\ e.allocation = d.allocation /\ Spans(e)
  <2>1. d \in Figures(m) /\ Framed(d)
    BY <1>8 DEF Step
  <2>. QED
    BY <1>8, <2>1, ExpandStep
<1>. HIDE DEF e
<1>10. /\ Step(m, e, f) /\ f.allocation = e.allocation
       /\ f.start <= f.predicted /\ f.predicted <= f.end /\ Spans(f)
  <2>1. e \in Figures(m) /\ Framed(e)
    BY <1>9 DEF Step
  <2>. QED
    BY <1>9, <2>1, ContainStep
<1>. HIDE DEF f
<1>11. f \in Figures(m) /\ Framed(f) /\ SameFigures(a, f)
  BY <1>7, <1>8, <1>9, <1>10 DEF Step, SameFigures
<1>12. spread = 0 => f.allocation \in {"versatzstabil", "fortlaufend"}
  BY <1>7, <1>8, <1>9, <1>10
<1>13. Judged(f, a, spread)
  BY <1>6, <1>10, <1>11, <1>12 DEF Judged, Framed
<1>. QED
  BY <1>2, <1>13 DEF a, spread

----------------------------------------------------------------------------
(* The mapping.                                                            *)

Locals(s) == {s[k].local : k \in DOMAIN s}
Dests(s) == {s[k].dest : k \in DOMAIN s}
At(s, l, z) == Values(SeenAt(s, l, z))

\* The local ports seen at every destination, and what one of them says.
Both(s) == {l \in Locals(s) : \A z \in Dests(s) : At(s, l, z) # {}}
Tied(s, l) == \A y, z \in Dests(s) : At(s, l, y) \cap At(s, l, z) # {}

\* Two connections of one local port to one destination had different ports outside.
Redrawn(s) ==
  \E j, k \in DOMAIN s :
    s[j].local = s[k].local /\ s[j].dest = s[k].dest /\ s[j].nat # s[k].nat

\* A finite set has more than one element if it has two.
LEMMA MoreThanOne ==
  ASSUME NEW S, IsFiniteSet(S)
  PROVE  /\ Cardinality(S) \in Nat
         /\ Cardinality(S) > 1 <=> \E x, y \in S : x # y
<1>1. Cardinality(S) \in Nat
  BY FS_CardinalityType
<1>2. ASSUME NEW x \in S, NEW y \in S, x # y PROVE Cardinality(S) > 1
  <2>1. {x} \in SUBSET S /\ {x} # S
    BY <1>2
  <2>2. Cardinality({x}) <= Cardinality(S) /\ Cardinality({x}) # Cardinality(S)
    BY <2>1, FS_Subset
  <2>3. Cardinality({x}) = 1
    BY FS_Singleton
  <2>. QED
    BY <1>1, <2>2, <2>3
<1>3. ASSUME \A x, y \in S : x = y PROVE ~(Cardinality(S) > 1)
  <2>1. CASE S = {}
    BY <2>1, FS_EmptySet
  <2>2. CASE \E x \in S : TRUE
    <3>1. PICK x \in S : TRUE
      BY <2>2
    <3>2. S = {x}
      BY <1>3
    <3>3. Cardinality(S) = 1
      BY <3>2, FS_Singleton
    <3>. QED
      BY <3>3
  <2>. QED
    BY <2>1, <2>2
<1>. QED
  BY <1>1, <1>2, <1>3

\* What a function takes finitely many places to is finite.
LEMMA FiniteValues ==
  ASSUME NEW s, IsFiniteSet(DOMAIN s), s = [k \in DOMAIN s |-> s[k]]
  PROVE  IsFiniteSet(Values(s))
<1>1. s \in Surjection(DOMAIN s, Values(s))
  <2>1. s \in [DOMAIN s -> Values(s)]
    BY DEF Values
  <2>2. \A v \in Values(s) : \E k \in DOMAIN s : s[k] = v
    BY DEF Values
  <2>. QED
    BY <2>1, <2>2 DEF Surjection
<1>. QED
  BY <1>1, FS_Surjection

\* The ports of a local port at a destination.
LEMMA AtFacts ==
  ASSUME NEW s, IsProbes(s)
  PROVE  /\ IsFiniteSet(DOMAIN s) /\ IsFiniteSet(Dests(s))
         /\ \A l, z : /\ IsFiniteSet(At(s, l, z))
                      /\ \A x : x \in At(s, l, z) <=>
                                  \E k \in DOMAIN s : s[k].local = l /\ s[k].dest = z /\ s[k].nat = x
<1>1. IsFiniteSet(DOMAIN s)
  <2>1. DOMAIN s = 1 .. Len(s) /\ Len(s) \in Nat
    BY DEF IsProbes
  <2>. QED
    BY <2>1, FS_Interval
<1>2. IsFiniteSet(Dests(s))
  <2>. DEFINE d == [k \in DOMAIN s |-> s[k].dest]
  <2>1. DOMAIN d = DOMAIN s /\ d = [k \in DOMAIN d |-> d[k]] /\ Values(d) = Dests(s)
    BY DEF Values, Dests
  <2>. HIDE DEF d
  <2>. QED
    BY <1>1, <2>1, FiniteValues
<1>3. ASSUME NEW l, NEW z
      PROVE  /\ IsFiniteSet(At(s, l, z))
             /\ \A x : x \in At(s, l, z) <=>
                         \E k \in DOMAIN s : s[k].local = l /\ s[k].dest = z /\ s[k].nat = x
  <2>. DEFINE f == SeenAt(s, l, z)
              D == {j \in DOMAIN s : s[j].local = l /\ s[j].dest = z}
  <2>1. f = [k \in D |-> s[k].nat]
    BY DEF SeenAt
  <2>2. D \in SUBSET DOMAIN s /\ At(s, l, z) = Values(f)
    BY DEF At
  <2>. HIDE DEF f
  <2>3. \A x : x \in Values(f) <=> \E k \in D : s[k].nat = x
    BY <2>1 DEF Values
  <2>4. DOMAIN f = D /\ f = [k \in DOMAIN f |-> f[k]]
    BY <2>1
  <2>5. IsFiniteSet(D)
    BY <1>1, <2>2, FS_Subset
  <2>6. IsFiniteSet(Values(f))
    BY <2>4, <2>5, FiniteValues
  <2>. QED
    BY <2>2, <2>3, <2>6
<1>. QED
  BY <1>1, <1>2, <1>3

\* A NAT that gives each connection another port is known by two connections of one pair.
LEMMA MappingRedrawn ==
  ASSUME NEW s, IsProbes(s)
  PROVE  (\E l \in Locals(s), z \in Dests(s) : Cardinality(At(s, l, z)) > 1) <=> Redrawn(s)
<1>1. ASSUME NEW l, NEW z
      PROVE  Cardinality(At(s, l, z)) > 1 <=>
               \E x, y \in At(s, l, z) : x # y
  <2>. DEFINE S == At(s, l, z)
  <2>1. IsFiniteSet(S)
    BY AtFacts
  <2>. HIDE DEF S
  <2>2. Cardinality(S) > 1 <=> \E x, y \in S : x # y
    BY <2>1, MoreThanOne
  <2>. QED
    BY <2>2 DEF S
<1>2. ASSUME NEW l \in Locals(s), NEW z \in Dests(s), Cardinality(At(s, l, z)) > 1
      PROVE  Redrawn(s)
  <2>1. PICK x, y \in At(s, l, z) : x # y
    BY <1>1, <1>2
  <2>2. PICK j \in DOMAIN s : s[j].local = l /\ s[j].dest = z /\ s[j].nat = x
    BY AtFacts
  <2>3. PICK k \in DOMAIN s : s[k].local = l /\ s[k].dest = z /\ s[k].nat = y
    BY AtFacts
  <2>. QED
    BY <2>1, <2>2, <2>3 DEF Redrawn
<1>3. ASSUME Redrawn(s)
      PROVE  \E l \in Locals(s), z \in Dests(s) : Cardinality(At(s, l, z)) > 1
  <2>1. PICK j, k \in DOMAIN s :
          s[j].local = s[k].local /\ s[j].dest = s[k].dest /\ s[j].nat # s[k].nat
    BY <1>3 DEF Redrawn
  <2>. DEFINE l == s[j].local
              z == s[j].dest
  <2>2. s[j].nat \in At(s, l, z) /\ s[k].nat \in At(s, l, z)
    BY <2>1, AtFacts
  <2>3. Cardinality(At(s, l, z)) > 1
    BY <1>1, <2>1, <2>2
  <2>4. l \in Locals(s) /\ z \in Dests(s)
    BY DEF Locals, Dests
  <2>. QED
    BY <2>3, <2>4
<1>. QED
  BY <1>2, <1>3

\* The verdict on a mapping, from the probes.
LEMMA MappingIs ==
  ASSUME NEW s, IsProbes(s)
  PROVE  /\ Redrawn(s) <=> Mapping(s) = "pro_verbindung"
         /\ \A v \in {"endpunktunabhaengig", "portabhaengig"} :
              /\ ~Redrawn(s)
              /\ \E j, k \in DOMAIN s : s[j].dest # s[k].dest
              /\ Both(s) # {}
              /\ \A l \in Both(s) : Tied(s, l) <=> v = "endpunktunabhaengig"
              => Mapping(s) = v
<1>. DEFINE saying(l) == IF Tied(s, l) THEN "endpunktunabhaengig" ELSE "portabhaengig"
            verdicts == {saying(l) : l \in Both(s)}
            many == \E l \in Locals(s), z \in Dests(s) : Cardinality(At(s, l, z)) > 1
            few == Cardinality(Dests(s)) < 2 \/ Cardinality(verdicts) # 1
            V == {"endpunktunabhaengig", "portabhaengig"}
<1>1. Mapping(s) = IF many THEN "pro_verbindung"
                   ELSE IF few THEN "unbestimmt"
                   ELSE CHOOSE v \in verdicts : TRUE
  BY Zenon DEF Mapping, Locals, Dests, At, Both, Tied
<1>2. many <=> Redrawn(s)
  BY MappingRedrawn
<1>3. verdicts \subseteq V
  OBVIOUS
<1>4. ASSUME NEW v, verdicts = {v} PROVE (CHOOSE w \in verdicts : TRUE) = v
  BY <1>4
<1>5. ASSUME ~few PROVE (CHOOSE w \in verdicts : TRUE) \in V
  <2>1. verdicts # {}
    <3>1. Cardinality(verdicts) = 1
      BY <1>5
    <3>. HIDE DEF verdicts
    <3>. QED
      BY <3>1, FS_EmptySet
  <2>. HIDE DEF verdicts
  <2>. QED
    BY <1>3, <2>1
<1>6. ASSUME NEW v \in V, ~Redrawn(s), \E j, k \in DOMAIN s : s[j].dest # s[k].dest,
             Both(s) # {}, \A l \in Both(s) : Tied(s, l) <=> v = "endpunktunabhaengig"
      PROVE  Mapping(s) = v
  <2>1. verdicts = {v}
    BY <1>6
  <2>2. Cardinality(verdicts) = 1
    BY <2>1, FS_Singleton
  <2>3. ~(Cardinality(Dests(s)) < 2)
    <3>1. IsFiniteSet(Dests(s))
      BY AtFacts
    <3>2. \E x, y \in Dests(s) : x # y
      BY <1>6 DEF Dests
    <3>3. Cardinality(Dests(s)) \in Nat /\ Cardinality(Dests(s)) > 1
      BY <3>1, <3>2, MoreThanOne
    <3>. QED
      BY <3>3
  <2>. HIDE DEF verdicts, many
  <2>. QED
    BY <1>1, <1>2, <1>4, <1>6, <2>1, <2>2, <2>3
<1>7. Redrawn(s) <=> Mapping(s) = "pro_verbindung"
  <2>. HIDE DEF verdicts, many, few
  <2>. QED
    BY <1>1, <1>2, <1>5
<1>. QED
  BY <1>6, <1>7

----------------------------------------------------------------------------
(* The addresses a peer is told (Candidates).                              *)

\* No element comes twice.
OneToOne(s) == \A j, k \in DOMAIN s : s[j] = s[k] => j = k

\* Those takes from a sequence the elements at the places, each of them, and nothing else.
LEMMA ThoseFacts ==
  ASSUME NEW S, NEW s \in Seq(S), NEW I \in SUBSET DOMAIN s
  PROVE  /\ Those(s, I) \in Seq(S)
         /\ \A j \in DOMAIN Those(s, I) : \E k \in I : Those(s, I)[j] = s[k]
         /\ \A k \in I : \E j \in DOMAIN Those(s, I) : Those(s, I)[j] = s[k]
         /\ 1 \in I => Those(s, I) # <<>> /\ Those(s, I)[1] = s[1]
         /\ (\A j, k \in I : s[j] = s[k] => j = k) => OneToOne(Those(s, I))
<1>. DEFINE Before(k) == {i \in I : i <= k}
            rank == [k \in I |-> Cardinality(Before(k))]
            n == Cardinality(I)
<1>1. /\ DOMAIN s = 1 .. Len(s) /\ Len(s) \in Nat /\ I \subseteq Nat /\ IsFiniteSet(I)
      /\ n \in Nat
  <2>1. DOMAIN s = 1 .. Len(s) /\ Len(s) \in Nat
    OBVIOUS
  <2>2. IsFiniteSet(1 .. Len(s))
    BY <2>1, FS_Interval
  <2>3. IsFiniteSet(I)
    BY <2>1, <2>2, FS_Subset
  <2>. QED
    BY <2>1, <2>3, FS_CardinalityType
<1>2. ASSUME NEW k \in I PROVE /\ IsFiniteSet(Before(k)) /\ k \in Before(k)
                               /\ rank[k] \in 1 .. n
  <2>1. Before(k) \in SUBSET I /\ k \in Before(k)
    BY <1>1
  <2>2. /\ IsFiniteSet(Before(k)) /\ Cardinality(Before(k)) <= n
    BY <1>1, <2>1, FS_Subset
  <2>3. Cardinality(Before(k)) \in Nat /\ Cardinality(Before(k)) # 0
    BY <2>1, <2>2, FS_CardinalityType, FS_EmptySet
  <2>. QED
    BY <1>1, <2>1, <2>2, <2>3
<1>3. ASSUME NEW k \in I, NEW m \in I, k < m PROVE rank[k] # rank[m]
  <2>1. Before(k) \in SUBSET Before(m) /\ m \notin Before(k) /\ m \in Before(m)
    BY <1>1, <1>3
  <2>2. IsFiniteSet(Before(m))
    BY <1>2
  <2>. QED
    BY <2>1, <2>2, FS_Subset
<1>4. ASSUME NEW k \in I, NEW m \in I, rank[k] = rank[m] PROVE k = m
  <2>1. k \in Nat /\ m \in Nat
    BY <1>1
  <2>2. ~(k < m) /\ ~(m < k)
    BY <1>3, <1>4
  <2>. QED
    BY <2>1, <2>2
<1>5. rank \in Injection(I, 1 .. n)
  <2>1. rank \in [I -> 1 .. n]
    BY <1>2
  <2>. HIDE DEF rank
  <2>. QED
    BY <1>4, <2>1 DEF Injection, IsInjective
<1>6. \A j \in 1 .. n : \E k \in I : rank[k] = j
  <2>1. IsFiniteSet(1 .. n) /\ Cardinality(1 .. n) = n
    BY <1>1, FS_Interval
  <2>. HIDE DEF rank, n
  <2>2. Cardinality(I) = Cardinality(1 .. n)
    BY <2>1 DEF n
  <2>3. rank \in Surjection(I, 1 .. n)
    BY <1>5, <2>1, <2>2, FS_Injection
  <2>. QED
    BY <2>3 DEF Surjection
<1>. DEFINE at(j) == CHOOSE k \in I : Cardinality({i \in I : i <= k}) = j
<1>7. ASSUME NEW j \in 1 .. n PROVE at(j) \in I /\ rank[at(j)] = j
  BY <1>6
<1>8. \A k \in I : at(rank[k]) = k
  BY <1>2, <1>4, <1>7
<1>9. Those(s, I) = [j \in 1 .. n |-> s[at(j)]]
  BY DEF Those
<1>. HIDE DEF at, rank
<1>10. \A j \in 1 .. n : s[at(j)] \in S
  BY <1>1, <1>7
<1>11. Those(s, I) \in Seq(S)
  <2>. HIDE DEF n
  <2>. QED
    BY <1>1, <1>9, <1>10
<1>. HIDE DEF n
<1>12. DOMAIN Those(s, I) = 1 .. n
  BY <1>9
<1>13. \A j \in DOMAIN Those(s, I) : \E k \in I : Those(s, I)[j] = s[k]
  BY <1>7, <1>9, <1>12
<1>14. ASSUME NEW k \in I PROVE \E j \in DOMAIN Those(s, I) : Those(s, I)[j] = s[k]
  BY <1>2, <1>8, <1>9, <1>12
<1>15. ASSUME 1 \in I PROVE Those(s, I) # <<>> /\ Those(s, I)[1] = s[1]
  <2>1. Before(1) = {1}
    BY <1>1, <1>15
  <2>2. rank[1] = 1 /\ 1 \in 1 .. n
    <3>1. Cardinality(Before(1)) = 1
      BY <2>1, FS_Singleton
    <3>. QED
      BY <1>2, <1>15, <3>1 DEF rank
  <2>3. Those(s, I)[1] = s[1]
    BY <1>8, <1>9, <1>15, <2>2
  <2>4. 1 \in DOMAIN Those(s, I)
    BY <1>12, <2>2
  <2>5. Those(s, I) # <<>>
    BY <2>4
  <2>. QED
    BY <2>3, <2>5
<1>16. ASSUME \A j, k \in I : s[j] = s[k] => j = k PROVE OneToOne(Those(s, I))
  <2>1. ASSUME NEW j \in 1 .. n, NEW k \in 1 .. n, s[at(j)] = s[at(k)] PROVE j = k
    <3>1. at(j) = at(k)
      BY <1>7, <1>16, <2>1
    <3>. QED
      BY <1>7, <3>1
  <2>. QED
    BY <1>9, <1>12, <2>1 DEF OneToOne
<1>. QED
  BY <1>11, <1>13, <1>14, <1>15, <1>16

\* Distinct keeps each element once, and the first in its place.
LEMMA DistinctFacts ==
  ASSUME NEW S, NEW s \in Seq(S)
  PROVE  /\ Distinct(s) \in Seq(S)
         /\ \A j \in DOMAIN Distinct(s) : \E k \in DOMAIN s : Distinct(s)[j] = s[k]
         /\ \A k \in DOMAIN s : \E j \in DOMAIN Distinct(s) : Distinct(s)[j] = s[k]
         /\ s # <<>> => Distinct(s) # <<>> /\ Distinct(s)[1] = s[1]
         /\ OneToOne(Distinct(s))
<1>. DEFINE I == {k \in DOMAIN s : \A j \in 1 .. k - 1 : s[j] # s[k]}
<1>1. I \in SUBSET DOMAIN s /\ Distinct(s) = Those(s, I)
  BY DEF Distinct
<1>2. ASSUME NEW k \in DOMAIN s PROVE \E i \in I : s[i] = s[k]
  <2>. DEFINE T == {i \in DOMAIN s : s[i] = s[k]}
  <2>1. DOMAIN s = 1 .. Len(s) /\ Len(s) \in Nat
    OBVIOUS
  <2>2. T \in SUBSET Nat /\ T # {}
    BY <2>1
  <2>3. PICK i \in T : \A y \in T : i <= y
    BY <2>2, LeastNatural
  <2>4. \A j \in 1 .. i - 1 : j \notin T /\ j \in DOMAIN s
    BY <2>1, <2>3
  <2>. QED
    BY <2>3, <2>4
<1>3. s # <<>> => 1 \in I
  OBVIOUS
<1>8. ASSUME NEW j \in I, NEW k \in I, s[j] = s[k] PROVE j = k
  <2>1. DOMAIN s = 1 .. Len(s) /\ Len(s) \in Nat
    OBVIOUS
  <2>2. ~(j < k) /\ ~(k < j)
    BY <1>8, <2>1
  <2>. QED
    BY <2>1, <2>2
<1>. HIDE DEF I
<1>4. /\ Those(s, I) \in Seq(S)
      /\ \A j \in DOMAIN Those(s, I) : \E k \in I : Those(s, I)[j] = s[k]
      /\ \A k \in I : \E j \in DOMAIN Those(s, I) : Those(s, I)[j] = s[k]
      /\ 1 \in I => Those(s, I) # <<>> /\ Those(s, I)[1] = s[1]
      /\ OneToOne(Those(s, I))
  BY <1>1, <1>8, ThoseFacts
<1>5. ASSUME NEW k \in DOMAIN s
      PROVE  \E j \in DOMAIN Those(s, I) : Those(s, I)[j] = s[k]
  <2>1. PICK i \in I : s[i] = s[k]
    BY <1>2
  <2>2. PICK j \in DOMAIN Those(s, I) : Those(s, I)[j] = s[i]
    BY <1>4
  <2>. QED
    BY <2>1, <2>2
<1>6. \A j \in DOMAIN Those(s, I) : \E k \in DOMAIN s : Those(s, I)[j] = s[k]
  BY <1>1, <1>4
<1>7. s # <<>> => Those(s, I) # <<>> /\ Those(s, I)[1] = s[1]
  BY <1>3, <1>4
<1>. QED
  BY <1>1, <1>4, <1>5, <1>6, <1>7

\* x is one of the elements of s.
Has(s, x) == \E j \in DOMAIN s : s[j] = x

\* A run of ports has every port from its first to its last.
LEMMA PortsFromFacts ==
  ASSUME NEW lo \in Int, NEW hi \in Int
  PROVE  /\ PortsFrom(lo, hi) \in Seq(Int)
         /\ \A x \in Int : lo <= x /\ x <= hi => Has(PortsFrom(lo, hi), x)
<1>. DEFINE n == hi - lo + 1
<1>1. PortsFrom(lo, hi) = [k \in 1 .. n |-> lo + k - 1] /\ n \in Int
  BY DEF PortsFrom
<1>2. PortsFrom(lo, hi) \in Seq(Int)
  <2>1. CASE n \in Nat
    BY <1>1, <2>1
  <2>2. CASE n \notin Nat
    <3>1. 1 .. n = 1 .. 0
      BY <1>1, <2>2
    <3>. QED
      BY <1>1, <3>1
  <2>. QED
    BY <2>1, <2>2
<1>3. ASSUME NEW x \in Int, lo <= x, x <= hi
      PROVE  Has(PortsFrom(lo, hi), x)
  <2>1. x - lo + 1 \in 1 .. n /\ lo + (x - lo + 1) - 1 = x
    BY <1>3
  <2>. QED
    BY <1>1, <2>1 DEF Has
<1>. QED
  BY <1>2, <1>3

\* An analysis whose range is worth trying and holds the prediction.
Open(a) ==
  /\ a.scan
  /\ a.start \in Int /\ a.end \in Int /\ a.predicted \in Int /\ a.min \in Int /\ a.max \in Int
  /\ a.start > 0 /\ a.start <= a.predicted /\ a.predicted <= a.end

\* A range that holds the prediction offers it first, whatever else it spreads.
LEMMA SpreadOpen ==
  ASSUME NEW a, Open(a), NEW k \in Nat, k >= 1
  PROVE  LET lo == Max({a.start, a.min})
             hi == Min({a.end, a.max})
             from == IF hi <= lo THEN a.start ELSE lo
             to == IF hi <= lo THEN a.end ELSE hi
         IN Spread(a, k) =
              Distinct(<<a.predicted>> \o
                       [i \in 1 .. k - 1 |->
                          from + IF k = 2 THEN 0
                                 ELSE RoundDiv((i - 1) * (to - from), k - 2)])
<1>. DEFINE lo == Max({a.start, a.min})
            hi == Min({a.end, a.max})
            from == IF hi <= lo THEN a.start ELSE lo
            to == IF hi <= lo THEN a.end ELSE hi
            p == a.predicted
            n == k - 1
<1>1. p \in a.start .. a.end
  BY DEF Open
<1>2. Spread(a, k) = Distinct(<<p>> \o Even(from, to, k - Len(<<p>>)))
  BY <1>1 DEF Spread
<1>. HIDE DEF from, to, p
<1>3. k - Len(<<p>>) = n /\ (n = 1 <=> k = 2) /\ n - 1 = k - 2
  OBVIOUS
<1>4. Even(from, to, n) =
        [i \in 1 .. n |-> from + IF n = 1 THEN 0 ELSE RoundDiv((i - 1) * (to - from), n - 1)]
  BY DEF Even
<1>5. Even(from, to, n) =
        [i \in 1 .. k - 1 |-> from + IF k = 2 THEN 0
                                     ELSE RoundDiv((i - 1) * (to - from), k - 2)]
  BY <1>3, <1>4
<1>6. Spread(a, k) = Distinct(<<p>> \o Even(from, to, n))
  BY <1>2, <1>3
<1>. QED
  BY <1>5, <1>6 DEF from, to, p

\* Ports spread over a band start with the prediction.
LEMMA SpreadFacts ==
  ASSUME NEW a, Open(a), NEW k \in Nat, k >= 1
  PROVE  Spread(a, k) \in Seq(Int) /\ Has(Spread(a, k), a.predicted)
<1>. DEFINE lo == Max({a.start, a.min})
            hi == Min({a.end, a.max})
            from == IF hi <= lo THEN a.start ELSE lo
            to == IF hi <= lo THEN a.end ELSE hi
            steps == [i \in 1 .. k - 1 |->
                        from + IF k = 2 THEN 0 ELSE RoundDiv((i - 1) * (to - from), k - 2)]
            p == a.predicted
            s == <<p>> \o steps
<1>1. lo \in Int /\ hi \in Int
  <2>. DEFINE w == a.start
              x == a.min
              y == a.end
              z == a.max
  <2>1. w \in Int /\ x \in Int /\ y \in Int /\ z \in Int
    BY DEF Open
  <2>. HIDE DEF w, x, y, z
  <2>2. Max({w, x}) = (IF w >= x THEN w ELSE x) /\ Min({y, z}) = (IF y <= z THEN y ELSE z)
    BY <2>1, OfTwo
  <2>3. Max({w, x}) \in Int /\ Min({y, z}) \in Int
    BY <2>1, <2>2
  <2>. QED
    BY <2>3 DEF w, x, y, z
<1>. HIDE DEF lo, hi
<1>2. from \in Int /\ to \in Int /\ p \in Int
  BY <1>1 DEF Open
<1>3. Spread(a, k) = Distinct(s)
  BY SpreadOpen DEF lo, hi
<1>. HIDE DEF from, to, p
<1>4. ASSUME NEW i \in 1 .. k - 1
      PROVE  from + (IF k = 2 THEN 0 ELSE RoundDiv((i - 1) * (to - from), k - 2)) \in Int
  <2>1. CASE k = 2
    BY <1>2, <2>1
  <2>2. CASE k # 2
    <3>. DEFINE x == (i - 1) * (to - from)
                b == k - 2
    <3>1. i - 1 \in Int /\ to - from \in Int
      BY <1>2
    <3>2. x \in Int
      BY <3>1
    <3>3. b \in Nat /\ b > 0
      BY <2>2
    <3>. HIDE DEF x, b
    <3>4. RoundDiv(x, b) \in Int
      BY <3>2, <3>3, RoundDivType
    <3>5. from + RoundDiv(x, b) \in Int
      BY <1>2, <3>4
    <3>. QED
      BY <2>2, <3>5 DEF x, b
  <2>. QED
    BY <2>1, <2>2
<1>5. steps \in Seq(Int)
  <2>1. steps \in [1 .. k - 1 -> Int] /\ k - 1 \in Nat
    BY <1>4
  <2>. HIDE DEF steps
  <2>. QED
    BY <2>1
<1>. HIDE DEF steps
<1>6. s \in Seq(Int) /\ s # <<>> /\ s[1] = p
  BY <1>2, <1>5
<1>. HIDE DEF s
<1>7. Distinct(s) \in Seq(Int) /\ Distinct(s) # <<>> /\ Distinct(s)[1] = s[1]
  BY <1>6, DistinctFacts
<1>8. 1 \in DOMAIN Distinct(s)
  BY <1>7
<1>. QED
  BY <1>3, <1>6, <1>7, <1>8 DEF Has, p

\* A window holds the prediction, wherever the range ends.
LEMMA WindowFacts ==
  ASSUME NEW a, Open(a), NEW k \in Nat, k >= 1
  PROVE  Window(a, k) \in Seq(Int) /\ Has(Window(a, k), a.predicted)
<1>. DEFINE p == a.predicted
            s == a.start
            e == a.end
            back == p - k \div 2
            first == Max({s, back})
            low == e - k + 1
            lower == Max({s, low})
            last == first + k - 1
<1>1. p \in Int /\ s \in Int /\ e \in Int /\ s <= p /\ p <= e
  BY DEF Open
<1>2. Window(a, k) = IF last > e THEN PortsFrom(lower, e) ELSE PortsFrom(first, last)
  BY DEF Window
<1>3. k \div 2 \in Nat /\ k \div 2 <= k - 1
  OBVIOUS
<1>. HIDE DEF p, s, e
<1>4. back \in Int /\ low \in Int /\ back <= p /\ p <= back + k - 1
  BY <1>1, <1>3
<1>. HIDE DEF back
<1>5. first \in Int /\ first <= p /\ back <= first
  <2>1. first = IF s >= back THEN s ELSE back
    BY <1>1, <1>4, OfTwo
  <2>. HIDE DEF first
  <2>. QED
    BY <1>1, <1>4, <2>1
<1>. HIDE DEF first
<1>6. CASE last > e
  <2>1. low <= p
    BY <1>1, <1>5, <1>6
  <2>. HIDE DEF low
  <2>2. lower = IF s >= low THEN s ELSE low
    BY <1>1, <1>4, OfTwo
  <2>3. lower \in Int /\ lower <= p
    BY <1>1, <1>4, <2>1, <2>2
  <2>. HIDE DEF lower
  <2>4. PortsFrom(lower, e) \in Seq(Int) /\ Has(PortsFrom(lower, e), p)
    BY <1>1, <2>3, PortsFromFacts
  <2>. QED
    BY <1>2, <1>6, <2>4 DEF p
<1>7. CASE ~(last > e)
  <2>1. last \in Int /\ p <= last
    BY <1>1, <1>4, <1>5
  <2>. HIDE DEF last
  <2>2. PortsFrom(first, last) \in Seq(Int) /\ Has(PortsFrom(first, last), p)
    BY <1>1, <1>5, <2>1, PortsFromFacts
  <2>. QED
    BY <1>2, <1>7, <2>2 DEF p
<1>. QED
  BY <1>6, <1>7

\* Whatever the budget, the prediction is among the candidates.
LEMMA CandidateFacts ==
  ASSUME NEW a, Open(a), NEW k \in Nat, k >= 1
  PROVE  CandidatePorts(a, k) \in Seq(Int) /\ Has(CandidatePorts(a, k), a.predicted)
<1>1. a.scan /\ ~(a.start <= 0) /\ ~(a.end < a.start)
  BY DEF Open
<1>2. CASE a.end - a.start + 1 <= k
  <2>1. CandidatePorts(a, k) = PortsFrom(a.start, a.end)
    BY <1>1, <1>2 DEF CandidatePorts
  <2>. DEFINE s == a.start
              e == a.end
              p == a.predicted
  <2>2. s \in Int /\ e \in Int /\ p \in Int /\ s <= p /\ p <= e
    BY DEF Open
  <2>. HIDE DEF s, e, p
  <2>3. PortsFrom(s, e) \in Seq(Int) /\ Has(PortsFrom(s, e), p)
    BY <2>2, PortsFromFacts
  <2>. QED
    BY <2>1, <2>3 DEF s, e, p
<1>3. CASE ~(a.end - a.start + 1 <= k)
  <2>1. CandidatePorts(a, k) = Spread(a, k) \/ CandidatePorts(a, k) = Window(a, k)
    BY <1>1, <1>3 DEF CandidatePorts
  <2>. QED
    BY <2>1, SpreadFacts, WindowFacts
<1>. QED
  BY <1>2, <1>3

\* The part of a band to be opened.
LEMMA ShareType ==
  ASSUME NEW m \in 1 .. 16
  PROVE  Share(m) \in Nat
<1>. DEFINE table == <<95000, 77639, 63160, 52713, 45072, 39304, 34816, 31234,
                       28313, 25887, 23840, 22092, 20582, 19264, 18104, 17075>>
<1>1. table \in [1 .. 16 -> Nat]
  OBVIOUS
<1>2. Share(m) = table[m]
  BY DEF Share
<1>. HIDE DEF table
<1>. QED
  BY <1>1, <1>2

\* Of a client with at least two probes at least one port is to be opened.
LEMMA NeededType ==
  ASSUME NEW a, a.scan, a.n \in Nat, a.n >= 2, a.min \in Int, a.max \in Int,
         NEW m \in 1 .. 16, NEW ceiling \in Nat
  PROVE  Needed(a, m, ceiling) \in Nat /\ Needed(a, m, ceiling) >= 1
<1>1. CASE a.max <= a.min
  <2>1. Needed(a, m, ceiling) = 1
    BY <1>1 DEF Needed
  <2>. QED
    BY <2>1
<1>2. CASE ~(a.max <= a.min)
  <2>. DEFINE x == (a.max - a.min) * (a.n + 1) * Share(m)
              b == (a.n - 1) * 100000
              d == CeilDiv(x, b)
              y == Min({ceiling, d})
              one == 1
  <2>1. Needed(a, m, ceiling) = Max({one, y})
    BY <1>2 DEF Needed
  <2>2. x \in Int
    <3>1. a.max - a.min \in Int /\ a.n + 1 \in Int /\ Share(m) \in Int
      BY ShareType
    <3>2. \A u, v, w \in Int : u * v * w \in Int
      OBVIOUS
    <3>. QED
      BY <3>1, <3>2
  <2>3. b \in Nat /\ b > 0
    OBVIOUS
  <2>. HIDE DEF x, b
  <2>4. d \in Int
    BY <2>2, <2>3 DEF CeilDiv
  <2>. HIDE DEF d
  <2>5. y \in Int
    <3>1. y = IF ceiling <= d THEN ceiling ELSE d
      BY <2>4, OfTwo
    <3>. QED
      BY <2>4, <3>1
  <2>6. one \in Int /\ one = 1
    OBVIOUS
  <2>. HIDE DEF y, one
  <2>7. Max({one, y}) = IF one >= y THEN one ELSE y
    BY <2>5, <2>6, OfTwo
  <2>. QED
    BY <2>1, <2>5, <2>6, <2>7
<1>. QED
  BY <1>1, <1>2

\* The addresses told: the LAN address or the port of the connection first, the latter
\* among them in any case, and the prediction wherever a range is to be tried, whatever
\* the budget (nat_analyzer.py:587-623, utils.py:54-64).
THEOREM PeerFacts ==
  ASSUME NEW a, NEW primary, NEW lan \in Nat, NEW m \in 1 .. 16, NEW ceiling \in Nat,
         a.scan => Open(a) /\ a.n \in Nat /\ a.n >= 2
  PROVE  LET s == PeerAddresses(a, primary, lan, m, ceiling)
         IN /\ s # <<>> /\ Head(s) = IF lan > 0 THEN InLan(lan) ELSE Public(primary)
            /\ Has(s, Public(primary))
            /\ a.scan => Has(s, Public(a.predicted))
            /\ a.scan => \A x : Has(CandidatePorts(a, Needed(a, m, ceiling)), x) =>
                               Has(s, Public(x))
            /\ OneToOne(s) /\ s \in Seq(ToSet(s))
            /\ \A i \in DOMAIN s : s[i].lan <=> (i = 1 /\ lan > 0)
<1>. DEFINE k == Needed(a, m, ceiling)
            ports == IF a.scan THEN CandidatePorts(a, k) ELSE <<>>
            known == IF lan > 0 THEN <<InLan(lan), Public(primary)>> ELSE <<Public(primary)>>
            more == [i \in DOMAIN ports |-> Public(ports[i])]
            S == {x \in {InLan(lan)} : lan > 0} \cup {Public(primary)} \cup {Public(x) : x \in Int}
            s == known \o more
<1>1. PeerAddresses(a, primary, lan, m, ceiling) = Distinct(s)
  BY DEF PeerAddresses
<1>2. /\ known \in Seq(S) /\ Len(known) \in {1, 2} /\ Has(known, Public(primary))
      /\ known[1] = IF lan > 0 THEN InLan(lan) ELSE Public(primary)
  <2>. DEFINE x == InLan(lan)
              y == Public(primary)
  <2>1. y \in S /\ (lan > 0 => x \in S)
    OBVIOUS
  <2>2. CASE lan > 0
    <3>1. known = <<x, y>>
      BY <2>2
    <3>. HIDE DEF x, y, S, known
    <3>2. known \in Seq(S) /\ Len(known) = 2 /\ known[1] = x /\ known[2] = y
      BY <2>1, <2>2, <3>1
    <3>3. Has(known, y)
      BY <3>2 DEF Has
    <3>. QED
      BY <2>2, <3>2, <3>3 DEF x, y
  <2>3. CASE ~(lan > 0)
    <3>1. known = <<y>>
      BY <2>3
    <3>. HIDE DEF x, y, S, known
    <3>2. known \in Seq(S) /\ Len(known) = 1 /\ known[1] = y
      BY <2>1, <3>1
    <3>3. Has(known, y)
      BY <3>2 DEF Has
    <3>. QED
      BY <2>3, <3>2, <3>3 DEF x, y
  <2>. QED
    BY <2>2, <2>3
<1>. HIDE DEF known
<1>3. ports \in Seq(Int) /\ (a.scan => Has(ports, a.predicted))
  <2>1. CASE a.scan
    <3>1. k \in Nat /\ k >= 1
      <4>1. a.n \in Nat /\ a.n >= 2 /\ a.min \in Int /\ a.max \in Int
        BY <2>1 DEF Open
      <4>. QED
        BY <2>1, <4>1, NeededType
    <3>2. ports = CandidatePorts(a, k)
      BY <2>1
    <3>. HIDE DEF k, ports
    <3>. QED
      BY <2>1, <3>1, <3>2, CandidateFacts
  <2>2. CASE ~a.scan
    BY <2>2
  <2>. QED
    BY <2>1, <2>2
<1>15. a.scan => ports = CandidatePorts(a, k)
  OBVIOUS
<1>. HIDE DEF ports
<1>4. /\ more \in Seq(S) /\ (a.scan => Has(more, Public(a.predicted)))
      /\ \A x : Has(ports, x) => Has(more, Public(x))
  <2>1. DOMAIN ports = 1 .. Len(ports) /\ Len(ports) \in Nat
    BY <1>3
  <2>2. \A i \in DOMAIN ports : Public(ports[i]) \in S
    BY <1>3
  <2>3. more \in Seq(S)
    <3>. HIDE DEF S
    <3>. QED
      BY <2>1, <2>2
  <2>4. \A x : Has(ports, x) => Has(more, Public(x))
    BY DEF Has
  <2>5. a.scan => Has(more, Public(a.predicted))
    BY <1>3, <2>4
  <2>. QED
    BY <2>3, <2>4, <2>5
<1>10. \A x \in S : x.lan <=> (lan > 0 /\ x = InLan(lan))
  BY DEF InLan, Public
<1>. HIDE DEF more, S
<1>5. /\ s \in Seq(S) /\ s # <<>> /\ s[1] = known[1]
      /\ Len(s) = Len(known) + Len(more)
      /\ \A i \in 1 .. Len(known) : s[i] = known[i]
      /\ \A i \in 1 .. Len(more) : s[Len(known) + i] = more[i]
  BY <1>2, <1>4
<1>6. \A x : Has(known, x) \/ Has(more, x) => Has(s, x)
  <2>1. /\ DOMAIN known = 1 .. Len(known) /\ DOMAIN more = 1 .. Len(more)
        /\ DOMAIN s = 1 .. Len(s) /\ Len(known) \in Nat /\ Len(more) \in Nat
    BY <1>2, <1>4, <1>5
  <2>. HIDE DEF s
  <2>2. \A i \in DOMAIN known : i \in DOMAIN s
    BY <1>5, <2>1
  <2>3. \A i \in DOMAIN more : Len(known) + i \in DOMAIN s
    BY <1>5, <2>1
  <2>. QED
    BY <1>5, <2>1, <2>2, <2>3 DEF Has
<1>. HIDE DEF s
<1>7. /\ Distinct(s) \in Seq(S) /\ Distinct(s) # <<>> /\ Distinct(s)[1] = s[1]
      /\ \A i \in DOMAIN s : \E j \in DOMAIN Distinct(s) : Distinct(s)[j] = s[i]
      /\ OneToOne(Distinct(s))
  BY <1>5, DistinctFacts
<1>8. \A x : Has(s, x) => Has(Distinct(s), x)
  BY <1>7 DEF Has
<1>9. Head(Distinct(s)) = Distinct(s)[1]
  BY <1>7
<1>11. ASSUME NEW i \in DOMAIN Distinct(s)
       PROVE  Distinct(s)[i].lan <=> (i = 1 /\ lan > 0)
  <2>1. Distinct(s)[i] \in S /\ 1 \in DOMAIN Distinct(s)
    BY <1>7
  <2>2. lan > 0 => Distinct(s)[1] = InLan(lan)
    BY <1>2, <1>5, <1>7
  <2>3. lan > 0 => (Distinct(s)[i] = InLan(lan) <=> i = 1)
    BY <1>7, <2>1, <2>2 DEF OneToOne
  <2>. QED
    BY <1>10, <2>1, <2>3
<1>12. Distinct(s) \in Seq(ToSet(Distinct(s)))
  BY <1>7 DEF ToSet
<1>13. /\ \A i \in DOMAIN Distinct(s) : Distinct(s)[i].lan <=> (i = 1 /\ lan > 0)
       /\ OneToOne(Distinct(s))
  BY <1>7, <1>11
<1>14. /\ Distinct(s) # <<>> /\ Head(Distinct(s)) = IF lan > 0 THEN InLan(lan) ELSE Public(primary)
       /\ Has(Distinct(s), Public(primary))
       /\ a.scan => Has(Distinct(s), Public(a.predicted))
  BY <1>2, <1>4, <1>5, <1>6, <1>7, <1>8, <1>9, ZenonT(30)
<1>16. a.scan => \A x : Has(CandidatePorts(a, k), x) => Has(Distinct(s), Public(x))
  BY <1>4, <1>6, <1>8, <1>15
<1>. QED
  BY <1>1, <1>12, <1>13, <1>14, <1>16

----------------------------------------------------------------------------
(* A band and the ports told of it (nat_analyzer.py, build_candidate_ports). *)

\* The rungs from lo to hi, at d equal steps, rounded.
Rung(i, lo, hi, d) == lo + RoundDiv((i - 1) * (hi - lo), d)

\* They begin at lo, end at hi, and above every number below hi the next is not far.
LEMMA RungsCover ==
  ASSUME NEW lo \in Int, NEW hi \in Int, lo < hi, NEW d \in Nat, d > 0
  PROVE  /\ \A i \in 1 .. d + 1 : Rung(i, lo, hi, d) \in lo .. hi
         /\ Rung(1, lo, hi, d) = lo /\ Rung(d + 1, lo, hi, d) = hi
         /\ \A x \in lo .. hi : x < hi =>
              \E i \in 1 .. d + 1 : /\ x < Rung(i, lo, hi, d)
                                    /\ Rung(i, lo, hi, d) - x <= CeilDiv(hi - lo, d)
<1>. DEFINE w == hi - lo
            R(i) == RoundDiv((i - 1) * w, d)
            c == CeilDiv(w, d)
<1>1. w \in Nat /\ w > 0 /\ hi = lo + w
  OBVIOUS
<1>2. \A i : Rung(i, lo, hi, d) = lo + R(i)
  BY DEF Rung
<1>3. c \in Nat
  BY <1>1, CeilFacts
<1>4. CeilDiv(hi - lo, d) = c
  OBVIOUS
<1>. HIDE DEF w, c
<1>5. ASSUME NEW i \in 1 .. d + 1 PROVE R(i) \in Nat /\ R(i) <= w
  <2>. DEFINE x == (i - 1) * w
              r == RoundDiv(x, d)
  <2>1. x \in Nat /\ x <= d * w /\ d * w \in Nat
    <3>1. i - 1 \in Nat /\ i - 1 <= d
      OBVIOUS
    <3>. QED
      BY <1>1, <3>1
  <2>. HIDE DEF x
  <2>2. r \in Nat /\ 2 * (d * r) <= 2 * x + d
    BY <2>1, RoundWithin
  <2>. HIDE DEF r
  <2>3. r <= w
    <3>1. SUFFICES ASSUME r >= w + 1 PROVE FALSE
      BY <1>1, <2>2
    <3>2. d * (w + 1) <= d * r /\ d * (w + 1) = d * w + d /\ d * r \in Nat
      BY <1>1, <2>2, <3>1
    <3>. QED
      BY <2>1, <2>2, <3>2
  <2>. QED
    BY <2>2, <2>3 DEF r, x
<1>6. R(1) = 0
  <2>. DEFINE z == 0
  <2>1. z \in Nat /\ (1 - 1) * w = d * z
    BY <1>1
  <2>. HIDE DEF z
  <2>2. R(1) = z
    BY <2>1, RoundExact
  <2>. QED
    BY <2>2 DEF z
<1>7. R(d + 1) = w
  <2>1. (d + 1 - 1) * w = d * w
    BY <1>1
  <2>. QED
    BY <1>1, <2>1, RoundExact
<1>8. ASSUME NEW i \in 1 .. d PROVE R(i + 1) <= R(i) + c
  <2>. DEFINE j == i - 1
  <2>1. j \in Nat /\ i + 1 - 1 = j + 1
    OBVIOUS
  <2>. HIDE DEF j
  <2>2. RoundDiv((j + 1) * w, d) <= RoundDiv(j * w, d) + CeilDiv(w, d)
    BY <1>1, <2>1, StepGap
  <2>. QED
    BY <2>1, <2>2 DEF j, c
<1>. HIDE DEF R
<1>9. ASSUME NEW x \in lo .. hi, x < hi
      PROVE  \E i \in 1 .. d + 1 : x < lo + R(i) /\ lo + R(i) - x <= c
  <2>. DEFINE Above == {i \in 1 .. d + 1 : x < lo + R(i)}
  <2>1. d + 1 \in Above /\ Above \in SUBSET Nat
    BY <1>1, <1>7, <1>9
  <2>2. PICK i \in Above : \A j \in Above : i <= j
    BY <2>1, LeastNatural
  <2>3. i \in 1 .. d + 1 /\ x < lo + R(i) /\ i # 1
    BY <1>6, <2>2
  <2>. DEFINE j == i - 1
  <2>4. j \in 1 .. d /\ i = j + 1 /\ j < i
    BY <2>3
  <2>. HIDE DEF j
  <2>5. ~(x < lo + R(j))
    <3>1. j \in 1 .. d + 1 /\ ~(i <= j)
      BY <2>3, <2>4
    <3>. QED
      BY <2>2, <3>1
  <2>6. R(i) <= R(j) + c /\ R(i) \in Nat /\ R(j) \in Nat
    BY <1>5, <1>8, <2>4
  <2>7. lo + R(i) - x <= c
    BY <1>3, <2>5, <2>6
  <2>. QED
    BY <2>3, <2>7
<1>10. \A i \in 1 .. d + 1 : lo + R(i) \in lo .. hi
  BY <1>1, <1>5
<1>11. lo + R(1) = lo /\ lo + R(d + 1) = hi
  BY <1>1, <1>6, <1>7
<1>12. \A i \in 1 .. d + 1 : Rung(i, lo, hi, d) \in lo .. hi
  BY <1>2, <1>10
<1>13. Rung(1, lo, hi, d) = lo /\ Rung(d + 1, lo, hi, d) = hi
  BY <1>2, <1>11
<1>14. ASSUME NEW x \in lo .. hi, x < hi
       PROVE  \E i \in 1 .. d + 1 : /\ x < Rung(i, lo, hi, d)
                                    /\ Rung(i, lo, hi, d) - x <= CeilDiv(hi - lo, d)
  <2>1. PICK i \in 1 .. d + 1 : x < lo + R(i) /\ lo + R(i) - x <= c
    BY <1>9, <1>14
  <2>2. Rung(i, lo, hi, d) = lo + R(i)
    BY <1>2
  <2>3. x < Rung(i, lo, hi, d)
    BY <2>1, <2>2
  <2>4. Rung(i, lo, hi, d) - x <= CeilDiv(hi - lo, d)
    BY <1>4, <1>5, <2>1, <2>2
  <2>. QED
    BY <2>3, <2>4, Zenon
<1>. QED
  BY <1>12, <1>13, <1>14

\* More band than budget: of the ports between the least and the greatest, both included,
\* some are left out, but no more in a row than the budget requires.
Covers(ports, lo, hi, c) ==
  /\ Has(ports, lo) /\ Has(ports, hi)
  /\ \A x \in lo .. hi : x < hi =>
       \E y \in lo .. hi : Has(ports, y) /\ x < y /\ y - x <= c

LEMMA SpreadCovers ==
  ASSUME NEW a, Open(a), NEW k \in Nat, k > 2,
         a.start <= a.min, a.min < a.max, a.max <= a.end
  PROVE  Covers(Spread(a, k), a.min, a.max, CeilDiv(a.max - a.min, k - 2))
<1>. DEFINE from == a.min
            to == a.max
            d == k - 2
            p == a.predicted
            steps == [i \in 1 .. k - 1 |->
                        from + (IF k = 2 THEN 0 ELSE RoundDiv((i - 1) * (to - from), k - 2))]
            s == <<p>> \o steps
            c == CeilDiv(to - from, d)
<1>1. from \in Int /\ to \in Int /\ from < to /\ p \in Int /\ d \in Nat /\ d > 0 /\ k - 1 = d + 1
  BY DEF Open
<1>2. Spread(a, k) = Distinct(s)
  <2>. DEFINE lo == Max({a.start, a.min})
              hi == Min({a.end, a.max})
              f == IF hi <= lo THEN a.start ELSE lo
              t == IF hi <= lo THEN a.end ELSE hi
  <2>1. Spread(a, k) = Distinct(<<p>> \o [i \in 1 .. k - 1 |->
                         f + IF k = 2 THEN 0 ELSE RoundDiv((i - 1) * (t - f), k - 2)])
    <3>1. k >= 1
      OBVIOUS
    <3>. QED
      BY <3>1, SpreadOpen, Zenon
  <2>2. lo = a.min
    <3>. DEFINE x == a.start
                y == a.min
    <3>1. x \in Int /\ y \in Int /\ x <= y
      BY DEF Open
    <3>. HIDE DEF x, y
    <3>2. Max({x, y}) = y
      BY <3>1, OfTwo
    <3>. QED
      BY <3>2 DEF x, y
  <2>3. hi = a.max
    <3>. DEFINE x == a.end
                y == a.max
    <3>1. x \in Int /\ y \in Int /\ y <= x
      BY DEF Open
    <3>. HIDE DEF x, y
    <3>2. Min({x, y}) = y
      BY <3>1, OfTwo
    <3>. QED
      BY <3>2 DEF x, y
  <2>. HIDE DEF lo, hi
  <2>4. f = from /\ t = to
    BY <1>1, <2>2, <2>3
  <2>. QED
    BY <2>1, <2>4
<1>. HIDE DEF from, to, p
<1>3. steps = [i \in 1 .. d + 1 |-> Rung(i, from, to, d)]
  <2>1. k # 2
    OBVIOUS
  <2>. QED
    BY <1>1, <2>1 DEF Rung
<1>. HIDE DEF steps, d
<1>4. /\ \A i \in 1 .. d + 1 : Rung(i, from, to, d) \in from .. to
      /\ Rung(1, from, to, d) = from /\ Rung(d + 1, from, to, d) = to
      /\ \A x \in from .. to : x < to =>
           \E i \in 1 .. d + 1 : /\ x < Rung(i, from, to, d)
                                 /\ Rung(i, from, to, d) - x <= CeilDiv(to - from, d)
  BY <1>1, RungsCover
<1>5. steps \in Seq(Int) /\ Len(steps) = d + 1
  <2>1. steps \in [1 .. d + 1 -> Int] /\ d + 1 \in Nat
    BY <1>1, <1>3, <1>4
  <2>. QED
    BY <2>1
<1>6. s \in Seq(Int) /\ \A i \in 1 .. d + 1 : i + 1 \in DOMAIN s /\ s[i + 1] = steps[i]
  BY <1>1, <1>5
<1>. HIDE DEF s
<1>7. ASSUME NEW i \in 1 .. d + 1 PROVE Has(Distinct(s), Rung(i, from, to, d))
  <2>1. i + 1 \in DOMAIN s /\ s[i + 1] = Rung(i, from, to, d)
    BY <1>3, <1>6
  <2>2. \E j \in DOMAIN Distinct(s) : Distinct(s)[j] = s[i + 1]
    BY <1>6, <2>1, DistinctFacts
  <2>. QED
    BY <2>1, <2>2 DEF Has
<1>. HIDE DEF c
<1>8. Has(Distinct(s), from) /\ Has(Distinct(s), to)
  <2>1. 1 \in 1 .. d + 1 /\ d + 1 \in 1 .. d + 1
    BY <1>1
  <2>. QED
    BY <1>4, <1>7, <2>1
<1>9. ASSUME NEW x \in from .. to, x < to
      PROVE  \E y \in from .. to : Has(Distinct(s), y) /\ x < y /\ y - x <= c
  <2>1. PICK i \in 1 .. d + 1 : /\ x < Rung(i, from, to, d)
                                /\ Rung(i, from, to, d) - x <= CeilDiv(to - from, d)
    BY <1>4, <1>9
  <2>2. Rung(i, from, to, d) \in from .. to /\ Has(Distinct(s), Rung(i, from, to, d))
    BY <1>4, <1>7
  <2>. QED
    BY <2>1, <2>2 DEF c
<1>10. Covers(Distinct(s), from, to, c)
  BY <1>8, <1>9 DEF Covers
<1>. QED
  BY <1>2, <1>10 DEF c, from, to, d

\* What the candidates have of a band: all of it, or ports that cover it.
LEMMA BandCandidates ==
  ASSUME NEW a, Open(a), a.pattern = "random_like", NEW k \in Nat,
         a.start <= a.min, a.min <= a.max, a.max <= a.end
  PROVE  /\ a.end - a.start < k => \A x \in a.min .. a.max : Has(CandidatePorts(a, k), x)
         /\ ~(a.end - a.start < k) /\ k > 2 /\ a.min < a.max =>
              Covers(CandidatePorts(a, k), a.min, a.max, CeilDiv(a.max - a.min, k - 2))
<1>1. a.scan /\ ~(a.start <= 0) /\ ~(a.end < a.start)
  BY DEF Open
<1>2. /\ a.start \in Int /\ a.end \in Int /\ a.min \in Int /\ a.max \in Int
  BY DEF Open
<1>3. ASSUME a.end - a.start < k, NEW x \in a.min .. a.max PROVE Has(CandidatePorts(a, k), x)
  <2>1. a.end - a.start + 1 <= k
    BY <1>2, <1>3
  <2>2. CandidatePorts(a, k) = PortsFrom(a.start, a.end)
    BY <1>1, <2>1 DEF CandidatePorts
  <2>3. x \in Int /\ a.start <= x /\ x <= a.end
    BY <1>2
  <2>4. Has(PortsFrom(a.start, a.end), x)
    BY <1>2, <2>3, PortsFromFacts
  <2>. QED
    BY <2>2, <2>4
<1>4. ASSUME ~(a.end - a.start < k), k > 2, a.min < a.max
      PROVE  Covers(CandidatePorts(a, k), a.min, a.max, CeilDiv(a.max - a.min, k - 2))
  <2>1. ~(a.end - a.start + 1 <= k)
    BY <1>2, <1>4
  <2>2. CandidatePorts(a, k) = Spread(a, k)
    BY <1>1, <2>1 DEF CandidatePorts
  <2>. QED
    BY <1>4, <2>2, SpreadCovers
<1>. QED
  BY <1>3, <1>4

\* A budget of more than one port is one for ports that differ.
LEMMA NeededMany ==
  ASSUME NEW a, a.scan, a.n \in Nat, a.n >= 2, a.min \in Int, a.max \in Int,
         NEW m, NEW ceiling, Needed(a, m, ceiling) > 2
  PROVE  a.min < a.max
<1>1. CASE a.max <= a.min
  <2>1. Needed(a, m, ceiling) = 1
    BY <1>1 DEF Needed
  <2>. QED
    BY <2>1
<1>. QED
  BY <1>1

----------------------------------------------------------------------------
(* Thinning a list of addresses (strategy.rs, build_targets).               *)

\* The elements of a list without repetition are as many as it is long.
LEMMA CountOfList ==
  ASSUME NEW S, NEW s \in Seq(S), OneToOne(s)
  PROVE  IsFiniteSet(ToSet(s)) /\ Cardinality(ToSet(s)) = Len(s)
<1>. DEFINE I == 1 .. Len(s)
            T == ToSet(s)
<1>1. DOMAIN s = I /\ Len(s) \in Nat
  OBVIOUS
<1>2. IsFiniteSet(I) /\ Cardinality(I) = Len(s)
  BY <1>1, FS_Interval
<1>3. s \in [I -> T] /\ \A t \in T : \E i \in I : s[i] = t
  BY <1>1 DEF ToSet
<1>4. \A j, k \in I : s[j] = s[k] => j = k
  BY <1>1 DEF OneToOne
<1>. HIDE DEF I, T
<1>5. s \in Surjection(I, T) /\ s \in Injection(I, T)
  BY <1>3, <1>4 DEF Surjection, Injection, IsInjective
<1>6. IsFiniteSet(T) /\ Cardinality(T) = Cardinality(I)
  BY <1>2, <1>5, FS_Surjection
<1>. QED
  BY <1>2, <1>6 DEF T

\* The place from which the i-th of n is taken.
Place(i, len, n) == Min({len, (2 * (i - 1) * len + n) \div (2 * n) + 1})

LEMMA PlaceIs ==
  ASSUME NEW len \in Nat, len > 0, NEW n \in Nat, n > 0, NEW i \in 1 .. n,
         NEW q \in Nat, q < len,
         2 * n * q <= 2 * (i - 1) * len + n, 2 * (i - 1) * len + n < 2 * n * (q + 1)
  PROVE  Place(i, len, n) = q + 1
<1>. DEFINE x == 2 * (i - 1) * len + n
            b == 2 * n
            d == x \div b
            r == x % b
<1>1. x \in Int /\ b \in Nat /\ b > 0
  OBVIOUS
<1>2. b * q <= x /\ x < b * (q + 1)
  OBVIOUS
<1>3. Place(i, len, n) = Min({len, d + 1})
  BY DEF Place
<1>. HIDE DEF x, b
<1>4. d \in Int /\ r \in Int /\ x = b * d + r /\ 0 <= r /\ r < b
  BY <1>1
<1>. HIDE DEF d, r
<1>5. d = q
  <2>1. ~(d < q)
    <3>1. SUFFICES ASSUME d < q PROVE FALSE
      OBVIOUS
    <3>2. b * (d + 1) <= b * q
      BY <1>1, <1>4, <3>1
    <3>3. b * (d + 1) = b * d + b
      BY <1>1, <1>4
    <3>. QED
      BY <1>1, <1>2, <1>4, <3>2, <3>3
  <2>2. ~(d > q)
    <3>1. SUFFICES ASSUME d > q PROVE FALSE
      OBVIOUS
    <3>2. b * (q + 1) <= b * d
      BY <1>1, <1>4, <3>1
    <3>. QED
      BY <1>1, <1>2, <1>4, <3>2
  <2>. QED
    BY <1>4, <2>1, <2>2
<1>6. Min({len, d + 1}) = IF len <= d + 1 THEN len ELSE d + 1
  <2>. DEFINE y == d + 1
  <2>1. y \in Int /\ len \in Int
    BY <1>4
  <2>. HIDE DEF y
  <2>2. Min({len, y}) = IF len <= y THEN len ELSE y
    BY <2>1, OfTwo
  <2>. QED
    BY <2>2 DEF y
<1>. QED
  BY <1>3, <1>5, <1>6

\* Every x lies between two multiples of b.
LEMMA Between ==
  ASSUME NEW x \in Nat, NEW b \in Nat, b > 0
  PROVE  \E q \in Nat : b * q <= x /\ x < b * (q + 1)
<1>1. (x \div b) \in Nat /\ x = b * (x \div b) + (x % b) /\ 0 <= x % b /\ x % b < b
  OBVIOUS
<1>2. PICK q \in Nat : q = x \div b
  BY <1>1
<1>3. b * (q + 1) = b * q + b
  BY <1>2
<1>4. b * q <= x /\ x < b * (q + 1)
  BY <1>1, <1>2, <1>3
<1>. QED
  BY <1>4

\* If fewer are picked than there are, no place is taken twice.
LEMMA PlacesApart ==
  ASSUME NEW len \in Nat, NEW n \in Nat, n > 0, n <= len, NEW i \in 1 .. n
  PROVE  /\ Place(i, len, n) \in 1 .. len
         /\ 2 * n * (Place(i, len, n) - 1) <= 2 * (i - 1) * len + n
         /\ 2 * (i - 1) * len + n < 2 * n * Place(i, len, n)
<1>. DEFINE x == 2 * (i - 1) * len + n
            b == 2 * n
<1>1. x \in Nat /\ b \in Nat /\ b > 0
  <2>1. i - 1 \in Nat
    OBVIOUS
  <2>2. (i - 1) * len \in Nat
    BY <2>1
  <2>3. x = 2 * ((i - 1) * len) + n
    BY <2>1
  <2>. QED
    BY <2>2, <2>3
<1>. HIDE DEF x, b
<1>2. PICK q \in Nat : b * q <= x /\ x < b * (q + 1)
  BY <1>1, Between
<1>3. q < len
  <2>1. SUFFICES ASSUME q >= len PROVE FALSE
    BY <1>2
  <2>2. b * len <= b * q
    BY <1>1, <2>1
  <2>3. (i - 1) * len <= (n - 1) * len
    OBVIOUS
  <2>4. (n - 1) * len = n * len - len
    OBVIOUS
  <2>5. x = 2 * ((i - 1) * len) + n /\ b * len = 2 * (n * len)
    BY DEF x, b
  <2>6. (i - 1) * len \in Int /\ n * len \in Int
    OBVIOUS
  <2>. HIDE DEF x, b
  <2>. QED
    BY <1>1, <1>2, <2>2, <2>3, <2>4, <2>5, <2>6
<1>4. Place(i, len, n) = q + 1
  BY <1>2, <1>3, PlaceIs DEF x, b
<1>. QED
  BY <1>2, <1>3, <1>4 DEF x, b

LEMMA PlacesDiffer ==
  ASSUME NEW len \in Nat, NEW n \in Nat, n > 0, n <= len, NEW i \in 1 .. n, NEW j \in 1 .. n,
         i < j
  PROVE  Place(i, len, n) # Place(j, len, n)
<1>. DEFINE p == Place(i, len, n)
            q == Place(j, len, n)
            u == (i - 1) * len
            v == (j - 1) * len
<1>1. /\ p \in 1 .. len /\ q \in 1 .. len
      /\ 2 * n * (p - 1) <= 2 * (i - 1) * len + n /\ 2 * (i - 1) * len + n < 2 * n * p
      /\ 2 * n * (q - 1) <= 2 * (j - 1) * len + n /\ 2 * (j - 1) * len + n < 2 * n * q
  BY PlacesApart
<1>. HIDE DEF p, q
<1>2. u \in Int /\ v \in Int /\ 2 * (i - 1) * len = 2 * u /\ 2 * (j - 1) * len = 2 * v
  OBVIOUS
<1>3. u + len <= v
  <2>1. v - u = (j - i) * len
    OBVIOUS
  <2>2. j - i >= 1
    OBVIOUS
  <2>3. (j - i) * len >= 1 * len
    BY <2>2
  <2>. QED
    BY <1>2, <2>1, <2>3
<1>. HIDE DEF u, v
<1>4. SUFFICES ASSUME p = q PROVE FALSE
  BY DEF p, q
<1>5. 2 * n * (p - 1) = 2 * n * p - 2 * n /\ 2 * n * p \in Int
  BY <1>1
<1>. QED
  BY <1>1, <1>2, <1>3, <1>4, <1>5

\* If more are picked than there are, every place is taken.
LEMMA PlacesAll ==
  ASSUME NEW len \in Nat, NEW n \in Nat, len > 0, len <= n, NEW k \in 1 .. len
  PROVE  \E i \in 1 .. n : Place(i, len, n) = k
<1>. DEFINE q == k - 1
<1>1. q \in Nat /\ q < len /\ n > 0
  OBVIOUS
<1>2. CASE q = 0
  <2>. DEFINE i == 1
  <2>1. i \in 1 .. n /\ 2 * (i - 1) * len + n = n
    BY <1>1
  <2>2. 2 * n * q = 0 /\ 2 * n * (q + 1) = 2 * n
    BY <1>1, <1>2
  <2>. HIDE DEF q, i
  <2>3. Place(i, len, n) = q + 1
    BY <1>1, <2>1, <2>2, PlaceIs
  <2>. QED
    BY <2>1, <2>3 DEF q
<1>3. CASE q # 0
  <2>. DEFINE y == n * q
              x == 2 * y - n - 1
              b == 2 * len
  <2>1. y \in Nat /\ y >= n
    <3>1. y - n = n * (q - 1) /\ q - 1 \in Nat
      BY <1>1, <1>3
    <3>2. n * (q - 1) \in Nat
      BY <3>1
    <3>. QED
      BY <1>1, <3>1, <3>2
  <2>2. x \in Nat /\ b \in Nat /\ b > 0
    BY <1>1, <2>1
  <2>3. PICK t \in Nat : b * t <= x /\ x < b * (t + 1)
    <3>. HIDE DEF x, b
    <3>. QED
      BY <2>2, Between
  <2>. DEFINE m == t + 1
              z == m * len
  <2>4. z \in Nat /\ b * t = 2 * z - 2 * len /\ b * (t + 1) = 2 * z /\ m \in Nat
    OBVIOUS
  <2>5. 2 * y <= 2 * z + n /\ 2 * z + n < 2 * y + 2 * n
    <3>. HIDE DEF y, b, z, m
    <3>. QED
      BY <1>1, <2>1, <2>2, <2>3, <2>4
  <2>6. m < n
    <3>1. SUFFICES ASSUME m >= n PROVE FALSE
      BY <2>4
    <3>2. z >= n * len
      BY <2>4, <3>1
    <3>3. y <= n * len - n
      <4>1. n * len - n - y = n * (len - 1 - q) /\ len - 1 - q \in Nat
        BY <1>1
      <4>2. n * (len - 1 - q) \in Nat
        BY <4>1
      <4>. QED
        BY <2>1, <4>1, <4>2
    <3>4. n * len \in Nat
      OBVIOUS
    <3>. HIDE DEF y, b, z, m, q
    <3>. QED
      BY <1>1, <2>1, <2>2, <2>3, <2>4, <3>2, <3>3, <3>4
  <2>. DEFINE i == m + 1
  <2>7. i \in 1 .. n /\ 2 * (i - 1) * len = 2 * z
    BY <2>4, <2>6
  <2>8. 2 * n * q = 2 * y /\ 2 * n * (q + 1) = 2 * y + 2 * n
    BY <1>1
  <2>. HIDE DEF q, i, m, z, y
  <2>9. Place(i, len, n) = q + 1
    BY <1>1, <2>5, <2>7, <2>8, PlaceIs
  <2>. QED
    BY <2>7, <2>9 DEF q
<1>. QED
  BY <1>2, <1>3

\* No place is beyond the end.
LEMMA PlaceInside ==
  ASSUME NEW len \in Nat, NEW n \in Nat, len > 0, NEW i \in 1 .. n
  PROVE  Place(i, len, n) \in 1 .. len
<1>. DEFINE x == 2 * (i - 1) * len + n
            b == 2 * n
            d == x \div b
            y == d + 1
<1>1. x \in Nat /\ b \in Nat /\ b > 0
  <2>1. (i - 1) * len \in Nat /\ x = 2 * ((i - 1) * len) + n
    OBVIOUS
  <2>. QED
    BY <2>1
<1>2. Place(i, len, n) = Min({len, y})
  BY DEF Place
<1>. HIDE DEF x, b
<1>3. y \in Nat /\ y > 0 /\ len \in Int
  BY <1>1
<1>. HIDE DEF y
<1>4. Min({len, y}) = IF len <= y THEN len ELSE y
  BY <1>3, OfTwo
<1>. QED
  BY <1>2, <1>3, <1>4

\* What is picked: different elements, as many as asked for or, if there are not so many,
\* all of them (strategy.rs:244-256).
LEMMA PickFacts ==
  ASSUME NEW S, NEW s \in Seq(S), OneToOne(s), NEW n \in Nat
  PROVE  /\ Pick(s, n) \in Seq(S) /\ ToSet(Pick(s, n)) \subseteq ToSet(s)
         /\ n <= Len(s) => OneToOne(Pick(s, n)) /\ Len(Pick(s, n)) = n
         /\ Len(s) <= n => ToSet(Pick(s, n)) = ToSet(s)
<1>1. CASE s = <<>>
  <2>1. Pick(s, n) = <<>> /\ Len(s) = 0
    BY <1>1 DEF Pick
  <2>2. OneToOne(<<>>) /\ <<>> \in Seq(S) /\ Len(<<>>) = 0
    BY DEF OneToOne
  <2>3. ToSet(<<>>) = {}
    BY DEF ToSet
  <2>4. n <= 0 => n = 0
    OBVIOUS
  <2>. QED
    BY <1>1, <2>1, <2>2, <2>3, <2>4
<1>2. CASE s # <<>>
  <2>. DEFINE len == Len(s)
              t == Pick(s, n)
  <2>1. len \in Nat /\ len > 0 /\ DOMAIN s = 1 .. len
    BY <1>2
  <2>2. t = [i \in 1 .. n |-> s[Place(i, len, n)]]
    BY <1>2 DEF Pick, Place
  <2>. HIDE DEF len, t
  <2>3. ASSUME n <= len
        PROVE  /\ \A i \in 1 .. n : Place(i, len, n) \in 1 .. len
               /\ \A i, j \in 1 .. n : Place(i, len, n) = Place(j, len, n) => i = j
    <3>1. ASSUME NEW i \in 1 .. n PROVE Place(i, len, n) \in 1 .. len
      BY <2>1, PlaceInside
    <3>2. ASSUME NEW i \in 1 .. n, NEW j \in 1 .. n, i < j
          PROVE  Place(i, len, n) # Place(j, len, n)
      BY <2>1, <2>3, <3>2, PlacesDiffer
    <3>3. \A i, j \in 1 .. n : i = j \/ i < j \/ j < i
      OBVIOUS
    <3>. QED
      BY <3>1, <3>2, <3>3
  <2>4. ASSUME len <= n, NEW k \in 1 .. len PROVE \E i \in 1 .. n : Place(i, len, n) = k
    BY <2>1, <2>4, PlacesAll
  <2>5. ASSUME NEW i \in 1 .. n PROVE Place(i, len, n) \in 1 .. len
    BY <2>1, <2>5, PlaceInside
  <2>6. \A i \in 1 .. n : s[Place(i, len, n)] \in S
    BY <2>1, <2>5
  <2>7. t \in Seq(S) /\ DOMAIN t = 1 .. n /\ Len(t) = n
    BY <2>2, <2>6
  <2>8. ToSet(t) \subseteq ToSet(s)
    BY <2>1, <2>2, <2>5, <2>7 DEF ToSet
  <2>9. n <= len => OneToOne(t)
    BY <2>1, <2>2, <2>3, <2>7 DEF OneToOne
  <2>10. len <= n => ToSet(s) \subseteq ToSet(t)
    BY <2>1, <2>2, <2>4, <2>7 DEF ToSet
  <2>. QED
    BY <2>7, <2>8, <2>9, <2>10 DEF t, len
<1>. QED
  BY <1>1, <1>2

\* The elements of a selection, of a joined list, and of one without its repetitions.
LEMMA ThoseSet ==
  ASSUME NEW S, NEW s \in Seq(S), OneToOne(s), NEW I \in SUBSET DOMAIN s
  PROVE  /\ Those(s, I) \in Seq(S) /\ OneToOne(Those(s, I))
         /\ ToSet(Those(s, I)) = {s[k] : k \in I}
<1>1. \A j, k \in I : s[j] = s[k] => j = k
  BY DEF OneToOne
<1>2. /\ Those(s, I) \in Seq(S)
      /\ \A j \in DOMAIN Those(s, I) : \E k \in I : Those(s, I)[j] = s[k]
      /\ \A k \in I : \E j \in DOMAIN Those(s, I) : Those(s, I)[j] = s[k]
      /\ OneToOne(Those(s, I))
  BY <1>1, ThoseFacts
<1>. QED
  BY <1>2 DEF ToSet

LEMMA JoinSet ==
  ASSUME NEW S, NEW s \in Seq(S), NEW t \in Seq(S)
  PROVE  s \o t \in Seq(S) /\ ToSet(s \o t) = ToSet(s) \cup ToSet(t)
<1>. DEFINE u == s \o t
            m == Len(s)
            n == Len(t)
<1>1. /\ u \in Seq(S) /\ m \in Nat /\ n \in Nat /\ DOMAIN s = 1 .. m /\ DOMAIN t = 1 .. n
      /\ DOMAIN u = 1 .. m + n
      /\ \A i \in 1 .. m : u[i] = s[i]
      /\ \A i \in 1 .. n : u[m + i] = t[i]
  OBVIOUS
<1>. HIDE DEF u, m, n
<1>2. \A i \in 1 .. m : i \in 1 .. m + n
  BY <1>1
<1>3. \A i \in 1 .. n : m + i \in 1 .. m + n
  BY <1>1
<1>4. \A i \in 1 .. m + n : i \in 1 .. m \/ \E k \in 1 .. n : i = m + k
  <2>1. ASSUME NEW i \in 1 .. m + n, i \notin 1 .. m PROVE i - m \in 1 .. n /\ i = m + (i - m)
    BY <1>1, <2>1
  <2>. QED
    BY <2>1
<1>5. ToSet(u) \subseteq ToSet(s) \cup ToSet(t)
  <2>1. ASSUME NEW i \in 1 .. m + n PROVE u[i] \in ToSet(s) \cup ToSet(t)
    <3>1. CASE i \in 1 .. m
      BY <1>1, <3>1 DEF ToSet
    <3>2. CASE \E k \in 1 .. n : i = m + k
      BY <1>1, <3>2 DEF ToSet
    <3>. QED
      BY <1>4, <3>1, <3>2
  <2>. QED
    BY <1>1, <2>1 DEF ToSet
<1>6. ToSet(s) \subseteq ToSet(u)
  BY <1>1, <1>2 DEF ToSet
<1>7. ToSet(t) \subseteq ToSet(u)
  BY <1>1, <1>3 DEF ToSet
<1>. QED
  BY <1>1, <1>5, <1>6, <1>7 DEF u

LEMMA DistinctSet ==
  ASSUME NEW S, NEW s \in Seq(S)
  PROVE  /\ Distinct(s) \in Seq(S) /\ OneToOne(Distinct(s)) /\ ToSet(Distinct(s)) = ToSet(s)
         /\ IsFiniteSet(ToSet(s)) /\ Len(Distinct(s)) = Cardinality(ToSet(s))
<1>1. /\ Distinct(s) \in Seq(S) /\ OneToOne(Distinct(s))
      /\ \A j \in DOMAIN Distinct(s) : \E k \in DOMAIN s : Distinct(s)[j] = s[k]
      /\ \A k \in DOMAIN s : \E j \in DOMAIN Distinct(s) : Distinct(s)[j] = s[k]
  BY DistinctFacts
<1>. DEFINE d == Distinct(s)
<1>. HIDE DEF d
<1>2. ToSet(d) = ToSet(s)
  BY <1>1 DEF ToSet, d
<1>3. IsFiniteSet(ToSet(d)) /\ Cardinality(ToSet(d)) = Len(d)
  BY <1>1, CountOfList DEF d
<1>. QED
  BY <1>1, <1>2, <1>3 DEF d

\* A list cut in two.
LEMMA CutFacts ==
  ASSUME NEW S, NEW s \in Seq(S), OneToOne(s), NEW f \in Nat, f < Len(s)
  PROVE  LET a == SubSeq(s, 1, f)
             r == SubSeq(s, f + 1, Len(s))
         IN /\ a \in Seq(S) /\ OneToOne(a) /\ Len(a) = f
            /\ r \in Seq(S) /\ OneToOne(r) /\ Len(r) = Len(s) - f
            /\ \A i \in 1 .. f : a[i] = s[i]
            /\ \A i \in 1 .. Len(s) - f : r[i] = s[f + i]
            /\ ToSet(a) \cap ToSet(r) = {} /\ ToSet(s) = ToSet(a) \cup ToSet(r)
<1>. DEFINE n == Len(s)
            a == SubSeq(s, 1, f)
            r == SubSeq(s, f + 1, n)
<1>1. n \in Nat /\ DOMAIN s = 1 .. n /\ \A i \in 1 .. n : s[i] \in S
  OBVIOUS
<1>2. a = [i \in 1 .. f |-> s[i]] /\ r = [i \in 1 .. n - f |-> s[f + i]]
  BY <1>1
<1>. HIDE DEF n, a, r
<1>3. /\ \A i \in 1 .. f : i \in 1 .. n
      /\ \A i \in 1 .. n - f : f + i \in 1 .. n
      /\ n - f \in Nat
  BY <1>1 DEF n
<1>4. a \in Seq(S) /\ Len(a) = f /\ DOMAIN a = 1 .. f
  BY <1>1, <1>2, <1>3
<1>5. r \in Seq(S) /\ Len(r) = n - f /\ DOMAIN r = 1 .. n - f
  BY <1>1, <1>2, <1>3
<1>6. OneToOne(a)
  BY <1>1, <1>2, <1>3, <1>4 DEF OneToOne
<1>7. OneToOne(r)
  <2>1. ASSUME NEW i \in 1 .. n - f, NEW j \in 1 .. n - f, r[i] = r[j] PROVE i = j
    <3>1. s[f + i] = s[f + j] /\ f + i \in DOMAIN s /\ f + j \in DOMAIN s
      BY <1>1, <1>2, <1>3, <2>1
    <3>2. f + i = f + j
      BY <3>1 DEF OneToOne
    <3>. QED
      BY <3>2
  <2>. QED
    BY <1>5, <2>1 DEF OneToOne
<1>8. ToSet(a) \cap ToSet(r) = {}
  <2>1. ASSUME NEW i \in 1 .. f, NEW j \in 1 .. n - f PROVE a[i] # r[j]
    <3>1. i \in DOMAIN s /\ f + j \in DOMAIN s /\ i # f + j
      BY <1>1, <1>3
    <3>2. s[i] # s[f + j]
      BY <3>1 DEF OneToOne
    <3>. QED
      BY <1>2, <3>2
  <2>. QED
    BY <1>4, <1>5, <2>1 DEF ToSet
<1>9. ToSet(s) = ToSet(a) \cup ToSet(r)
  <2>1. ASSUME NEW i \in 1 .. n PROVE s[i] \in ToSet(a) \cup ToSet(r)
    <3>1. CASE i <= f
      <4>1. i \in 1 .. f
        BY <3>1
      <4>. QED
        BY <1>2, <1>4, <4>1 DEF ToSet
    <3>2. CASE i > f
      <4>1. i - f \in 1 .. n - f /\ f + (i - f) = i
        BY <1>1, <3>2
      <4>2. r[i - f] = s[i]
        BY <1>2, <4>1
      <4>. QED
        BY <1>5, <4>1, <4>2 DEF ToSet
    <3>. QED
      BY <3>1, <3>2
  <2>2. ToSet(s) \subseteq ToSet(a) \cup ToSet(r)
    BY <1>1, <2>1 DEF ToSet
  <2>3. ToSet(a) \subseteq ToSet(s)
    BY <1>1, <1>2, <1>3, <1>4 DEF ToSet
  <2>4. ToSet(r) \subseteq ToSet(s)
    BY <1>1, <1>2, <1>3, <1>5 DEF ToSet
  <2>. QED
    BY <2>2, <2>3, <2>4
<1>. QED
  BY <1>2, <1>4, <1>5, <1>6, <1>7, <1>8, <1>9 DEF n, a, r

\* The list thinned to max of its elements, the first f among them: picked from the rest at
\* the places `seen`, if there are any, and then from the others.
Thinned(s, f, seen, max) ==
  LET a == SubSeq(s, 1, f)
      rest == SubSeq(s, f + 1, Len(s))
      inside == Those(rest, seen)
      outside == Those(rest, DOMAIN rest \ seen)
      source == IF inside = <<>> THEN rest ELSE inside
      first == Distinct(a \o Pick(source, max - f))
  IN Distinct(first \o Pick(outside, max - Len(first)))

\* Two lists without repetition and without a common element have as many elements as both
\* together.
LEMMA CountOfTwo ==
  ASSUME NEW S, NEW s \in Seq(S), NEW t \in Seq(S), OneToOne(s), OneToOne(t),
         ToSet(s) \cap ToSet(t) = {}
  PROVE  /\ IsFiniteSet(ToSet(s) \cup ToSet(t))
         /\ Cardinality(ToSet(s) \cup ToSet(t)) = Len(s) + Len(t)
<1>1. IsFiniteSet(ToSet(s)) /\ Cardinality(ToSet(s)) = Len(s)
  BY CountOfList
<1>2. IsFiniteSet(ToSet(t)) /\ Cardinality(ToSet(t)) = Len(t)
  BY CountOfList
<1>. DEFINE A == ToSet(s)
            B == ToSet(t)
<1>. HIDE DEF A, B
<1>3. /\ IsFiniteSet(A \cup B)
      /\ Cardinality(A \cup B) = Cardinality(A) + Cardinality(B) - Cardinality(A \cap B)
  BY <1>1, <1>2, FS_Union DEF A, B
<1>4. Cardinality(A \cap B) = 0
  BY FS_EmptySet DEF A, B
<1>5. Len(s) \in Nat /\ Len(t) \in Nat
  OBVIOUS
<1>. QED
  BY <1>1, <1>2, <1>3, <1>4, <1>5 DEF A, B

\* A list that is too long is thinned to exactly max, with its first f; those inside are all
\* kept, or nothing else is.
LEMMA ThinnedFacts ==
  ASSUME NEW S, NEW s \in Seq(S), OneToOne(s), NEW max \in Nat, max < Len(s),
         NEW f \in Nat, f <= max, NEW seen \in SUBSET (1 .. Len(s) - f)
  PROVE  LET kept == ToSet(Thinned(s, f, seen, max))
             fixed == ToSet(SubSeq(s, 1, f))
             inside == {s[f + k] : k \in seen}
         IN /\ Cardinality(kept) = max /\ fixed \subseteq kept
            /\ inside \subseteq kept \/ kept \ fixed \subseteq inside
<1>. DEFINE a == SubSeq(s, 1, f)
            rest == SubSeq(s, f + 1, Len(s))
            inside == Those(rest, seen)
            out == DOMAIN rest \ seen
            outside == Those(rest, out)
            source == IF inside = <<>> THEN rest ELSE inside
            m == max - f
            p == Pick(source, m)
            first == Distinct(a \o p)
            l == max - Len(first)
            q == Pick(outside, l)
            kept == Distinct(first \o q)
<1>1. Thinned(s, f, seen, max) = kept
  BY DEF Thinned
<1>2. /\ a \in Seq(S) /\ OneToOne(a) /\ Len(a) = f
      /\ rest \in Seq(S) /\ OneToOne(rest) /\ Len(rest) = Len(s) - f
      /\ \A i \in 1 .. Len(s) - f : rest[i] = s[f + i]
      /\ ToSet(a) \cap ToSet(rest) = {} /\ ToSet(s) = ToSet(a) \cup ToSet(rest)
  <2>1. f < Len(s)
    OBVIOUS
  <2>2. LET x == SubSeq(s, 1, f)
            y == SubSeq(s, f + 1, Len(s))
        IN /\ x \in Seq(S) /\ OneToOne(x) /\ Len(x) = f
           /\ y \in Seq(S) /\ OneToOne(y) /\ Len(y) = Len(s) - f
           /\ \A i \in 1 .. f : x[i] = s[i]
           /\ \A i \in 1 .. Len(s) - f : y[i] = s[f + i]
           /\ ToSet(x) \cap ToSet(y) = {} /\ ToSet(s) = ToSet(x) \cup ToSet(y)
    BY <2>1, CutFacts
  <2>. QED
    BY <2>2
<1>. HIDE DEF a, rest
<1>3. DOMAIN rest = 1 .. Len(rest) /\ Len(rest) \in Nat /\ m \in Nat /\ m < Len(rest)
      /\ seen \in SUBSET DOMAIN rest /\ out \in SUBSET DOMAIN rest
  BY <1>2
<1>4. /\ inside \in Seq(S) /\ OneToOne(inside) /\ ToSet(inside) = {rest[k] : k \in seen}
      /\ outside \in Seq(S) /\ OneToOne(outside) /\ ToSet(outside) = {rest[k] : k \in out}
  <2>. HIDE DEF out
  <2>. QED
    BY <1>2, <1>3, ThoseSet
<1>5. /\ ToSet(inside) \cap ToSet(outside) = {}
      /\ ToSet(inside) \cup ToSet(outside) = ToSet(rest)
  <2>. HIDE DEF inside, outside
  <2>1. \A j \in seen, k \in out : rest[j] # rest[k]
    BY <1>2, <1>3 DEF OneToOne
  <2>2. \A k \in DOMAIN rest : k \in seen \/ k \in out
    OBVIOUS
  <2>. QED
    BY <1>3, <1>4, <2>1, <2>2 DEF ToSet
<1>. HIDE DEF inside, outside, out, m
<1>6. Len(inside) + Len(outside) = Len(rest) /\ Len(inside) \in Nat /\ Len(outside) \in Nat
  <2>1. Cardinality(ToSet(inside) \cup ToSet(outside)) = Len(inside) + Len(outside)
    BY <1>4, <1>5, CountOfTwo
  <2>2. Cardinality(ToSet(rest)) = Len(rest)
    BY <1>2, CountOfList
  <2>3. Len(inside) \in Nat /\ Len(outside) \in Nat
    BY <1>4
  <2>4. Cardinality(ToSet(inside) \cup ToSet(outside)) = Cardinality(ToSet(rest))
    BY <1>5
  <2>. QED
    BY <2>1, <2>2, <2>3, <2>4
<1>7. /\ source \in Seq(S) /\ OneToOne(source) /\ ToSet(source) \subseteq ToSet(rest)
      /\ source = inside \/ (inside = <<>> /\ source = rest)
  BY <1>2, <1>4, <1>5
<1>. HIDE DEF source
<1>8. /\ p \in Seq(S) /\ ToSet(p) \subseteq ToSet(source)
      /\ m <= Len(source) => OneToOne(p) /\ Len(p) = m
      /\ Len(source) <= m => ToSet(p) = ToSet(source)
  BY <1>3, <1>7, PickFacts
<1>. HIDE DEF p
<1>9. a \o p \in Seq(S) /\ ToSet(a \o p) = ToSet(a) \cup ToSet(p)
  BY <1>2, <1>8, JoinSet
<1>10. /\ first \in Seq(S) /\ OneToOne(first) /\ ToSet(first) = ToSet(a) \cup ToSet(p)
       /\ Len(first) = Cardinality(ToSet(a) \cup ToSet(p))
  BY <1>9, DistinctSet
<1>. HIDE DEF first
<1>11. ToSet(a) \cap ToSet(p) = {}
  BY <1>2, <1>7, <1>8
<1>. DEFINE all == ToSet(a) \cup ToSet(p) \cup ToSet(q)
<1>12. ASSUME l \in Nat
       PROVE  ToSet(kept) = all
  <2>1. q \in Seq(S)
    BY <1>4, <1>12, PickFacts
  <2>. HIDE DEF q
  <2>2. first \o q \in Seq(S) /\ ToSet(first \o q) = ToSet(first) \cup ToSet(q)
    BY <1>10, <2>1, JoinSet
  <2>3. ToSet(kept) = ToSet(first \o q)
    BY <2>2, DistinctSet
  <2>. QED
    BY <1>10, <2>2, <2>3
<1>. HIDE DEF kept
<1>14. {s[f + k] : k \in seen} = ToSet(inside)
  BY <1>2, <1>3, <1>4
<1>15. /\ Thinned(s, f, seen, max) = kept /\ SubSeq(s, 1, f) = a
  BY <1>1 DEF a
<1>13. CASE m <= Len(source)
  <2>1. OneToOne(p) /\ Len(p) = m
    BY <1>8, <1>13
  <2>2. Cardinality(ToSet(a) \cup ToSet(p)) = max
    <3>1. Cardinality(ToSet(a) \cup ToSet(p)) = Len(a) + Len(p)
      BY <1>2, <1>8, <1>11, <2>1, CountOfTwo
    <3>. QED
      BY <1>2, <2>1, <3>1 DEF m
  <2>3. l = 0
    BY <1>10, <2>2
  <2>. DEFINE o == 0
  <2>4. ToSet(Pick(outside, o)) = {}
    <3>1. o \in Nat /\ o <= Len(outside) /\ o = 0
      BY <1>6
    <3>. HIDE DEF o
    <3>2. Pick(outside, o) \in Seq(S) /\ Len(Pick(outside, o)) = o
      BY <1>4, <3>1, PickFacts
    <3>3. Pick(outside, o) = <<>>
      BY <3>1, <3>2
    <3>. QED
      BY <3>3 DEF ToSet
  <2>5. all = ToSet(a) \cup ToSet(p) /\ ToSet(kept) = all
    BY <1>12, <2>3, <2>4
  <2>6. ToSet(inside) \subseteq ToSet(kept) \/ ToSet(kept) \ ToSet(a) \subseteq ToSet(inside)
    <3>1. CASE source = inside
      BY <1>8, <2>5, <3>1
    <3>2. CASE inside = <<>>
      BY <3>2 DEF ToSet
    <3>. QED
      BY <1>7, <3>1, <3>2
  <2>7. Cardinality(ToSet(kept)) = max /\ ToSet(a) \subseteq ToSet(kept)
    BY <2>2, <2>5
  <2>. QED
    BY <2>6, <2>7, <1>14, <1>15
<1>16. CASE ~(m <= Len(source))
  <2>1. Len(source) \in Nat /\ Len(source) < m
    BY <1>3, <1>7, <1>16
  <2>2. source = inside
    BY <1>3, <1>7, <2>1
  <2>3. ToSet(p) = ToSet(inside)
    BY <1>8, <2>1, <2>2, <1>3
  <2>4. Cardinality(ToSet(a) \cup ToSet(inside)) = f + Len(inside)
    <3>1. ToSet(a) \cap ToSet(inside) = {}
      BY <1>11, <2>3
    <3>. QED
      BY <1>2, <1>4, <3>1, CountOfTwo
  <2>5. Len(first) = f + Len(inside)
    BY <1>10, <2>3, <2>4
  <2>6. l \in Nat /\ l <= Len(outside)
    BY <1>2, <1>3, <1>6, <2>1, <2>2, <2>5 DEF m
  <2>7. q \in Seq(S) /\ OneToOne(q) /\ Len(q) = l /\ ToSet(q) \subseteq ToSet(outside)
    <3>. HIDE DEF l
    <3>. QED
      BY <1>4, <2>6, PickFacts
  <2>8. ToSet(kept) = all
    BY <1>12, <2>6
  <2>. HIDE DEF q
  <2>9. ToSet(first) \cap ToSet(q) = {}
    BY <1>2, <1>5, <1>10, <2>3, <2>7
  <2>10. Cardinality(ToSet(first) \cup ToSet(q)) = Len(first) + Len(q)
    BY <1>10, <2>7, <2>9, CountOfTwo
  <2>11. Cardinality(all) = max
    <3>1. all = ToSet(first) \cup ToSet(q)
      BY <1>10
    <3>2. Cardinality(all) = Len(first) + l
      BY <2>7, <2>10, <3>1
    <3>3. Len(first) \in Int
      BY <1>10
    <3>. QED
      BY <3>2, <3>3
  <2>12. ToSet(inside) \subseteq all /\ ToSet(a) \subseteq all
    BY <2>3
  <2>. QED
    BY <1>14, <1>15, <2>8, <2>11, <2>12
<1>. QED
  BY <1>13, <1>16

\* What a thinned list keeps of s: as much as its budget allows, the LAN address and the
\* first public one, and those between lo and hi before any others.
KeepsTheBand(s, lo, hi, max, lan) ==
  LET kept == ToSet(Targets(s, lo, hi, max))
      fixed == ToSet(SubSeq(s, 1, Min({max, Len(s), IF lan THEN 2 ELSE 1})))
      inside == {t \in ToSet(s) : ~t.lan /\ lo <= t.port /\ t.port <= hi}
  IN /\ Cardinality(kept) = Min({max, Len(s)})
     /\ fixed \subseteq kept
     /\ lo > 0 => inside \subseteq kept \/ kept \ fixed \subseteq inside

\* No address but the first is one in the LAN.
LanFirst(s, lan) == \A i \in DOMAIN s : s[i].lan <=> (i = 1 /\ lan)

\* What the client makes of a list that holds at most one address in the LAN, as its first:
\* it fills its budget, keeps the LAN address and the first public one, and draws from the
\* ports between lo and hi before any others (strategy.rs:205-264).
THEOREM TargetsFacts ==
  ASSUME NEW S, NEW s \in Seq(S), s # <<>>, OneToOne(s), NEW lan \in BOOLEAN,
         LanFirst(s, lan), NEW lo, NEW hi, NEW max \in Nat, max > 0
  PROVE  KeepsTheBand(s, lo, hi, max, lan)
<1>. DEFINE n == Len(s)
            w == IF lan THEN 2 ELSE 1
            head == Min({max, n, w})
            fixed == ToSet(SubSeq(s, 1, head))
            t == Targets(s, lo, hi, max)
            inside == {x \in ToSet(s) : ~x.lan /\ lo <= x.port /\ x.port <= hi}
<1>1. /\ n \in Nat /\ n > 0 /\ DOMAIN s = 1 .. n /\ w \in {1, 2}
      /\ max \in Int /\ n \in Int /\ w \in Int
  OBVIOUS
<1>7. \A i \in DOMAIN s : s[i].lan <=> (i = 1 /\ lan)
  BY DEF LanFirst
<1>2. 1 + Cardinality({k \in DOMAIN s : s[k].lan}) = w
  <2>. DEFINE K == {k \in DOMAIN s : s[k].lan}
  <2>1. CASE lan
    <3>1. K = {1}
      BY <1>1, <1>7, <2>1
    <3>2. Cardinality({1}) = 1
      BY FS_Singleton
    <3>. HIDE DEF K
    <3>3. Cardinality(K) = 1
      BY <3>1, <3>2
    <3>. QED
      BY <2>1, <3>3 DEF K
  <2>2. CASE ~lan
    <3>1. K = {}
      BY <1>7, <2>2
    <3>2. Cardinality({}) = 0
      BY FS_EmptySet
    <3>. HIDE DEF K
    <3>3. Cardinality(K) = 0
      BY <3>1, <3>2
    <3>. QED
      BY <2>2, <3>3 DEF K
  <2>. QED
    BY <2>1, <2>2
<1>3. Cardinality(ToSet(s)) = n
  BY CountOfList
<1>. HIDE DEF n, w
<1>4. /\ head = IF max <= n THEN IF max <= w THEN max ELSE w
                            ELSE IF n <= w THEN n ELSE w
      /\ Min({max, n}) = IF max <= n THEN max ELSE n
      /\ Min({max, w}) = IF max <= w THEN max ELSE w
  <2>1. /\ Min({max, n}) = IF max <= n THEN max ELSE n
        /\ Min({max, w}) = IF max <= w THEN max ELSE w
    BY <1>1, OfTwo
  <2>2. head \in {max, n, w} /\ head <= max /\ head <= n /\ head <= w
    BY <1>1, OfThree
  <2>. HIDE DEF head
  <2>. QED
    BY <1>1, <2>1, <2>2
<1>. HIDE DEF head
<1>5. CASE n <= max
  <2>1. t = s
    BY <1>5 DEF Targets, n
  <2>2. head \in 0 .. n
    BY <1>1, <1>4, <1>5
  <2>3. fixed \subseteq ToSet(s)
    <3>1. /\ SubSeq(s, 1, head) \in Seq(S) /\ Len(SubSeq(s, 1, head)) = head
          /\ \A i \in 1 .. head : SubSeq(s, 1, head)[i] = s[i]
      BY <1>1, <2>2 DEF n
    <3>2. DOMAIN SubSeq(s, 1, head) = 1 .. head /\ \A i \in 1 .. head : i \in DOMAIN s
      BY <1>1, <2>2, <3>1
    <3>. QED
      BY <3>1, <3>2 DEF ToSet
  <2>4. Min({max, n}) = n
    BY <1>1, <1>4, <1>5
  <2>. HIDE DEF t
  <2>. QED
    BY <1>3, <2>1, <2>3, <2>4 DEF KeepsTheBand, t, n, w, head
<1>6. CASE ~(n <= max)
  <2>. DEFINE f == Min({max, w})
              rest == SubSeq(s, f + 1, n)
              seen == {k \in DOMAIN rest : lo > 0 /\ lo <= rest[k].port /\ rest[k].port <= hi}
              I == {s[f + k] : k \in seen}
  <2>1. f \in Nat /\ f <= max /\ f < n /\ f = head /\ f >= 1 /\ Min({max, n}) = max
    BY <1>1, <1>4, <1>6
  <2>2. t = Thinned(s, f, seen, max)
    BY <1>2, <1>6 DEF Targets, Thinned, n
  <2>. HIDE DEF f
  <2>3. /\ rest \in Seq(S) /\ Len(rest) = n - f
        /\ \A k \in 1 .. n - f : rest[k] = s[f + k]
    <3>1. LET r == SubSeq(s, f + 1, Len(s))
          IN /\ r \in Seq(S) /\ Len(r) = Len(s) - f
             /\ \A k \in 1 .. Len(s) - f : r[k] = s[f + k]
      BY <2>1, CutFacts DEF n
    <3>. QED
      BY <3>1 DEF n
  <2>4. DOMAIN rest = 1 .. n - f
    BY <2>3
  <2>. HIDE DEF rest
  <2>5. seen \in SUBSET (1 .. Len(s) - f)
    BY <2>4 DEF n
  <2>6. ASSUME lo > 0 PROVE I \subseteq inside /\ inside \subseteq I \cup fixed
    <3>1. ASSUME NEW k \in seen PROVE s[f + k] \in inside
      <4>1. k \in 1 .. n - f /\ rest[k] = s[f + k] /\ f + k \in DOMAIN s /\ f + k # 1
        BY <1>1, <2>1, <2>3, <2>4
      <4>2. ~s[f + k].lan /\ s[f + k] \in ToSet(s)
        BY <1>7, <4>1 DEF ToSet
      <4>. QED
        BY <4>1, <4>2
    <3>2. ASSUME NEW i \in DOMAIN s, s[i] \in inside PROVE s[i] \in I \cup fixed
      <4>1. CASE i <= f
        <5>1. /\ SubSeq(s, 1, f) \in Seq(S) /\ Len(SubSeq(s, 1, f)) = f
              /\ \A j \in 1 .. f : SubSeq(s, 1, f)[j] = s[j]
          <6>1. LET a == SubSeq(s, 1, f)
                IN a \in Seq(S) /\ Len(a) = f /\ \A j \in 1 .. f : a[j] = s[j]
            BY <2>1, CutFacts DEF n
          <6>. QED
            BY <6>1
        <5>2. i \in 1 .. f /\ DOMAIN SubSeq(s, 1, f) = 1 .. f
          BY <1>1, <2>1, <4>1, <5>1
        <5>. QED
          BY <2>1, <5>1, <5>2 DEF ToSet
      <4>2. CASE ~(i <= f)
        <5>1. i - f \in 1 .. n - f /\ f + (i - f) = i
          BY <1>1, <2>1, <4>2
        <5>2. rest[i - f] = s[i]
          BY <2>3, <5>1
        <5>3. i - f \in seen
          BY <2>4, <2>6, <3>2, <5>1, <5>2
        <5>. QED
          BY <5>1, <5>3
      <4>. QED
        BY <4>1, <4>2
    <3>. QED
      BY <3>1, <3>2 DEF ToSet
  <2>. HIDE DEF seen
  <2>7. LET kept == ToSet(Thinned(s, f, seen, max))
            fix == ToSet(SubSeq(s, 1, f))
            ins == {s[f + k] : k \in seen}
        IN /\ Cardinality(kept) = max /\ fix \subseteq kept
           /\ ins \subseteq kept \/ kept \ fix \subseteq ins
    BY <1>6, <2>1, <2>5, ThinnedFacts DEF n
  <2>. DEFINE kept == ToSet(t)
  <2>8. Cardinality(kept) = max /\ fixed \subseteq kept /\ (I \subseteq kept \/ kept \ fixed \subseteq I)
    BY <2>1, <2>2, <2>7
  <2>. HIDE DEF kept, fixed, I, inside
  <2>9. lo > 0 => inside \subseteq kept \/ kept \ fixed \subseteq inside
    BY <2>6, <2>8
  <2>10. Cardinality(kept) = Min({max, n}) /\ fixed \subseteq kept
    BY <2>1, <2>8
  <2>. QED
    BY <2>9, <2>10 DEF KeepsTheBand, kept, fixed, inside, n, w, head, t
<1>. QED
  BY <1>1, <1>5, <1>6
=============================================================================
