----------------------------- MODULE NatAnalysis -----------------------------
(***************************************************************************)
(* server/nat_analyzer.py: what the relay makes of the probes of a client. *)
(* A probe is a record of the external port the relay saw (nat), the local *)
(* port the client says it came from (local) and the port it was sent to   *)
(* (dest).  The analysis names the class of the mapping and of the         *)
(* allocation, predicts the external port of the client's first local      *)
(* port, and gives the range of ports worth trying.                        *)
(*                                                                         *)
(* Fractions are kept over a common denominator (twice the median, n times *)
(* the mean), and rounded where the code rounds: RoundDiv is Python's      *)
(* round of a quotient, ties to the even side.  A probe's time is its place*)
(* in the list: the client sends one per ProbesPerSecond-th of a second,   *)
(* and the relay appends as they come.  Left out: figures that are only    *)
(* displayed (hit_probability, prediction_source, the band's limits).      *)
(***************************************************************************)
EXTENDS Integers, Sequences, FiniteSetsExt, SequencesExt, Combinatorics

MIN_PORT == 1024
MAX_PORT == 65535
RANDOM_LIKE_ERROR_RANGE == 100
MAX_RATE_SHIFT == 32
ProbesPerSecond == 10

RoundDiv(a, b) ==
  LET q == a \div b
      r == a % b
  IN IF 2 * r < b \/ (2 * r = b /\ q % 2 = 0) THEN q ELSE q + 1

InPortRange(x) == Max({MIN_PORT, Min({MAX_PORT, x})})

Values(s) == {s[k] : k \in DOMAIN s}
Width(s) == Max(Values(s)) - Min(Values(s))
Absolute(x) == IF x < 0 THEN -x ELSE x

Total(s) ==
  LET upto[k \in 0 .. Len(s)] == IF k = 0 THEN 0 ELSE upto[k - 1] + s[k]
  IN upto[Len(s)]

\* The k-th of the elements in rising order.
Ranked(s, k) == Min({v \in Values(s) : Cardinality({j \in DOMAIN s : s[j] <= v}) >= k})

\* Twice the median.
Median2(s) == Ranked(s, (Len(s) + 1) \div 2) + Ranked(s, Len(s) \div 2 + 1)

\* n^2 times the variance, taken from the least value so that numbers stay small.
Variance(s) ==
  LET d == [k \in DOMAIN s |-> s[k] - Min(Values(s))]
  IN Len(s) * Total([k \in DOMAIN s |-> d[k] * d[k]]) - Total(d) * Total(d)

\* round(2 * pstdev(s)): the deviation is at most half the width.
TwoSigma(s) ==
  LET v == 16 * Variance(s)
      n == Len(s)
  IN Min({Width(s)} \cup
         {k \in 0 .. Width(s) :
            LET half == (2 * k + 1) * n
            IN v < half * half \/ (v = half * half /\ k % 2 = 0)})

Jitter(s) == Max({2, TwoSigma(s)})

----------------------------------------------------------------------------
(* The mapping: does the external port depend on the destination, or does  *)
(* every connection get a new one?                                         *)

\* The external ports seen for a local port at a destination.
SeenAt(probes, l, z) ==
  [k \in {j \in DOMAIN probes : probes[j].local = l /\ probes[j].dest = z} |-> probes[k].nat]

\* Mutant: one external port per local port is taken for a stable mapping, whatever the
\* destination.
MappingByLocalPort(probes) ==
  LET Ports(l) == {probes[k].nat : k \in {j \in DOMAIN probes : probes[j].local = l}}
  IN IF \E k \in DOMAIN probes : Cardinality(Ports(probes[k].local)) > 1
     THEN "portabhaengig" ELSE "endpunktunabhaengig"

Mapping(probes) ==
  LET locals == {probes[k].local : k \in DOMAIN probes}
      dests == {probes[k].dest : k \in DOMAIN probes}
      At(l, z) == Values(SeenAt(probes, l, z))
      both == {l \in locals : \A z \in dests : At(l, z) # {}}
      verdicts == {IF \A y, z \in dests : At(l, y) \cap At(l, z) # {}
                   THEN "endpunktunabhaengig" ELSE "portabhaengig" : l \in both}
  IN IF \E l \in locals, z \in dests : Cardinality(At(l, z)) > 1 THEN "pro_verbindung"
     ELSE IF Cardinality(dests) < 2 \/ Cardinality(verdicts) # 1 THEN "unbestimmt"
     ELSE CHOOSE v \in verdicts : TRUE

----------------------------------------------------------------------------
(* The allocation: a trend in time, a band, a block.                       *)

\* The sign test: would chance let the port rise so often?  At most 5 in 100.
RisesBeyondChance(ports) ==
  LET m == Len(ports) - 1
      rises == Cardinality({k \in 2 .. Len(ports) : ports[k] > ports[k - 1]})
  IN 20 * MapThenSumSet(LAMBDA i : choose(m, i), rises .. m) <= 2 ^ m

\* Sums of the line fitted to the ports, each n times what it is about the means (that of
\* the places, 1 .. n, in closed form).
LineX(n) == (n * n * (n * n - 1)) \div 12
LineXY(s) ==
  Len(s) * Total([k \in DOMAIN s |-> k * (s[k] - s[1])])
    - ((Len(s) * (Len(s) + 1)) \div 2) * Total([k \in DOMAIN s |-> s[k] - s[1]])

\* A trend that is significant and explains half of the variance.
Trend(ports) ==
  /\ Len(ports) >= 4
  /\ RisesBeyondChance(ports)
  /\ LineXY(ports) > 0
  /\ 2 * LineXY(ports) * LineXY(ports) >= LineX(Len(ports)) * Variance(ports)

\* Ports that pass in the two seconds until the punch, damped by half.
Shift(ports) ==
  IF Trend(ports)
  THEN Max({0, Min({MAX_RATE_SHIFT,
                    RoundDiv(ProbesPerSecond * LineXY(ports), LineX(Len(ports)))})})
  ELSE 0

\* The smallest aligned block all ports lie in, if they nearly fill it; 0 if there is none.
Block(ports) ==
  LET lo == Min(Values(ports))
      hi == Max(Values(ports))
      fits == {g \in {256, 512, 1024, 2048, 4096} :
                 hi - lo < g /\ lo \div g = hi \div g /\ 20 * (g - (hi - lo)) <= g}
  IN IF Len(ports) < 8 \/ fits = {} THEN 0 ELSE Min(fits)

\* The band the ports were drawn from: a quarter of the width more on each side, cut to
\* the block.
Band(ports) ==
  LET lo == Min(Values(ports))
      hi == Max(Values(ports))
      more == RoundDiv(hi - lo, 4)
      g == Block(ports)
      base == (lo \div g) * g
  IN IF g = 0 THEN <<Max({MIN_PORT, lo - more}), Min({MAX_PORT, hi + more})>>
     ELSE <<Max({MIN_PORT, lo - more, base}), Min({MAX_PORT, hi + more, base + g - 1})>>

----------------------------------------------------------------------------
(* The analysis as a whole.                                                *)

\* An analysis that knows nothing but the port p (0: not even that).
Unknown(p) ==
  [pattern |-> "insufficient_data", allocation |-> "unbestimmt", mapping |-> "unbestimmt",
   n |-> 0, min |-> p, max |-> p, deltaMin |-> 0, deltaMax |-> 0, delta2 |-> 0,
   predicted |-> p, error |-> 0, shift |-> 0, scan |-> FALSE, start |-> p, end |-> p]

\* A NAT that keeps the local port: p is the client's, seen the port of its control
\* connection or the ports of its probes.
Preserved(p, seen, mapping, n) ==
  [Unknown(InPortRange(p)) EXCEPT !.pattern = "port_preserved", !.allocation = "portbewahrend",
     !.mapping = mapping, !.n = n, !.min = Min(seen), !.max = Max(seen)]

\* _als_band: the range is the band, and a prediction outside it gives way to the median.
AsBand(a, ports) ==
  LET b == Band(ports)
      median == InPortRange(RoundDiv(Median2(ports), 2))
  IN [a EXCEPT !.pattern = "random_like", !.allocation = "zufaellig_im_band",
        !.scan = TRUE, !.start = b[1], !.end = b[2],
        !.predicted = IF @ \in b[1] .. b[2] THEN @ ELSE median]

\* _einordnen, for ports (or differences) that lie spread apart.
Classify(a, spread, ports) ==
  IF spread = 0
  THEN [a EXCEPT !.pattern = "constant", !.allocation = "versatzstabil", !.scan = FALSE,
          !.error = 0, !.start = a.predicted, !.end = a.predicted]
  ELSE IF a.error <= RANDOM_LIKE_ERROR_RANGE
  THEN [a EXCEPT !.pattern = "in_range", !.allocation = "versatzstabil"]
  ELSE AsBand(a, ports)

\* _bereich_erweitern: the percentage the client asked for.
Expand(a, percent) ==
  LET more == RoundDiv((a.end - a.start) * percent, 100)
  IN IF a.start <= 0 \/ a.end <= a.start \/ more <= 0 THEN a
     ELSE [a EXCEPT !.scan = TRUE,
             !.start = Max({MIN_PORT, @ - more \div 2}),
             !.end = Min({MAX_PORT, @ + (more - more \div 2)})]

\* _ensure_range_contains_prediction.
Contain(a) ==
  IF a.start <= 0 \/ a.end <= 0 THEN a
  ELSE [a EXCEPT !.start = Min({@, Max({MIN_PORT, a.predicted})}),
                 !.end = Max({@, Min({MAX_PORT, a.predicted})})]

\* The prediction before the trend, and how far off it may be.
ByPort(ports) ==
  LET n == Len(ports)
      off == Max({Absolute(n * ports[k] - Total(ports)) : k \in DOMAIN ports})
  IN <<RoundDiv(Total(ports), n), RoundDiv(off + n * Jitter(ports), n)>>

ByDelta(deltas, local) ==
  LET off == Max({Absolute(2 * deltas[k] - Median2(deltas)) : k \in DOMAIN deltas})
  IN <<RoundDiv(2 * local + Median2(deltas), 2), RoundDiv(off + 2 * Jitter(deltas), 2)>>

\* analyze_nat.  In external mode the port is predicted from the ports alone, otherwise
\* from their differences to the local ports.
Analyze(probes, local, external, percent) ==
  LET ports == [k \in DOMAIN probes |-> probes[k].nat]
      deltas == [k \in DOMAIN probes |-> probes[k].nat - probes[k].local]
      guess == IF external THEN ByPort(ports) ELSE ByDelta(deltas, local)
      shift == Shift(ports)
      p == InPortRange(InPortRange(guess[1]) + shift)
      a == [pattern |-> "unknown", allocation |-> "unbestimmt",
            mapping |-> Mapping(probes), n |-> Len(probes),
            min |-> Min(Values(ports)), max |-> Max(Values(ports)),
            deltaMin |-> IF external THEN 0 ELSE Min(Values(deltas)),
            deltaMax |-> IF external THEN 0 ELSE Max(Values(deltas)),
            delta2 |-> IF external THEN 0 ELSE Median2(deltas),
            predicted |-> p, error |-> guess[2], shift |-> shift, scan |-> guess[2] > 0,
            start |-> Max({MIN_PORT, p - guess[2]}), end |-> Min({MAX_PORT, p + guess[2]})]
      spread == Width(IF external THEN ports ELSE deltas)
      named(b) == IF ~external /\ b.allocation = "versatzstabil" /\ Trend(ports)
                  THEN [b EXCEPT !.allocation = "fortlaufend"] ELSE b
  IN IF Len(probes) < 2 THEN Unknown(0)
     ELSE IF Values(deltas) = {0}
     THEN Preserved(local, Values(ports), Mapping(probes), Len(probes))
     ELSE Contain(Expand(named(Classify(a, spread, ports)), percent))
=============================================================================
