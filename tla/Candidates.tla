------------------------------ MODULE Candidates ------------------------------
(***************************************************************************)
(* From a NAT's analysis to the addresses its peer punches at: the relay   *)
(* says how many ports of the client the other side must open, picks them  *)
(* and lists them behind the LAN address and the port it predicts for the  *)
(* connection; the other client thins the list to what it is willing to    *)
(* open.  An address is its port and whether it is the one in the LAN.     *)
(***************************************************************************)
EXTENDS NatAnalysis

\* 1 - 0.05^(1/m) in 100000ths, for m up to 16: the part of a band to open so that one of
\* the m ports the other side holds is hit 95 times in 100.  (Widths up to 1500 stay below
\* 2^31.)
Share(m) ==
  <<95000, 77639, 63160, 52713, 45072, 39304, 34816, 31234,
    28313, 25887, 23840, 22092, 20582, 19264, 18104, 17075>>[m]

CeilDiv(a, b) == (a + b - 1) \div b

\* noetige_abdeckung.
Needed(a, m, ceiling) ==
  IF ~a.scan THEN 1
  ELSE IF a.n < 2 THEN ceiling
  ELSE IF a.max <= a.min THEN 1
  ELSE Max({1, Min({ceiling, CeilDiv((a.max - a.min) * (a.n + 1) * Share(m),
                                     (a.n - 1) * 100000)})})

\* The elements of s at those places, in their order.
Those(s, places) ==
  [j \in 1 .. Cardinality(places) |->
     s[CHOOSE k \in places : Cardinality({i \in places : i <= k}) = j]]

\* Each element of s where it first comes.
Distinct(s) == Those(s, {k \in DOMAIN s : \A j \in 1 .. k - 1 : s[j] # s[k]})

PortsFrom(lo, hi) == [k \in 1 .. hi - lo + 1 |-> lo + k - 1]

\* Mutant: fixed whole steps, which leave a gap at the upper end.
EvenBySteps(from, to, n) ==
  [i \in 1 .. n |-> from + (i - 1) * ((to - from) \div n)]

\* n ports from the first to the last of a band, as even as rounding lets them be.
Even(from, to, n) ==
  [i \in 1 .. n |-> from + IF n = 1 THEN 0 ELSE RoundDiv((i - 1) * (to - from), n - 1)]

\* More band than budget: the prediction, where it lies in the range, and the rest evenly
\* over the ports between the least and the greatest seen, both included.
Spread(a, k) ==
  LET lo == Max({a.start, a.min})
      hi == Min({a.end, a.max})
      from == IF hi <= lo THEN a.start ELSE lo
      to == IF hi <= lo THEN a.end ELSE hi
      known == IF a.predicted \in a.start .. a.end THEN <<a.predicted>> ELSE <<>>
  IN Distinct(known \o Even(from, to, k - Len(known)))

\* Mutant: the first k ports of the range.
WindowFromStart(a, k) == PortsFrom(a.start, a.start + k - 1)

\* A window of k ports about the prediction, moved back where it would leave the range.
Window(a, k) ==
  LET first == Max({a.start, a.predicted - k \div 2})
  IN IF first + k - 1 > a.end THEN PortsFrom(Max({a.start, a.end - k + 1}), a.end)
     ELSE PortsFrom(first, first + k - 1)

\* build_candidate_ports, with a budget of k.
CandidatePorts(a, k) ==
  IF ~a.scan \/ a.start <= 0 \/ a.end < a.start THEN <<>>
  ELSE IF a.end - a.start + 1 <= k THEN PortsFrom(a.start, a.end)
  ELSE IF a.pattern = "random_like" THEN Spread(a, k)
  ELSE Window(a, k)

----------------------------------------------------------------------------
\* Mutant: every connection is given the prediction for the first local port.
NatPortOfFirst(a, l, external, addr) ==
  IF a.pattern = "port_preserved" THEN l
  ELSE IF a.predicted > 0 THEN InPortRange(a.predicted)
  ELSE addr

\* get_nat_port_for_local_port: the external port of local port l; addr is the one of the
\* client's control connection.  (Ports measured for l itself are only on record for
\* those added in a retry.)
NatPort(a, l, external, addr) ==
  IF a.pattern = "port_preserved" THEN l
  ELSE IF a.allocation = "zufaellig_im_band" /\ a.predicted > 0 THEN InPortRange(a.predicted)
  ELSE IF external /\ a.predicted > 0 THEN InPortRange(a.predicted)
  ELSE IF a.deltaMin # 0 \/ a.deltaMax # 0 \/ a.delta2 # 0
  THEN InPortRange(RoundDiv(2 * l + a.delta2 + 2 * a.shift, 2))
  ELSE IF a.predicted > 0 THEN InPortRange(a.predicted)
  ELSE addr

Public(port) == [port |-> port, lan |-> FALSE]
InLan(port) == [port |-> port, lan |-> TRUE]

\* get_peer_addresses_with_prediction: the client's address in the LAN the two share (lan
\* is its local port, or 0), the port predicted for this connection, then the candidates.
\* The client holds m ports when it punches.
PeerAddresses(a, primary, lan, m, ceiling) ==
  LET ports == IF a.scan THEN CandidatePorts(a, Needed(a, m, ceiling)) ELSE <<>>
      known == IF lan > 0 THEN <<InLan(lan), Public(primary)>> ELSE <<Public(primary)>>
  IN Distinct(known \o [k \in DOMAIN ports |-> Public(ports[k])])

----------------------------------------------------------------------------
(* The client that punches (punch/strategy.rs, build_targets).             *)

\* Mutant: counted from one, the last is picked twice and the budget not filled.
PickFromOne(s, n) ==
  IF s = <<>> THEN <<>>
  ELSE [i \in 1 .. n |-> s[Min({Len(s), (2 * i * Len(s) + n) \div (2 * n) + 1})]]

\* n of s, evenly from the first on; rounded half up.
Pick(s, n) ==
  IF s = <<>> THEN <<>>
  ELSE [i \in 1 .. n |-> s[Min({Len(s), (2 * (i - 1) * Len(s) + n) \div (2 * n) + 1})]]

\* The LAN addresses and the first public one stay; the rest is drawn from the ports
\* between lo and hi, those the relay saw, and then, if there is room left, from the others.
Targets(addresses, lo, hi, max) ==
  LET fixed == Min({max, 1 + Cardinality({k \in DOMAIN addresses : addresses[k].lan})})
      rest == SubSeq(addresses, fixed + 1, Len(addresses))
      seen == {k \in DOMAIN rest : lo > 0 /\ lo <= rest[k].port /\ rest[k].port <= hi}
      inside == Those(rest, seen)
      outside == Those(rest, DOMAIN rest \ seen)
      source == IF inside = <<>> THEN rest ELSE inside
      first == Distinct(SubSeq(addresses, 1, fixed) \o Pick(source, max - fixed))
  IN IF Len(addresses) <= max THEN addresses
     ELSE Distinct(first \o Pick(outside, max - Len(first)))
=============================================================================
