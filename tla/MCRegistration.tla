---------------------------- MODULE MCRegistration ----------------------------
(***************************************************************************)
(* Setups for Registration: some in which programs meet, leave, are started*)
(* again or twice and lose probes, with few probes each; and many NATs and *)
(* options for a client that probes beside one whose NAT keeps its ports.  *)
(***************************************************************************)
EXTENDS Registration

Offset(d) == [kind |-> "offset", by |-> d]
PerDestination(d) == [kind |-> "per_destination", by |-> d]
PerConnection(s) == [kind |-> "per_connection", ports |-> s]
Keeping == Offset(0)

Plain == [nat |-> Keeping, runs |-> 1, probes |-> 2, bound |-> TRUE, external |-> FALSE,
          percent |-> 0, punch |-> 1]
Option(nat, runs) == [Plain EXCEPT !.nat = nat, !.runs = runs]
Ephemeral(nat) == [Plain EXCEPT !.nat = nat, !.bound = FALSE, !.probes = 3]

Quiet(s, r) ==
  [sender |-> s, receiver |-> r, shared |-> FALSE, double |-> FALSE, maxScan |-> 8,
   conns |-> 1, leavers |-> {}, maxFaults |-> 0]

\* Few ports, each connection another one.
Drawn == PerConnection(<<20290, 20293, 20291, 20299, 20295>>)

\* Both probe, behind one address or two.
Together ==
  {[Quiet(Option(n, 1), Option(m, 1)) EXCEPT !.shared = b] :
     n \in {Offset(300), PerDestination(300), Drawn}, m \in {Offset(-100), Keeping},
     b \in BOOLEAN}

\* Probes are lost, or answered late.
Disturbed ==
  {[Quiet(Option(n, 1), Option(Keeping, 1)) EXCEPT !.maxFaults = 2] : n \in {Offset(300), Drawn}}

\* Started again after leaving, and started twice.
Restarted ==
  {[Quiet(Option(Offset(300), 2), Option(Keeping, 1)) EXCEPT !.leavers = {"sender"}],
   [Quiet(Option(Keeping, 2), Option(Keeping, 2)) EXCEPT !.leavers = {"sender"}]}
    \cup {[Quiet(Option(n, 2), Option(Keeping, 2)) EXCEPT !.double = TRUE] :
            n \in {Offset(300), Drawn}}

\* Probes that nobody awaits.
Unawaited ==
  {Quiet(Ephemeral(n), Option(Keeping, 1)) : n \in {Offset(300), Drawn}}

\* The k-th of the ports a NAT draws from w ports at base.
Band11(base, w, step) == PerConnection([k \in 1 .. 11 |-> base + ((k * step) % w)])

\* Many probes of a NAT that draws from a band: narrow or wide, a whole block, at either end
\* of the range; with options of the client and budgets of the relay.
Wide ==
  {[Quiet([Option(n, 1) EXCEPT !.probes = 10, !.percent = x.percent, !.punch = x.punch,
                               !.external = x.external], Option(Keeping, 1))
      EXCEPT !.maxScan = x.maxScan, !.conns = x.conns] :
     n \in {Band11(20280, 5, 3), Band11(20300, 50, 17), Band11(20480, 256, 51),
            Band11(20200, 600, 233), Band11(65236, 300, 89), Band11(1024, 300, 113)},
     x \in [percent : {0, 50}, punch : {1, 4}, external : {FALSE}, maxScan : {8}, conns : {1}]
          \cup [percent : {0}, punch : {16}, external : {TRUE}, maxScan : {8}, conns : {1}]
          \cup [percent : {50}, punch : {1}, external : {FALSE}, maxScan : {4, 64},
                conns : {2}]}

\* A NAT that adds a constant, for two connections and their two ports.
Known ==
  {[Quiet([Option(Offset(d), 1) EXCEPT !.probes = 8, !.percent = x], Option(Keeping, 1))
      EXCEPT !.conns = 2, !.shared = b] :
     d \in {300, -100}, x \in {0, 50}, b \in BOOLEAN}

MCSetups == Together \cup Disturbed \cup Restarted \cup Unawaited \cup Known \cup Wide
=============================================================================
