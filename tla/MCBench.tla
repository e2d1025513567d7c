-------------------------------- MODULE MCBench --------------------------------
(* Setups for Bench: one and two connections, and lists that differ.         *)
EXTENDS Bench

One == <<"k1">>
Two == <<"k1", "k2">>
Second == <<"k2">>

MCSetups ==
  {[sender |-> l, receiver |-> l, total |-> x[1], rtt |-> x[2], then |-> x[3]] :
     l \in {One, Two}, x \in {<<1, 2, TRUE>>, <<2, 0, FALSE>>}}
    \cup {[sender |-> l, receiver |-> m, total |-> 1, rtt |-> 1, then |-> TRUE] :
            l \in {One, Two, Second}, m \in {One, Two, Second}}
    \cup {[sender |-> Two, receiver |-> Second, total |-> 1, rtt |-> 0, then |-> TRUE]}
=============================================================================
