---------------------------- MODULE MCPunchSelect ----------------------------
(***************************************************************************)
(* PunchSelect with two links.  Of the random numbers only the order       *)
(* matters, and of that, that the two sides draw the smaller number on     *)
(* different links: compared as each side sees them the two pairs would    *)
(* come in different orders.  Of the options, that the sides have the same *)
(* or not; with prefer_lan off on both, is_lan is without effect, which is *)
(* the case of no link in the same network.                                *)
(***************************************************************************)
EXTENDS PunchSelect

MCDraws == {[p \in Peers |-> IF p = "sender" THEN <<1, 3>> ELSE <<4, 2>>]}
MCOptions == {[p \in Peers |-> TRUE], [p \in Peers |-> p = "sender"]}
=============================================================================
