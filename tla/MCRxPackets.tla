---------------------------- MODULE MCRxPackets ----------------------------
(* Three packets and a parser queue that fills at once. *)
EXTENDS RxPackets, TLC

Symmetry == Permutations(Packet)
=============================================================================
