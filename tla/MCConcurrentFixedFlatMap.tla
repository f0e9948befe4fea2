---------------------- MODULE MCConcurrentFixedFlatMap ----------------------
(* Four slots, three keys: two of them collide on the last slot and wrap. *)
EXTENDS ConcurrentFixedFlatMap

CONSTANTS k1, k2, k3

MCKey == {k1, k2, k3}
MCHash == [k \in MCKey |-> IF k = k3 THEN 0 ELSE 3]
=============================================================================
