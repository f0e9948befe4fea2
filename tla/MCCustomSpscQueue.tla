------------------------- MODULE MCCustomSpscQueue -------------------------
(* The smallest ring the template admits, with a size_t of two rounds. *)
EXTENDS CustomSpscQueue
=============================================================================
