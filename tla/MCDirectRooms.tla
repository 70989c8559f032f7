--------------------------- MODULE MCDirectRooms ---------------------------
EXTENDS DirectRooms, TLC

(* Nothing tells two requests apart. *)
Symmetry == Permutations(Handlers)
=============================================================================
