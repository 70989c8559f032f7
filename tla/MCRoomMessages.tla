--------------------------- MODULE MCRoomMessages ---------------------------
EXTENDS RoomMessages, TLC

(* Nothing tells two requests apart. *)
Symmetry == Permutations(Handlers)
=============================================================================
