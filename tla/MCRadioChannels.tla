-------------------------- MODULE MCRadioChannels --------------------------
EXTENDS RadioChannels, TLC

CONSTANTS a, b

(* Nothing tells two handlers apart, nor the two ordinary names. *)
Symmetry == Permutations(Tasks) \cup Permutations({a, b})
=============================================================================
