-------------------------- MODULE MCChannelTraffic --------------------------
EXTENDS ChannelTraffic, TLC

CONSTANTS a, b, c

(* Nothing tells two handlers apart, nor the ordinary names. *)
Symmetry == Permutations(Tasks) \cup Permutations({a, b, c})
=============================================================================
