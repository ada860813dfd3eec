------------------------------ MODULE MCMixer ------------------------------
(* Mixer with two ranges: one that -EINVAL is in, and one so wide that a      *)
(* percent of it overflows an int, which here has 13 bits. The value is one   *)
(* beyond the first range and in the second.                                  *)
EXTENDS Mixer, TLC

MCRanges == {[min |-> -22, max |-> 0], [min |-> 0, max |-> 100]}

Symmetry == Permutations(Handles)
=============================================================================
