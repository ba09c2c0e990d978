---------------------------- MODULE MCSliderPool ----------------------------
(* Two commands beside one challenge; either image can fill a pool of one. *)
EXTENDS SliderPool, TLC

MCSymmetry == Permutations(Commands) \cup Permutations(Images)
=============================================================================
