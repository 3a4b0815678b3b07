------------------------------- MODULE MCDsp -------------------------------
(* Instances of Dsp for TLC. *)
EXTENDS Dsp

Symmetry == Permutations(Inputs) \cup Permutations(Outputs) \cup Permutations(Silences)
=============================================================================
