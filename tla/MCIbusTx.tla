------------------------------ MODULE MCIbusTx ------------------------------
(* Instances of IbusTx for TLC. *)
EXTENDS IbusTx

Symmetry == Permutations(Msgs) \cup Permutations(Senders)
=============================================================================
