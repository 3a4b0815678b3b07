----------------------------- MODULE MCPlayback -----------------------------
(* Instances of Playback for TLC. *)
EXTENDS Playback

(* Message buffers are interchangeable: Init only fixes their order.       *)
Symmetry == Permutations(Msgs) \cup Permutations(Clients)
=============================================================================
