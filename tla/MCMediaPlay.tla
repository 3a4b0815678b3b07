---------------------------- MODULE MCMediaPlay ----------------------------
(* The players for TLC: one node more than a song has.                     *)
EXTENDS MediaPlay
=============================================================================
