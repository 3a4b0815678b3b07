------------------------------ MODULE MCSdCard ------------------------------
(* The instance of SdCard for TLC. *)
EXTENDS SdCard
=============================================================================
