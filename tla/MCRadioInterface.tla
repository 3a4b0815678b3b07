--------------------------- MODULE MCRadioInterface ---------------------------
(* The radio interface for TLC: the radio says play, the poll task stop.   *)
EXTENDS RadioInterface

MCCommands == {"PLAY"}
=============================================================================
