------------------------------ MODULE MCIbusRx ------------------------------
(* The instance of IbusRx for TLC: its constants are in the configuration.  *)
EXTENDS IbusRx
=============================================================================
