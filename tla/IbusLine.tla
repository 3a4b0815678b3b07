------------------------------ MODULE IbusLine ------------------------------
(***************************************************************************)
(* What ibus_physical_send_message promises (ibus-physical.h): a message   *)
(* handed over is copied and goes out on the iBus at some later time,      *)
(* whole, once, and in the order in which the messages were handed over.   *)
(***************************************************************************)
EXTENDS Integers, Sequences

CONSTANTS Payloads, QueueMax, Quiet

VARIABLES
  queue,   (* messages handed over that are not out yet                     *)
  wire     (* the last message on the wire, and the parity of its number    *)

vars == <<queue, wire>>

Init == queue = <<>> /\ wire = [payload |-> Quiet, parity |-> 0]

Submit(p) ==
  /\ Len(queue) < QueueMax
  /\ queue' = Append(queue, p)
  /\ UNCHANGED wire

Transmit ==
  /\ queue # <<>>
  /\ queue' = Tail(queue)
  /\ wire' = [payload |-> Head(queue), parity |-> 1 - wire.parity]

Next == Transmit \/ \E p \in Payloads : Submit(p)

Spec == Init /\ [][Next]_vars
=============================================================================
