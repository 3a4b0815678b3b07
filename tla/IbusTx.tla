------------------------------- MODULE IbusTx -------------------------------
(***************************************************************************)
(* src/library/ibus-physical/src/ibus-physical.c, the sending half: the    *)
(* callers of ibus_physical_send_message, __tx_task, the two interrupt     *)
(* handlers, and the DMA channel they share (bsp/src/pdca.c: a transfer    *)
(* and one reload, "mar" and "marr").  A transfer goes out while the line  *)
(* is clear to send (CTS), which the other modules of the car decide.      *)
(*                                                                         *)
(* __usart_isr reports a change of CTS only if the CTS bit of the status   *)
(* register survives "csr_value &= usart->imr", and then always as false.  *)
(* The register layout is not in the repository: CtsReported.              *)
(***************************************************************************)
EXTENDS Integers, Sequences, FiniteSets, SequencesExt

CONSTANTS
  Msgs,         (* __tx_messages: IBUS_PHYSICAL_TX_MSG_MAX buffers          *)
  Senders,      (* the tasks that send                                      *)
  Payloads,     (* what they send                                           *)
  CtsReported,  (* BOOLEAN, see above                                       *)
  Nil, Quiet    (* no buffer; nothing sent yet                              *)

ASSUME PoolAssumption == IsFiniteSet(Msgs) /\ Nil \notin Msgs
ASSUME PayloadAssumption == Quiet \notin Payloads
ASSUME CtsAssumption == CtsReported \in BOOLEAN

IBUS_PHYSICAL_TX_MSG_MAX == Cardinality(Msgs)

VARIABLES
  tx_idle, tx_pending, (* the queues of buffers                             *)
  payload,             (* what each buffer holds                            *)
  wake_up, tx_done,    (* the binary semaphores, TRUE when given            *)
  successfully_sent,   (* __tx_successfully_sent                            *)
  spc, shold,          (* per sender: where it is, the buffer in its hands  *)
  pc, hold,            (* __tx_task: where it is, the buffer in its hands   *)
  mar, marr, ten,      (* the DMA channel: transfer, reload, enabled        *)
  isr,                 (* its transfer complete interrupt is enabled        *)
  cts,                 (* the line is clear to send                         *)
  wire                 (* the last message that went out                    *)

queueVars == <<tx_idle, tx_pending, payload>>
semVars == <<wake_up, tx_done, successfully_sent>>
senderVars == <<spc, shold>>
taskVars == <<pc, hold>>
dmaVars == <<mar, marr, ten, isr>>
vars == <<queueVars, semVars, senderVars, taskVars, dmaVars, cts, wire>>

(* ibus_physical_init.                                                     *)
Init ==
  /\ tx_idle \in SetToSeqs(Msgs) /\ tx_pending = <<>>
  /\ payload = [m \in Msgs |-> Quiet]
  /\ wake_up = FALSE /\ tx_done = FALSE /\ successfully_sent = FALSE
  /\ spc = [s \in Senders |-> "out"] /\ shold = [s \in Senders |-> Nil]
  /\ pc = "check" /\ hold = Nil
  /\ mar = Nil /\ marr = Nil /\ ten = FALSE /\ isr = FALSE
  /\ cts \in BOOLEAN
  /\ wire = [payload |-> Quiet, parity |-> 0]

-----------------------------------------------------------------------------
(* ibus_physical_send_message: take a buffer, fill it, queue it, wake the  *)
(* task.  (A payload of no or too many bytes is refused at the start.)     *)

TakeIdle(s, p) ==
  /\ spc[s] = "out" /\ tx_idle # <<>>
  /\ shold' = [shold EXCEPT ![s] = Head(tx_idle)]
  /\ tx_idle' = Tail(tx_idle)
  /\ payload' = [payload EXCEPT ![Head(tx_idle)] = p]
  /\ spc' = [spc EXCEPT ![s] = "queue"]
  /\ UNCHANGED <<tx_pending, semVars, taskVars, dmaVars, cts, wire>>

Queue(s) ==
  /\ spc[s] = "queue" /\ Len(tx_pending) < IBUS_PHYSICAL_TX_MSG_MAX
  /\ tx_pending' = Append(tx_pending, shold[s])
  /\ shold' = [shold EXCEPT ![s] = Nil]
  /\ spc' = [spc EXCEPT ![s] = "wake"]
  /\ UNCHANGED <<tx_idle, payload, semVars, taskVars, dmaVars, cts, wire>>

WakeUp(s) ==
  /\ spc[s] = "wake"
  /\ wake_up' = TRUE
  /\ spc' = [spc EXCEPT ![s] = "out"]
  /\ UNCHANGED <<queueVars, tx_done, successfully_sent, shold, taskVars, dmaVars, cts, wire>>

-----------------------------------------------------------------------------
(* __tx_task                                                               *)

(* A message waiting, and then the line clear; else sleep.  One mutant     *)
(* looks without waiting for a message, one only at the next wake-up.      *)
WorkAssumed == TRUE
WorkOnWakeUp == tx_pending # <<>> /\ wake_up
Work == tx_pending # <<>>

Check ==
  /\ pc = "check"
  /\ pc' = IF Work THEN "cts" ELSE "sleep"
  /\ UNCHANGED <<queueVars, semVars, senderVars, hold, dmaVars, cts, wire>>

CheckCts ==
  /\ pc = "cts"
  /\ pc' = IF cts THEN "receive" ELSE "sleep"
  /\ UNCHANGED <<queueVars, semVars, senderVars, hold, dmaVars, cts, wire>>

Sleep ==
  /\ pc = "sleep" /\ wake_up
  /\ wake_up' = FALSE /\ pc' = "check"
  /\ UNCHANGED <<queueVars, tx_done, successfully_sent, senderVars, hold, dmaVars, cts, wire>>

(* Mutant: the message is looked at, not received.                         *)
ReceivePeeks ==
  /\ pc = "receive" /\ tx_pending # <<>>
  /\ hold' = Head(tx_pending)
  /\ successfully_sent' = FALSE
  /\ pc' = "dma"
  /\ UNCHANGED <<queueVars, wake_up, tx_done, senderVars, dmaVars, cts, wire>>

Receive ==
  /\ pc = "receive" /\ tx_pending # <<>>
  /\ hold' = Head(tx_pending) /\ tx_pending' = Tail(tx_pending)
  /\ successfully_sent' = FALSE
  /\ pc' = "dma"
  /\ UNCHANGED <<tx_idle, payload, wake_up, tx_done, senderVars, dmaVars, cts, wire>>

(* pdca_queue_buffer: the first free of the two slots; none is an error    *)
(* __tx_task ignores.                                                      *)
QueueBuffer ==
  /\ pc = "dma"
  /\ IF ~ten /\ mar = Nil THEN mar' = hold /\ UNCHANGED marr
     ELSE UNCHANGED mar /\ marr' = IF marr = Nil THEN hold ELSE marr
  /\ pc' = "isr"
  /\ UNCHANGED <<queueVars, semVars, senderVars, hold, ten, isr, cts, wire>>

EnableIsr ==
  /\ pc = "isr"
  /\ isr' = TRUE /\ pc' = "enable"
  /\ UNCHANGED <<queueVars, semVars, senderVars, hold, mar, marr, ten, cts, wire>>

Enable ==
  /\ pc = "enable"
  /\ ten' = TRUE /\ pc' = "await"
  /\ UNCHANGED <<queueVars, semVars, senderVars, hold, mar, marr, isr, cts, wire>>

(* Mutant: the take of tx_done does not wait.                              *)
AwaitNothing ==
  /\ pc = "await"
  /\ tx_done' = FALSE /\ pc' = "outcome"
  /\ UNCHANGED <<queueVars, wake_up, successfully_sent, senderVars, hold, dmaVars, cts, wire>>

AwaitDone ==
  /\ pc = "await" /\ tx_done
  /\ tx_done' = FALSE /\ pc' = "outcome"
  /\ UNCHANGED <<queueVars, wake_up, successfully_sent, senderVars, hold, dmaVars, cts, wire>>

(* Sent: the buffer is free again.  Cancelled: it is the next to be sent.  *)
Requeued == <<hold>> \o tx_pending

Outcome ==
  /\ pc = "outcome"
  /\ Len(IF successfully_sent THEN tx_idle ELSE tx_pending) < IBUS_PHYSICAL_TX_MSG_MAX
  /\ IF successfully_sent
       THEN tx_idle' = <<hold>> \o tx_idle /\ UNCHANGED tx_pending
       ELSE tx_pending' = Requeued /\ UNCHANGED tx_idle
  /\ hold' = Nil /\ pc' = "check"
  /\ UNCHANGED <<payload, semVars, senderVars, dmaVars, cts, wire>>

TxTask ==
  Check \/ CheckCts \/ Sleep \/ Receive \/ QueueBuffer \/ EnableIsr \/ Enable \/ AwaitDone
    \/ Outcome

-----------------------------------------------------------------------------
(* The DMA channel, the line and the interrupts.                           *)

(* The buffer of the running transfer has gone out, the reload follows.    *)
Transfer ==
  /\ ten /\ mar # Nil /\ cts
  /\ wire' = [payload |-> payload[mar], parity |-> 1 - wire.parity]
  /\ mar' = marr /\ marr' = Nil
  /\ UNCHANGED <<queueVars, semVars, senderVars, taskVars, ten, isr, cts>>

DmaOff == mar' = Nil /\ marr' = Nil /\ ten' = FALSE /\ isr' = FALSE

(* __tx_msg_sent, on transfer complete: nothing left in either slot.       *)
TxMsgSent ==
  /\ isr /\ mar = Nil /\ marr = Nil
  /\ DmaOff
  /\ successfully_sent' = TRUE /\ tx_done' = TRUE
  /\ UNCHANGED <<queueVars, wake_up, senderVars, taskVars, cts, wire>>

(* The line changes.  __usart_isr at most calls __cts_change_isr( false ), *)
(* when it is no longer clear to send: the transfer is cancelled.          *)
CtsChange ==
  /\ cts' = ~cts
  /\ IF CtsReported /\ cts
       THEN DmaOff /\ tx_done' = TRUE
       ELSE UNCHANGED <<dmaVars, tx_done>>
  /\ UNCHANGED <<queueVars, wake_up, successfully_sent, senderVars, taskVars, wire>>

Next ==
  \/ \E s \in Senders : (\E p \in Payloads : TakeIdle(s, p)) \/ Queue(s) \/ WakeUp(s)
  \/ TxTask \/ Transfer \/ TxMsgSent \/ CtsChange

Spec == Init /\ [][Next]_vars

(* A send once begun runs on, the task is scheduled, interrupts are taken, *)
(* and the line is clear often enough for a running transfer to end.       *)
FairSpec ==
  /\ Spec
  /\ \A s \in Senders : WF_vars(Queue(s)) /\ WF_vars(WakeUp(s))
  /\ WF_vars(TxTask) /\ SF_vars(Transfer) /\ WF_vars(TxMsgSent)

-----------------------------------------------------------------------------
(* Properties.                                                             *)

TypeOK ==
  /\ tx_idle \in Seq(Msgs) /\ tx_pending \in Seq(Msgs)
  /\ payload \in [Msgs -> Payloads \cup {Quiet}]
  /\ {wake_up, tx_done, successfully_sent, ten, isr, cts} \subseteq BOOLEAN
  /\ spc \in [Senders -> {"out", "queue", "wake"}]
  /\ shold \in [Senders -> Msgs \cup {Nil}]
  /\ pc \in {"check", "cts", "sleep", "receive", "dma", "isr", "enable", "await", "outcome"}
  /\ {hold, mar, marr} \subseteq Msgs \cup {Nil}
  /\ wire \in [payload : Payloads \cup {Quiet}, parity : {0, 1}]

Sending == {shold[s] : s \in Senders} \ {Nil}
Tasked == {hold} \ {Nil}

(* Every buffer is in one place: free, waiting, with one sender or with    *)
(* the task, also across a transfer that is cancelled and tried again.     *)
OnePlace ==
  /\ TypeOK
  /\ IsInjective(tx_idle \o tx_pending)
  /\ (Sending \cup Tasked) \cap ToSet(tx_idle \o tx_pending) = {}
  /\ Sending \cap Tasked = {}
  /\ \A s, t \in Senders : s # t /\ shold[s] # Nil => shold[s] # shold[t]
  /\ Msgs = ToSet(tx_idle \o tx_pending) \cup Sending \cup Tasked

(* The receive of __tx_task does not wait: there is a message to receive,  *)
(* for no one else takes from __tx_pending after it was looked at.         *)
ReceiveFinds == pc = "receive" => tx_pending # <<>>

(* The DMA reads only the buffer that __tx_task holds: no sender writes a  *)
(* message that is going out.  "Wait until the message is sent", line 301. *)
DmaOwned == {mar, marr} \subseteq {hold, Nil}

Unsent ==
  IF pc \in {"dma", "isr", "enable"} \/ (pc = "await" /\ mar # Nil) THEN <<hold>> ELSE <<>>

Line == INSTANCE IbusLine WITH
  QueueMax <- IBUS_PHYSICAL_TX_MSG_MAX,
  queue <- [i \in DOMAIN (Unsent \o tx_pending) |-> payload[(Unsent \o tx_pending)[i]]],
  wire <- wire

(* Each message goes out once, whole and in order, whatever the line does. *)
ImplementsLine == Line!Spec

(* A wake-up while the line stays clear is enough: no message waits for    *)
(* another one, however the wake-up and the looks of the task interleave.  *)
WakeUpDrains ==
  \A m \in Msgs : (wake_up /\ m \in ToSet(tx_pending) /\ []cts) ~> m \notin ToSet(tx_pending)
=============================================================================
