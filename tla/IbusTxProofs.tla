---------------------------- MODULE IbusTxProofs ----------------------------
(***************************************************************************)
(* Proofs about both halves of the iBus physical layer, for any pools,     *)
(* senders and frames.  IbusTx, whether or not a change of CTS is          *)
(* reported: no buffer is lost or in two places, and the receive of        *)
(* __tx_task finds its message.  While no change is reported: the DMA      *)
(* reads only the message of the task, and each message goes out once,     *)
(* whole and in order (IbusLine); while the line is also clear, one that   *)
(* was not forgotten moves nearer to it.  IbusRx: no message is lost, and  *)
(* what its status says of a frame is true.                                *)
(***************************************************************************)
EXTENDS IbusTx, IbusRx, QueueLemmas

-----------------------------------------------------------------------------
(* The inductive invariant.                                                *)

Free == ToSet(tx_idle)
Queued == ToSet(tx_pending)

(* Where the buffers are, queue by queue and owner by owner.               *)
Apart ==
  /\ IsInjective(tx_idle) /\ IsInjective(tx_pending) /\ Free \cap Queued = {}
  /\ \A s \in Senders : shold[s] # Nil => shold[s] \notin Free \cup Queued \cup {hold}
  /\ \A s, t \in Senders : s # t /\ shold[s] # Nil => shold[s] # shold[t]
  /\ hold \notin Free \cup Queued
Found == \A m \in Msgs : m \in Free \cup Queued \cup {hold} \/ \E s \in Senders : m = shold[s]

(* What the place of a sender and of the task in its code says.            *)
SenderRoles == \A s \in Senders : shold[s] # Nil <=> spc[s] = "queue"
TaskRoles ==
  /\ hold # Nil <=> pc \in {"dma", "isr", "enable", "await", "outcome"}
  /\ pc \in {"cts", "receive"} => tx_pending # <<>>

Pool == TypeOK /\ Apart /\ Found /\ SenderRoles /\ TaskRoles

DmaIsOff == mar = Nil /\ marr = Nil /\ ~ten /\ ~isr

(* While no change of CTS is reported, the DMA follows the task: off until *)
(* the task queues a buffer, then with that buffer alone, and off again    *)
(* when the transfer complete interrupt has given tx_done.                 *)
DmaRoles ==
  /\ pc \in {"check", "cts", "sleep", "receive", "dma"} => DmaIsOff /\ ~tx_done
  /\ pc \in {"isr", "enable"} =>
       /\ mar = hold /\ marr = Nil /\ ~ten /\ ~tx_done
       /\ isr <=> pc = "enable"
  /\ pc = "await" =>
       IF tx_done THEN DmaIsOff /\ successfully_sent
       ELSE mar \in {hold, Nil} /\ marr = Nil /\ ten /\ isr
  /\ pc = "outcome" => DmaIsOff /\ ~tx_done /\ successfully_sent

(* A buffer on its way to the queue is filled.                             *)
Filled == \A s \in Senders : spc[s] = "queue" => payload[shold[s]] \in Payloads

Sound == Pool /\ DmaRoles /\ Filled

-----------------------------------------------------------------------------
(* Types.                                                                  *)

LEMMA InitTypes == Init => TypeOK
<1> SUFFICES ASSUME Init PROVE TypeOK
  OBVIOUS
<1>1. tx_idle \in Seq(Msgs) /\ tx_pending \in Seq(Msgs)
  BY PoolAssumption, EnumerationLemma DEF Init
<1>2. {wake_up, tx_done, successfully_sent, ten, isr, cts} \subseteq BOOLEAN
  BY Zenon DEF Init
<1>3. QED BY <1>1, <1>2 DEF Init, TypeOK

SenderStep(s) == (\E p \in Payloads : TakeIdle(s, p)) \/ Queue(s) \/ WakeUp(s)

LEMMA SenderTypes ==
  ASSUME TypeOK, SenderRoles, NEW s \in Senders, SenderStep(s)
  PROVE  TypeOK'
<1> USE DEF semVars, taskVars, dmaVars, queueVars
<1>1. ASSUME NEW p \in Payloads, TakeIdle(s, p) PROVE TypeOK'
  <2>1. Head(tx_idle) \in Msgs /\ Tail(tx_idle) \in Seq(Msgs)
    BY <1>1, ReceiveLemma DEF TakeIdle, TypeOK
  <2>2. QED BY <1>1, <2>1 DEF TakeIdle, TypeOK
<1>2. CASE Queue(s)
  <2>1. shold[s] \in Msgs
    BY <1>2 DEF TypeOK, SenderRoles, Queue
  <2>2. Append(tx_pending, shold[s]) \in Seq(Msgs)
    BY <2>1, SendLemma DEF TypeOK
  <2>3. QED BY <1>2, <2>2 DEF Queue, TypeOK
<1>3. CASE WakeUp(s)
  BY <1>3 DEF WakeUp, TypeOK
<1>4. QED BY <1>1, <1>2, <1>3 DEF SenderStep

LEMMA TaskTypes == TypeOK /\ TaskRoles /\ TxTask => TypeOK'
<1> SUFFICES ASSUME TypeOK, TaskRoles, TxTask PROVE TypeOK'
  OBVIOUS
<1> USE DEF TypeOK, semVars, senderVars, dmaVars, queueVars
<1>1. CASE Check \/ CheckCts \/ Sleep
  <2>1. pc' \in {"check", "cts", "sleep", "receive"}
    BY <1>1 DEF Check, CheckCts, Sleep
  <2>2. {wake_up', tx_done', successfully_sent', ten', isr', cts'} \subseteq BOOLEAN
    BY <1>1 DEF Check, CheckCts, Sleep
  <2>3. QED BY <1>1, <2>1, <2>2 DEF Check, CheckCts, Sleep
<1>2. CASE Receive
  <2>1. Head(tx_pending) \in Msgs /\ Tail(tx_pending) \in Seq(Msgs)
    BY <1>2, ReceiveLemma DEF Receive
  <2>2. QED BY <1>2, <2>1 DEF Receive
<1>3. CASE QueueBuffer
  <2>1. {hold', mar', marr'} \subseteq Msgs \cup {Nil}
    BY <1>3 DEF QueueBuffer
  <2>2. QED BY <1>3, <2>1 DEF QueueBuffer
<1>4. CASE EnableIsr \/ Enable \/ AwaitDone
  BY <1>4, ZenonT(30) DEF EnableIsr, Enable, AwaitDone
<1>5. CASE Outcome
  <2>1. hold \in Msgs
    BY <1>5 DEF Outcome, TaskRoles
  <2>2. <<hold>> \o tx_idle \in Seq(Msgs) /\ <<hold>> \o tx_pending \in Seq(Msgs)
    BY <2>1, PrependLemma
  <2>3. tx_idle' \in Seq(Msgs) /\ tx_pending' \in Seq(Msgs)
    BY <1>5, <2>2 DEF Outcome, Requeued
  <2>4. QED BY <1>5, <2>3 DEF Outcome
<1>6. QED BY <1>1, <1>2, <1>3, <1>4, <1>5 DEF TxTask

LineStep == Transfer \/ TxMsgSent \/ CtsChange

LEMMA LineTypes == TypeOK /\ LineStep => TypeOK'
<1> SUFFICES ASSUME TypeOK, LineStep PROVE TypeOK'
  OBVIOUS
<1> USE DEF TypeOK, semVars, senderVars, taskVars, dmaVars, queueVars
<1>1. CASE Transfer
  <2>1. payload[mar] \in Payloads \cup {Quiet} /\ 1 - wire.parity \in {0, 1}
    BY <1>1 DEF Transfer
  <2>2. QED BY <1>1, <2>1 DEF Transfer
<1>2. CASE TxMsgSent
  BY <1>2 DEF TxMsgSent, DmaOff
<1>3. CASE CtsChange
  <2>1. {mar', marr'} \subseteq Msgs \cup {Nil}
    BY <1>3 DEF CtsChange, DmaOff
  <2>2. {tx_done', ten', isr'} \subseteq BOOLEAN
    <3>1. CASE CtsReported /\ cts
      BY <1>3, <3>1 DEF CtsChange, DmaOff
    <3>2. CASE ~(CtsReported /\ cts)
      BY <1>3, <3>2 DEF CtsChange
    <3>3. QED BY <3>1, <3>2
  <2>3. cts' \in BOOLEAN
    BY <1>3 DEF CtsChange
  <2>4. QED BY <1>3, <2>1, <2>2, <2>3 DEF CtsChange
<1>4. QED BY <1>1, <1>2, <1>3 DEF LineStep

-----------------------------------------------------------------------------
(* The buffers.                                                            *)

LEMMA InitPool == Init => Pool
<1> SUFFICES ASSUME Init PROVE Pool
  OBVIOUS
<1>1. IsInjective(tx_idle) /\ Free = Msgs
  BY PoolAssumption, EnumerationLemma DEF Init, Free
<1>2. IsInjective(tx_pending) /\ Queued = {}
  BY DEF Init, Queued, IsInjective, ToSet
<1>3. Apart
  BY <1>1, <1>2, PoolAssumption DEF Apart, Init
<1>4. Found
  BY <1>1 DEF Found
<1>5. SenderRoles /\ TaskRoles
  BY DEF SenderRoles, TaskRoles, Init
<1>6. QED BY <1>3, <1>4, <1>5, InitTypes DEF Pool

(* A sender has the buffer it took, fills and queues alone.                *)
LEMMA SenderPool ==
  ASSUME Pool, NEW s \in Senders, SenderStep(s)
  PROVE  Pool'
<1> USE DEF Pool
<1>1. TypeOK'
  BY SenderTypes
<1>2. UNCHANGED taskVars
  BY DEF SenderStep, TakeIdle, Queue, WakeUp
<1>3. ASSUME NEW p \in Payloads, TakeIdle(s, p) PROVE (Apart /\ Found /\ SenderRoles /\ TaskRoles)'
  <2> DEFINE m == Head(tx_idle)
  <2>1. /\ m \in Msgs /\ m \in Free /\ Free = Free' \cup {m}
        /\ IsInjective(tx_idle') /\ m \notin Free'
    BY <1>3, ReceiveLemma DEF TakeIdle, TypeOK, Apart, Free
  <2>2. Queued' = Queued /\ tx_pending' = tx_pending /\ UNCHANGED <<hold, pc>>
    BY <1>3 DEF TakeIdle, Queued, taskVars
  <2>3. /\ shold \in [Senders -> Msgs \cup {Nil}] /\ spc \in [Senders -> {"out", "queue", "wake"}]
        /\ shold' = [shold EXCEPT ![s] = m] /\ spc' = [spc EXCEPT ![s] = "queue"]
        /\ spc[s] = "out"
    BY <1>3 DEF TakeIdle, TypeOK
  <2> HIDE DEF m
  <2>4. Apart'
    BY <2>1, <2>2, <2>3, PoolAssumption DEF Apart
  <2>5. shold[s] = Nil
    BY <2>3 DEF SenderRoles
  <2>6. Found'
    <3>1. SUFFICES ASSUME NEW n \in Msgs
                   PROVE  n \in (Free \cup Queued \cup {hold})' \/ \E t \in Senders : n = shold'[t]
      BY DEF Found
    <3>2. CASE n = m
      BY <2>3, <3>2
    <3>3. CASE n \in Free \cup Queued \cup {hold} /\ n # m
      BY <2>1, <2>2, <3>3
    <3>4. CASE \E t \in Senders : n = shold[t]
      <4>1. PICK t \in Senders : n = shold[t]
        BY <3>4
      <4>2. t # s
        BY <4>1, <2>5, PoolAssumption
      <4>3. QED BY <4>1, <4>2, <2>3
    <3>5. QED BY <3>2, <3>3, <3>4 DEF Found
  <2>7. SenderRoles'
    BY <2>1, <2>3, PoolAssumption DEF SenderRoles
  <2>8. TaskRoles'
    BY <2>2 DEF TaskRoles
  <2>9. QED BY <2>4, <2>6, <2>7, <2>8
<1>4. CASE Queue(s)
  <2> DEFINE m == shold[s]
  <2>1. m \in Msgs /\ m \notin Free \cup Queued \cup {hold}
    BY <1>4 DEF Queue, SenderRoles, Apart, TypeOK
  <2>2. /\ IsInjective(tx_pending') /\ Queued' = Queued \cup {m} /\ tx_pending' # <<>>
    BY <1>4, <2>1, SendLemma, AppendProperties DEF Queue, TypeOK, Apart, Queued
  <2>3. Free' = Free /\ tx_idle' = tx_idle /\ UNCHANGED <<hold, pc>>
    BY <1>4 DEF Queue, Free, taskVars
  <2>4. /\ shold \in [Senders -> Msgs \cup {Nil}] /\ spc \in [Senders -> {"out", "queue", "wake"}]
        /\ shold' = [shold EXCEPT ![s] = Nil] /\ spc' = [spc EXCEPT ![s] = "wake"]
    BY <1>4 DEF Queue, TypeOK
  <2>5. Apart'
    BY <2>1, <2>2, <2>3, <2>4 DEF Apart
  <2>6. Found'
    BY <2>2, <2>3, <2>4 DEF Found
  <2>7. SenderRoles'
    BY <2>4 DEF SenderRoles
  <2>8. TaskRoles'
    BY <2>2, <2>3 DEF TaskRoles
  <2>9. QED BY <1>1, <2>5, <2>6, <2>7, <2>8
<1>5. CASE WakeUp(s)
  <2>1. UNCHANGED <<tx_idle, tx_pending, shold, hold, pc>>
    BY <1>5 DEF WakeUp, queueVars, taskVars
  <2>2. spc[s] = "wake" /\ spc' = [spc EXCEPT ![s] = "out"]
    BY <1>5 DEF WakeUp
  <2>3. SenderRoles'
    BY <2>1, <2>2 DEF SenderRoles, TypeOK
  <2>4. QED BY <1>1, <2>1, <2>3 DEF Apart, Found, Free, Queued, TaskRoles
<1>6. QED BY <1>1, <1>3, <1>4, <1>5 DEF SenderStep

(* The task takes the head of the queue into its hands and puts what it    *)
(* has in its hands in front of one of the queues.                         *)
LEMMA TaskPool == Pool /\ TxTask => Pool'
<1> SUFFICES ASSUME Pool, TxTask PROVE Pool'
  OBVIOUS
<1> USE DEF Pool
<1>1. TypeOK'
  BY TaskTypes
<1>2. UNCHANGED senderVars
  BY DEF TxTask, Check, CheckCts, Sleep, Receive, QueueBuffer, EnableIsr, Enable, AwaitDone, Outcome
<1>3. SenderRoles'
  BY <1>2 DEF SenderRoles, senderVars
<1>4. CASE Check \/ CheckCts \/ Sleep \/ QueueBuffer \/ EnableIsr \/ Enable \/ AwaitDone
  <2>1. UNCHANGED <<tx_idle, tx_pending, hold, shold>>
    BY <1>2, <1>4 DEF Check, CheckCts, Sleep, QueueBuffer, EnableIsr, Enable, AwaitDone,
                      queueVars, senderVars
  <2>2. TaskRoles'
    BY <1>4, <2>1 DEF Check, CheckCts, Sleep, QueueBuffer, EnableIsr, Enable, AwaitDone, TaskRoles, Work
  <2>3. QED BY <1>1, <1>3, <2>1, <2>2 DEF Apart, Found, Free, Queued
<1>5. CASE Receive
  <2> DEFINE m == Head(tx_pending)
  <2>1. /\ m \in Msgs /\ m \in Queued /\ Queued = Queued' \cup {m}
        /\ IsInjective(tx_pending') /\ m \notin Queued'
    BY <1>5, ReceiveLemma DEF Receive, TypeOK, Apart, Queued
  <2>2. hold = Nil /\ hold' = m /\ pc' = "dma"
    BY <1>5 DEF Receive, TaskRoles
  <2>3. UNCHANGED <<tx_idle, shold>> /\ Free' = Free
    BY <1>5 DEF Receive, senderVars, Free
  <2> HIDE DEF m
  <2>4. Apart'
    BY <2>1, <2>2, <2>3 DEF Apart
  <2>5. Found'
    BY <2>1, <2>2, <2>3, PoolAssumption DEF Found
  <2>6. TaskRoles'
    BY <2>1, <2>2, PoolAssumption DEF TaskRoles
  <2>7. QED BY <1>1, <1>3, <2>4, <2>5, <2>6
<1>6. CASE Outcome
  <2>1. hold \in Msgs /\ hold \notin Free \cup Queued /\ hold' = Nil /\ pc' = "check"
    BY <1>6 DEF Outcome, TaskRoles, TypeOK, Apart
  <2>2. /\ IsInjective(<<hold>> \o tx_idle) /\ ToSet(<<hold>> \o tx_idle) = Free \cup {hold}
        /\ IsInjective(<<hold>> \o tx_pending) /\ ToSet(<<hold>> \o tx_pending) = Queued \cup {hold}
    BY <2>1, PrependLemma DEF TypeOK, Apart, Free, Queued
  <2>3. /\ IsInjective(tx_idle') /\ IsInjective(tx_pending')
        /\ Free' \cap Queued' = {} /\ Free' \cup Queued' = Free \cup Queued \cup {hold}
    <3>1. CASE successfully_sent
      <4>1. tx_idle' = <<hold>> \o tx_idle /\ tx_pending' = tx_pending
        BY <1>6, <3>1 DEF Outcome
      <4>2. QED BY <4>1, <2>1, <2>2 DEF Apart, Free, Queued
    <3>2. CASE ~successfully_sent
      <4>1. tx_idle' = tx_idle /\ tx_pending' = <<hold>> \o tx_pending
        BY <1>6, <3>2 DEF Outcome, Requeued
      <4>2. QED BY <4>1, <2>1, <2>2 DEF Apart, Free, Queued
    <3>3. QED BY <3>1, <3>2
  <2>4. shold' = shold /\ Free' \cup Queued' \subseteq Msgs
    BY <1>2, <2>1, <2>3, <1>1 DEF senderVars, TypeOK, Free, Queued, ToSet
  <2>5. Apart'
    BY <2>1, <2>3, <2>4, PoolAssumption DEF Apart
  <2>6. Found'
    BY <2>1, <2>3, <2>4 DEF Found
  <2>7. TaskRoles'
    BY <2>1 DEF TaskRoles
  <2>8. QED BY <1>1, <1>3, <2>5, <2>6, <2>7
<1>7. QED BY <1>4, <1>5, <1>6 DEF TxTask

(* The interrupts and the line touch no queue.                             *)
LEMMA NextPool == Pool /\ [Next]_vars => Pool'
<1> SUFFICES ASSUME Pool, [Next]_vars PROVE Pool'
  OBVIOUS
<1> USE DEF Pool
<1>1. CASE LineStep \/ UNCHANGED vars
  <2>1. TypeOK'
    <3>1. CASE UNCHANGED vars
      BY <3>1 DEF vars, queueVars, semVars, senderVars, taskVars, dmaVars, TypeOK
    <3>2. QED BY <1>1, <3>1, LineTypes
  <2>2. UNCHANGED <<tx_idle, tx_pending, spc, shold, pc, hold>>
    BY <1>1 DEF LineStep, Transfer, TxMsgSent, CtsChange, vars, queueVars, senderVars, taskVars
  <2>3. QED BY <2>1, <2>2 DEF Apart, Found, SenderRoles, TaskRoles, Free, Queued
<1>2. QED BY <1>1, SenderPool, TaskPool DEF Next, LineStep, SenderStep

LEMMA PoolHolds == Spec => []Pool
<1>1. QED BY InitPool, NextPool, PTL DEF Spec

(* The variables keep their types and no buffer of __tx_messages is lost   *)
(* or in two places, also when a transfer is cancelled and its message put *)
(* back in front of the queue (__tx_task, ibus-physical.c:268-335).        *)
THEOREM PoolConserved == Spec => []OnePlace
<1>1. Pool => OnePlace
  <2> SUFFICES ASSUME Pool PROVE OnePlace
    OBVIOUS
  <2>1. /\ ToSet(tx_idle \o tx_pending) = Free \cup Queued
        /\ IsInjective(tx_idle \o tx_pending)
    BY ConcatLemma DEF Pool, TypeOK, Apart, Free, Queued
  <2>2. Free \cup Queued \subseteq Msgs
    BY DEF Pool, TypeOK, Free, Queued, ToSet
  <2>3. QED
    BY <2>1, <2>2, PoolAssumption DEF Pool, OnePlace, Sending, Tasked, Apart, Found, TypeOK
<1>2. QED BY <1>1, PoolHolds, PTL

(* The receive of __tx_task, which does not wait, finds the message that   *)
(* the look at the queue saw, however the senders and the interrupts run   *)
(* in between (ibus-physical.c:290-295).                                   *)
THEOREM ReceiveFindsOne == Spec => []ReceiveFinds
<1>1. Pool => ReceiveFinds
  BY DEF Pool, TaskRoles, ReceiveFinds
<1>2. QED BY <1>1, PoolHolds, PTL

-----------------------------------------------------------------------------
(* The DMA and the task, while no change of CTS is reported.               *)

LEMMA InitSound == Init => Sound
<1> SUFFICES ASSUME Init PROVE Sound
  OBVIOUS
<1>1. DmaRoles /\ Filled
  BY DEF Init, DmaRoles, DmaIsOff, Filled
<1>2. QED BY <1>1, InitPool DEF Sound

(* The turns of the roles: queue, interrupt on, channel on; the transfer   *)
(* ends, the interrupt switches all off; the task takes note.              *)
LEMMA NextRoles == ~CtsReported /\ Pool /\ DmaRoles /\ [Next]_vars => DmaRoles'
<1> SUFFICES ASSUME ~CtsReported, Pool, DmaRoles, [Next]_vars PROVE DmaRoles'
  OBVIOUS
<1> USE DEF DmaRoles, DmaIsOff
<1>1. pc \in {"check", "cts", "sleep", "receive", "dma", "isr", "enable", "await", "outcome"}
  BY DEF Pool, TypeOK
<1>2. hold # Nil <=> pc \in {"dma", "isr", "enable", "await", "outcome"}
  BY DEF Pool, TaskRoles
<1>3. ASSUME NEW s \in Senders, SenderStep(s) PROVE DmaRoles'
  BY <1>3 DEF SenderStep, TakeIdle, Queue, WakeUp, semVars, taskVars, dmaVars
<1>4. CASE Check \/ CheckCts \/ Sleep
  BY <1>4 DEF Check, CheckCts, Sleep, semVars, dmaVars
<1>5. CASE Receive
  BY <1>5 DEF Receive, dmaVars
<1>6. CASE QueueBuffer
  BY <1>6 DEF QueueBuffer, semVars
<1>7. CASE EnableIsr
  BY <1>7 DEF EnableIsr, semVars
<1>8. CASE Enable
  BY <1>8 DEF Enable, semVars
<1>9. CASE AwaitDone
  BY <1>9 DEF AwaitDone, dmaVars
<1>10. CASE Outcome
  BY <1>10 DEF Outcome, semVars, dmaVars
<1>11. CASE Transfer
  BY <1>1, <1>11 DEF Transfer, semVars, taskVars
<1>12. CASE TxMsgSent
  BY <1>1, <1>2, <1>12 DEF TxMsgSent, DmaOff, taskVars
<1>13. CASE CtsChange
  BY <1>13 DEF CtsChange, taskVars, dmaVars
<1>14. CASE UNCHANGED vars
  BY <1>14 DEF vars, semVars, taskVars, dmaVars
<1>15. QED
  BY <1>3, <1>4, <1>5, <1>6, <1>7, <1>8, <1>9, <1>10, <1>11, <1>12, <1>13, <1>14
  DEF Next, TxTask, SenderStep

(* A sender fills the buffer that it takes, and no other has it.           *)
LEMMA NextFilled == Pool /\ Filled /\ [Next]_vars => Filled'
<1> SUFFICES ASSUME Pool, Filled, [Next]_vars PROVE Filled'
  OBVIOUS
<1>1. /\ payload \in [Msgs -> Payloads \cup {Quiet}]
      /\ shold \in [Senders -> Msgs \cup {Nil}]
      /\ spc \in [Senders -> {"out", "queue", "wake"}]
  BY DEF Pool, TypeOK
<1>2. ASSUME NEW s \in Senders, NEW p \in Payloads, TakeIdle(s, p) PROVE Filled'
  <2> DEFINE m == Head(tx_idle)
  <2>1. m \in Msgs /\ m \in Free
    BY <1>2, ReceiveLemma DEF TakeIdle, Pool, TypeOK, Free
  <2>2. /\ payload' = [payload EXCEPT ![m] = p]
        /\ shold' = [shold EXCEPT ![s] = m] /\ spc' = [spc EXCEPT ![s] = "queue"]
    BY <1>2 DEF TakeIdle
  <2> HIDE DEF m
  <2>3. ASSUME NEW t \in Senders, spc'[t] = "queue" PROVE payload'[shold'[t]] \in Payloads
    <3>1. CASE t = s
      BY <1>1, <2>1, <2>2, <3>1
    <3>2. CASE t # s
      <4>1. spc[t] = "queue" /\ shold'[t] = shold[t]
        BY <1>1, <2>2, <2>3, <3>2
      <4>2. shold[t] \in Msgs /\ shold[t] # m /\ payload[shold[t]] \in Payloads
        BY <1>1, <2>1, <4>1 DEF Pool, SenderRoles, Apart, Filled
      <4>3. QED BY <1>1, <2>2, <4>1, <4>2
    <3>3. QED BY <3>1, <3>2
  <2>4. QED BY <2>3 DEF Filled
<1>3. ASSUME NEW s \in Senders, Queue(s) \/ WakeUp(s) PROVE Filled'
  <2>1. payload' = payload
        /\ \A t \in Senders : spc'[t] = "queue" => spc[t] = "queue" /\ shold'[t] = shold[t]
    BY <1>1, <1>3 DEF Queue, WakeUp, queueVars
  <2>2. QED BY <2>1 DEF Filled
<1>4. CASE TxTask \/ LineStep \/ UNCHANGED vars
  <2>1. UNCHANGED <<payload, spc, shold>>
    BY <1>4 DEF TxTask, Check, CheckCts, Sleep, Receive, QueueBuffer, EnableIsr, Enable,
                AwaitDone, Outcome, LineStep, Transfer, TxMsgSent, CtsChange, vars,
                queueVars, senderVars
  <2>2. QED BY <2>1 DEF Filled
<1>5. QED BY <1>2, <1>3, <1>4 DEF Next, LineStep

LEMMA SoundHolds == ~CtsReported => (Spec => []Sound)
<1>1. ~CtsReported /\ Sound /\ [Next]_vars => Sound'
  BY NextPool, NextRoles, NextFilled DEF Sound
<1>2. CASE CtsReported
  BY <1>2
<1>3. CASE ~CtsReported
  <2>1. Sound /\ [Next]_vars => Sound'
    BY <1>1, <1>3
  <2>2. QED BY <2>1, InitSound, PTL DEF Spec
<1>4. QED BY <1>2, <1>3

(* While no change of CTS is reported, the DMA reads only the message in   *)
(* the hands of __tx_task, so no sender overwrites what is going out: the  *)
(* wait for tx_done ends with the transfer (ibus-physical.c:297-302).      *)
THEOREM DmaOwnedByTask == ~CtsReported => (Spec => []DmaOwned)
<1>1. Sound => DmaOwned
  BY DEF Sound, Pool, TypeOK, DmaRoles, DmaIsOff, DmaOwned
<1>2. QED BY <1>1, SoundHolds, PTL

-----------------------------------------------------------------------------
(* The refinement of IbusLine.                                             *)

(* The messages that are not out yet, and what they carry.                 *)
Waiting == Unsent \o tx_pending
Contents == Carried(Waiting, payload)

(* Those messages are of the pool, in no idle queue and with no sender;    *)
(* the one of the task comes first.                                        *)
LEMMA WaitingLemma ==
  ASSUME Pool
  PROVE  /\ Waiting \in Seq(Msgs) /\ IsInjective(Waiting)
         /\ ToSet(Waiting) \subseteq Queued \cup ({hold} \ {Nil})
         /\ Unsent = <<>> => Waiting = tx_pending
         /\ Unsent # <<>> => /\ hold \in Msgs /\ Unsent = <<hold>> /\ Waiting # <<>>
                             /\ Head(Waiting) = hold /\ Tail(Waiting) = tx_pending
<1> USE DEF Pool, TypeOK
<1>1. CASE Unsent = <<>>
  <2>1. Waiting = tx_pending
    BY <1>1, ConcatEmptySeq DEF Waiting
  <2>2. QED BY <1>1, <2>1 DEF Apart, Queued
<1>2. CASE Unsent # <<>>
  <2>1. Unsent = <<hold>> /\ hold \in Msgs
    BY <1>2 DEF Unsent, TaskRoles
  <2>2. /\ <<hold>> \o tx_pending \in Seq(Msgs)
        /\ ToSet(<<hold>> \o tx_pending) = Queued \cup {hold}
        /\ IsInjective(<<hold>> \o tx_pending)
        /\ <<hold>> \o tx_pending # <<>> /\ Head(<<hold>> \o tx_pending) = hold
        /\ Tail(<<hold>> \o tx_pending) = tx_pending
    BY <2>1, PrependLemma DEF Apart, Queued
  <2>3. QED BY <1>2, <2>1, <2>2, PoolAssumption DEF Waiting
<1>3. QED BY <1>1, <1>2

(* The steps of the line in terms of the contents.                         *)
LEMMA LineSteps ==
  /\ UNCHANGED <<Contents, wire>> => [Line!Next]_(Line!vars)
  /\ \A p \in Payloads :
       /\ Len(Contents) < IBUS_PHYSICAL_TX_MSG_MAX
       /\ Contents' = Append(Contents, p)
       /\ wire' = wire
       => Line!Next
  /\ /\ Contents # <<>>
     /\ Contents' = Tail(Contents)
     /\ wire' = [payload |-> Head(Contents), parity |-> 1 - wire.parity]
     => Line!Next
<1>1. UNCHANGED <<Contents, wire>> => [Line!Next]_(Line!vars)
  BY DEF Contents, Carried, Waiting, Line!vars
<1>2. ASSUME NEW p \in Payloads, Len(Contents) < IBUS_PHYSICAL_TX_MSG_MAX,
             Contents' = Append(Contents, p), wire' = wire
      PROVE  Line!Next
  <2>1. Line!Submit(p)
    BY <1>2 DEF Contents, Carried, Waiting, Line!Submit
  <2>2. QED BY <2>1 DEF Line!Next
<1>3. ASSUME Contents # <<>>, Contents' = Tail(Contents),
             wire' = [payload |-> Head(Contents), parity |-> 1 - wire.parity]
      PROVE  Line!Next
  <2>1. Line!Transmit
    BY <1>3 DEF Contents, Carried, Waiting, Line!Transmit
  <2>2. QED BY <2>1 DEF Line!Next
<1>4. QED BY <1>1, <1>2, <1>3

(* What the contents become when the queue of waiting messages changes.    *)
LEMMA WaitingContents ==
  ASSUME Pool
  PROVE  /\ Contents \in Seq(Payloads \cup {Quiet}) /\ Len(Contents) = Len(Waiting)
         /\ UNCHANGED <<Waiting, payload>> => Contents' = Contents
         /\ \A e \in Msgs :
              Waiting' = Append(Waiting, e) /\ payload' = payload
                => Contents' = Append(Contents, payload[e])
         /\ Waiting # <<>> =>
              /\ Contents # <<>> /\ Head(Contents) = payload[Head(Waiting)]
              /\ Waiting' = Tail(Waiting) /\ payload' = payload => Contents' = Tail(Contents)
         /\ \A e \in Msgs, p \in Payloads :
              e \notin ToSet(Waiting) /\ Waiting' = Waiting /\ payload' = [payload EXCEPT ![e] = p]
                => Contents' = Contents
<1>1. /\ Waiting \in Seq(Msgs) /\ payload \in [Msgs -> Payloads \cup {Quiet}]
      /\ ToSet(Waiting) \subseteq Msgs
  BY WaitingLemma DEF Pool, TypeOK, ToSet
<1>2. Contents \in Seq(Payloads \cup {Quiet})
  BY <1>1, CarriedType DEF Contents
<1>3. ASSUME NEW e \in Msgs, NEW p \in Payloads, e \notin ToSet(Waiting), Waiting' = Waiting,
             payload' = [payload EXCEPT ![e] = p]
      PROVE  Contents' = Contents
  <2>1. \A x \in ToSet(Waiting) : payload'[x] = payload[x]
    BY <1>1, <1>3
  <2>2. QED BY <1>1, <1>3, <2>1, CarriedLemma, ZenonT(30) DEF Contents
<1>4. /\ Len(Contents) = Len(Waiting)
      /\ \A e \in Msgs : Carried(Append(Waiting, e), payload) = Append(Contents, payload[e])
      /\ Waiting # <<>> => /\ Contents # <<>> /\ Head(Contents) = payload[Head(Waiting)]
                           /\ Carried(Tail(Waiting), payload) = Tail(Contents)
  BY <1>1, CarriedLemma DEF Contents
<1>5. Contents' = Carried(Waiting', payload')
  BY DEF Contents
<1>6. QED
  <2>1. UNCHANGED <<Waiting, payload>> => Contents' = Contents
    BY DEF Contents
  <2>2. QED BY <1>2, <1>3, <1>4, <1>5, <2>1

LEMMA LineInit == Init => Line!Init
<1> SUFFICES ASSUME Init PROVE Line!Init
  OBVIOUS
<1>1. Waiting = <<>>
  BY InitPool, WaitingLemma DEF Init, Unsent
<1>2. Len(Contents) = 0 /\ Contents \in Seq(Payloads \cup {Quiet})
  BY <1>1, InitPool, WaitingContents
<1>3. Contents = <<>>
  BY <1>2, EmptySeq
<1>4. QED BY <1>3 DEF Init, Line!Init, Contents, Carried, Waiting

(* A send hands a payload over; what it does before and after does not.    *)
LEMMA SenderRefines ==
  ASSUME Sound, NEW s \in Senders, SenderStep(s)
  PROVE  [Line!Next]_(Line!vars)
<1> USE DEF Sound
<1>1. wire' = wire /\ UNCHANGED <<pc, hold, mar>>
  BY DEF SenderStep, TakeIdle, Queue, WakeUp, taskVars, dmaVars
<1>2. Unsent' = Unsent
  BY <1>1 DEF Unsent
<1>3. ASSUME NEW p \in Payloads, TakeIdle(s, p) PROVE [Line!Next]_(Line!vars)
  <2>1. Head(tx_idle) \in Msgs /\ Head(tx_idle) \in Free
    BY <1>3, ReceiveLemma DEF TakeIdle, Pool, TypeOK, Free
  <2>2. Head(tx_idle) \notin ToSet(Waiting)
    BY <2>1, WaitingLemma DEF Pool, Apart
  <2>3. Waiting' = Waiting /\ payload' = [payload EXCEPT ![Head(tx_idle)] = p]
    BY <1>2, <1>3 DEF TakeIdle, Waiting
  <2>4. Contents' = Contents
    BY <2>1, <2>2, <2>3, WaitingContents
  <2>5. QED BY <1>1, <2>4, LineSteps
<1>4. CASE Queue(s)
  <2> DEFINE m == shold[s]
  <2>1. m \in Msgs /\ m \notin Queued \cup {hold} /\ payload[m] \in Payloads
    BY <1>4 DEF Queue, Pool, SenderRoles, Apart, Filled, TypeOK
  <2>2. tx_pending' = Append(tx_pending, m) /\ payload' = payload
    BY <1>4 DEF Queue
  <2> HIDE DEF m
  <2>3. Waiting' = Append(Waiting, m)
    <3>1. Unsent \in Seq(Msgs) /\ tx_pending \in Seq(Msgs) /\ <<m>> \in Seq(Msgs)
      <4>1. Unsent = <<>> \/ (hold \in Msgs /\ Unsent = <<hold>>)
        BY WaitingLemma
      <4>2. <<>> \in Seq(Msgs) /\ (hold \in Msgs => <<hold>> \in Seq(Msgs))
        OBVIOUS
      <4>21. Unsent \in Seq(Msgs)
        BY <4>1, <4>2, Zenon
      <4>3. QED BY <4>21, <2>1 DEF Pool, TypeOK
    <3>2. Waiting' = Unsent \o (tx_pending \o <<m>>)
      BY <1>2, <2>1, <2>2, <3>1, AppendIsConcat DEF Waiting
    <3>3. @ = Waiting \o <<m>>
      BY <3>1, ConcatAssociative DEF Waiting
    <3>4. @ = Append(Waiting, m)
      BY <2>1, WaitingLemma, AppendIsConcat
    <3>5. QED BY <3>2, <3>3, <3>4
  <2>4. Len(Contents) < IBUS_PHYSICAL_TX_MSG_MAX
    <3>1. m \notin ToSet(Waiting)
      BY <2>1, WaitingLemma
    <3>2. QED BY <2>1, <3>1, WaitingLemma, WaitingContents, RoomLemma, PoolAssumption
             DEF IBUS_PHYSICAL_TX_MSG_MAX
  <2>5. Contents' = Append(Contents, payload[m])
    BY <2>1, <2>2, <2>3, WaitingContents
  <2>6. Line!Next
    BY <1>1, <2>1, <2>4, <2>5, LineSteps
  <2>7. QED BY <2>6
<1>5. CASE WakeUp(s)
  <2>1. Waiting' = Waiting /\ payload' = payload
    BY <1>2, <1>5 DEF WakeUp, queueVars, Waiting
  <2>2. QED BY <1>1, <2>1, LineSteps, WaitingContents
<1>6. QED BY <1>3, <1>4, <1>5 DEF SenderStep

(* The task has the head of the queue in its hands while it sends, and     *)
(* lets it go once it is out.                                              *)
LEMMA TaskRefines == Sound /\ TxTask => [Line!Next]_(Line!vars)
<1> SUFFICES ASSUME Sound, TxTask PROVE [Line!Next]_(Line!vars)
  OBVIOUS
<1> USE DEF Sound
<1>1. UNCHANGED <<wire, payload>>
  BY DEF TxTask, Check, CheckCts, Sleep, Receive, QueueBuffer, EnableIsr, Enable, AwaitDone,
         Outcome, queueVars
<1>2. hold \in Msgs \cup {Nil} /\ (hold # Nil <=> pc \in {"dma", "isr", "enable", "await", "outcome"})
  BY DEF Pool, TypeOK, TaskRoles
<1>3. Waiting' = Waiting
  <2>1. CASE Receive
    <3>1. Unsent = <<>> /\ Unsent' = <<Head(tx_pending)>> /\ tx_pending' = Tail(tx_pending)
      BY <2>1 DEF Receive, Unsent
    <3>2. tx_pending # <<>> /\ tx_pending \in Seq(Msgs)
      BY <2>1 DEF Receive, Pool, TypeOK
    <3>3. tx_pending = <<Head(tx_pending)>> \o Tail(tx_pending)
      <4>1. Head(tx_pending) \in Msgs /\ Tail(tx_pending) \in Seq(Msgs)
        BY <3>2, HeadTailProperties
      <4>2. <<Head(tx_pending)>> \o Tail(tx_pending) \in Seq(Msgs)
        BY <4>1, PrependLemma
      <4>3. /\ Len(<<Head(tx_pending)>> \o Tail(tx_pending)) = Len(tx_pending)
            /\ \A k \in 1 .. Len(tx_pending) :
                 (<<Head(tx_pending)>> \o Tail(tx_pending))[k] = tx_pending[k]
        BY <3>2
      <4>4. QED BY <3>2, <4>2, <4>3, SeqEqual
    <3>4. QED BY <3>1, <3>3, WaitingLemma DEF Waiting
  <2>2. CASE ~Receive
    <3>1. tx_pending' = tx_pending
      <4>1. CASE Outcome
        BY <4>1 DEF Outcome, DmaRoles
      <4>2. CASE ~Outcome
        BY <2>2, <4>2 DEF TxTask, Check, CheckCts, Sleep, QueueBuffer, EnableIsr, Enable,
                          AwaitDone, queueVars
      <4>3. QED BY <4>1, <4>2
    <3>2. Unsent' = Unsent
      <4>1. CASE Check \/ CheckCts \/ Sleep
        BY <4>1 DEF Check, CheckCts, Sleep, Unsent
      <4>2. CASE QueueBuffer \/ EnableIsr
        BY <4>2 DEF QueueBuffer, EnableIsr, Unsent
      <4>3. CASE Enable
        BY <1>2, <4>3 DEF Enable, Unsent, DmaRoles
      <4>4. CASE AwaitDone \/ Outcome
        BY <4>4 DEF AwaitDone, Outcome, Unsent, DmaRoles, DmaIsOff
      <4>5. QED BY <2>2, <4>1, <4>2, <4>3, <4>4 DEF TxTask
    <3>3. QED BY <3>1, <3>2 DEF Waiting
  <2>3. QED BY <2>1, <2>2
<1>4. QED BY <1>1, <1>3, WaitingContents, LineSteps

(* The message goes out with the transfer; the interrupt and the line only *)
(* say so.                                                                 *)
LEMMA LineRefines == ~CtsReported /\ Sound /\ LineStep => [Line!Next]_(Line!vars)
<1> SUFFICES ASSUME ~CtsReported, Sound, LineStep PROVE [Line!Next]_(Line!vars)
  OBVIOUS
<1> USE DEF Sound
<1>1. UNCHANGED <<tx_pending, payload, pc, hold>>
  BY DEF LineStep, Transfer, TxMsgSent, CtsChange, queueVars, taskVars
<1>2. hold \in Msgs \cup {Nil} /\ (hold # Nil <=> pc \in {"dma", "isr", "enable", "await", "outcome"})
      /\ pc \in {"check", "cts", "sleep", "receive", "dma", "isr", "enable", "await", "outcome"}
  BY DEF Pool, TypeOK, TaskRoles
<1>3. CASE Transfer
  <2>1. pc = "await" /\ mar = hold /\ mar # Nil /\ mar' = Nil
    BY <1>2, <1>3 DEF Transfer, DmaRoles, DmaIsOff
  <2>2. Unsent # <<>> /\ Unsent' = <<>>
    BY <1>1, <2>1 DEF Unsent
  <2>3. Waiting # <<>> /\ Head(Waiting) = mar /\ Tail(Waiting) = tx_pending
    BY <2>1, <2>2, WaitingLemma
  <2>4. tx_pending \in Seq(Msgs)
    BY DEF Pool, TypeOK
  <2>5. Waiting' = Tail(Waiting)
    BY <1>1, <2>2, <2>3, <2>4, ConcatEmptySeq DEF Waiting
  <2>6. /\ Contents # <<>> /\ Head(Contents) = payload[mar]
        /\ Contents' = Tail(Contents)
    BY <1>1, <2>3, <2>5, WaitingContents
  <2>7. wire' = [payload |-> Head(Contents), parity |-> 1 - wire.parity]
    BY <1>3, <2>6 DEF Transfer
  <2>8. Line!Next
    BY <2>6, <2>7, LineSteps
  <2>9. QED BY <2>8
<1>4. CASE TxMsgSent \/ CtsChange
  <2>1. wire' = wire
    BY <1>4 DEF TxMsgSent, CtsChange
  <2>2. Unsent' = Unsent
    BY <1>1, <1>2, <1>4 DEF TxMsgSent, CtsChange, DmaOff, DmaRoles, DmaIsOff, Unsent, dmaVars
  <2>3. Waiting' = Waiting
    BY <1>1, <2>2 DEF Waiting
  <2>4. QED BY <1>1, <2>1, <2>3, WaitingContents, LineSteps
<1>5. QED BY <1>3, <1>4 DEF LineStep

(* While no change of CTS is reported, the library keeps its promise for   *)
(* any pool, senders and payloads: what a task hands over goes out whole,  *)
(* once and in the order of the calls (ibus-physical.h:145-153).            *)
THEOREM LineImplemented == ~CtsReported => (Spec => ImplementsLine)
<1>1. ~CtsReported /\ Sound /\ [Next]_vars => [Line!Next]_(Line!vars)
  <2> SUFFICES ASSUME ~CtsReported, Sound, [Next]_vars PROVE [Line!Next]_(Line!vars)
    OBVIOUS
  <2>1. CASE UNCHANGED vars
    <3>1. UNCHANGED <<Waiting, payload, wire>>
      BY <2>1 DEF vars, queueVars, taskVars, dmaVars, Waiting, Unsent
    <3>2. QED BY <3>1, WaitingContents, LineSteps DEF Sound
  <2>2. QED BY <2>1, SenderRefines, TaskRefines, LineRefines DEF Next, SenderStep, LineStep
<1>2. CASE ~CtsReported
  <2>1. Sound /\ [Next]_vars => [Line!Next]_(Line!vars)
    BY <1>1, <1>2
  <2>2. Spec => []Sound
    BY <1>2, SoundHolds
  <2>3. QED BY <2>1, <2>2, LineInit, PTL DEF Spec, ImplementsLine, Line!Spec
<1>3. CASE CtsReported
  BY <1>3
<1>4. QED BY <1>2, <1>3

-----------------------------------------------------------------------------
(* What WakeUpDrains rests on.                                             *)

(* A task that sleeps while a message waits has been woken, or the sender  *)
(* of one is about to wake it.                                             *)
NoneForgotten ==
  tx_pending # <<>> /\ pc = "sleep" => wake_up \/ \E s \in Senders : spc[s] = "wake"

LEMMA StillRemembered ==
  ASSUME TypeOK, NoneForgotten, cts, [Next]_vars
  PROVE  NoneForgotten'
<1>1. spc \in [Senders -> {"out", "queue", "wake"}]
  BY DEF TypeOK
<1>2. ASSUME NEW s \in Senders, SenderStep(s) PROVE NoneForgotten'
  <2>1. pc' = pc
    BY <1>2 DEF SenderStep, TakeIdle, Queue, WakeUp, taskVars
  <2>2. CASE \E p \in Payloads : TakeIdle(s, p)
    <3>1. /\ spc[s] = "out" /\ UNCHANGED <<tx_pending, wake_up>>
          /\ spc' = [spc EXCEPT ![s] = "queue"]
      BY <2>2 DEF TakeIdle, semVars
    <3>2. \A t \in Senders : spc[t] = "wake" => spc'[t] = "wake"
      BY <1>1, <3>1
    <3>3. QED BY <2>1, <3>1, <3>2 DEF NoneForgotten
  <2>3. CASE Queue(s)
    <3>1. spc'[s] = "wake"
      BY <1>1, <2>3 DEF Queue
    <3>2. QED BY <3>1 DEF NoneForgotten
  <2>4. CASE WakeUp(s)
    BY <2>4 DEF WakeUp, NoneForgotten
  <2>5. QED BY <1>2, <2>2, <2>3, <2>4 DEF SenderStep
<1>3. CASE Check
  BY <1>3 DEF Check, Work, queueVars, NoneForgotten
<1>4. CASE CheckCts
  BY <1>4 DEF CheckCts, NoneForgotten
<1>5. CASE Sleep \/ Receive \/ QueueBuffer \/ EnableIsr \/ Enable \/ AwaitDone \/ Outcome
  <2>1. pc' # "sleep"
    BY <1>5 DEF Sleep, Receive, QueueBuffer, EnableIsr, Enable, AwaitDone, Outcome
  <2>2. QED BY <2>1 DEF NoneForgotten
<1>6. CASE LineStep \/ UNCHANGED vars
  BY <1>6 DEF LineStep, Transfer, TxMsgSent, CtsChange, vars, queueVars, semVars, senderVars,
              taskVars, NoneForgotten
<1>7. QED BY <1>2, <1>3, <1>4, <1>5, <1>6 DEF Next, TxTask, SenderStep, LineStep

(* The look at the queue and the sleep are two steps, and so are the send  *)
(* and the wake-up, but no wake-up falls between them: from any moment at  *)
(* which no waiting message is forgotten, none is as long as the line      *)
(* stays clear (ibus-physical.c:217-236, 281-289).  What may be forgotten  *)
(* is a message that found the line not clear.                             *)
THEOREM WakeUpsAreKept == Spec => [](NoneForgotten /\ []cts => []NoneForgotten)
<1>1. Pool /\ NoneForgotten /\ cts /\ [Next]_vars => NoneForgotten'
  BY StillRemembered DEF Pool
<1>2. QED BY <1>1, PoolHolds, PTL DEF Spec

(* Who can take a step: the task, a sender that is about to wake it, the   *)
(* DMA or its interrupt.                                                   *)
CanGoOn ==
  \/ pc \in {"check", "cts", "dma", "isr", "enable"}
  \/ pc = "receive" /\ tx_pending # <<>>
  \/ pc = "sleep" /\ (wake_up \/ \E s \in Senders : spc[s] = "wake")
  \/ pc = "await" /\ tx_done
  \/ pc = "outcome" /\ successfully_sent /\ Len(tx_idle) < IBUS_PHYSICAL_TX_MSG_MAX
  \/ ten /\ mar # Nil /\ cts
  \/ isr /\ mar = Nil /\ marr = Nil

(* While the line is clear and no change of it is reported, a message that *)
(* waits and is not forgotten never finds everyone waiting.                *)
THEOREM MessagesGoOn ==
  ~CtsReported => (Spec => [](tx_pending # <<>> /\ NoneForgotten /\ cts => CanGoOn))
<1>1. ASSUME Sound, tx_pending # <<>>, NoneForgotten, cts PROVE CanGoOn
  <2>1. /\ pc \in {"check", "cts", "sleep", "receive", "dma", "isr", "enable", "await", "outcome"}
        /\ tx_idle \in Seq(Msgs) /\ IsInjective(tx_idle)
    BY <1>1 DEF Sound, Pool, TypeOK, Apart
  <2>2. CASE pc = "sleep"
    BY <1>1, <2>2 DEF NoneForgotten, CanGoOn
  <2>3. CASE pc = "await"
    BY <1>1, <2>3 DEF Sound, DmaRoles, CanGoOn
  <2>4. CASE pc = "outcome"
    <3>1. hold \in Msgs /\ hold \notin ToSet(tx_idle) /\ successfully_sent
      BY <1>1, <2>4 DEF Sound, Pool, TypeOK, TaskRoles, Apart, Free, DmaRoles
    <3>2. Len(tx_idle) < Cardinality(Msgs)
      BY <2>1, <3>1, RoomLemma, PoolAssumption
    <3>3. QED BY <2>4, <3>1, <3>2 DEF CanGoOn, IBUS_PHYSICAL_TX_MSG_MAX
  <2>5. CASE pc \in {"check", "cts", "dma", "isr", "enable", "receive"}
    BY <1>1, <2>5 DEF CanGoOn
  <2>6. QED BY <2>1, <2>2, <2>3, <2>4, <2>5
<1>2. QED BY <1>1, SoundHolds, PTL

(* How far the task is from receiving its next message.                    *)
TaskAhead ==
  CASE pc = "dma" -> 10
    [] pc = "isr" -> 9
    [] pc = "enable" -> 8
    [] pc = "await" -> IF tx_done THEN 5 ELSE IF mar = Nil THEN 6 ELSE 7
    [] pc \in {"outcome", "sleep"} -> 4
    [] pc = "check" -> 3
    [] pc = "cts" -> 2
    [] pc = "receive" -> 1

(* The steps before the message at place k is received.                    *)
StepsBefore(k) == 10 * k + TaskAhead
Places == Moves(tx_pending, tx_pending')

LEMMA AheadIs ==
  /\ pc = "dma" => TaskAhead = 10
  /\ pc = "isr" => TaskAhead = 9
  /\ pc = "enable" => TaskAhead = 8
  /\ pc = "await" /\ ~tx_done /\ mar # Nil => TaskAhead = 7
  /\ pc = "await" /\ ~tx_done /\ mar = Nil => TaskAhead = 6
  /\ pc = "await" /\ tx_done => TaskAhead = 5
  /\ pc \in {"outcome", "sleep"} => TaskAhead = 4
  /\ pc = "check" => TaskAhead = 3
  /\ pc = "cts" => TaskAhead = 2
  /\ pc = "receive" => TaskAhead = 1
BY DEF TaskAhead

LEMMA AheadNow ==
  /\ pc' = "dma" => TaskAhead' = 10
  /\ pc' = "isr" => TaskAhead' = 9
  /\ pc' = "enable" => TaskAhead' = 8
  /\ pc' = "await" /\ ~tx_done' /\ mar' # Nil => TaskAhead' = 7
  /\ pc' = "await" /\ ~tx_done' /\ mar' = Nil => TaskAhead' = 6
  /\ pc' = "await" /\ tx_done' => TaskAhead' = 5
  /\ pc' \in {"outcome", "sleep"} => TaskAhead' = 4
  /\ pc' = "check" => TaskAhead' = 3
  /\ pc' = "cts" => TaskAhead' = 2
  /\ pc' = "receive" => TaskAhead' = 1
BY DEF TaskAhead

LEMMA AheadIsNat ==
  ASSUME TypeOK
  PROVE  TaskAhead \in Nat
<1>1. /\ pc \in {"check", "cts", "sleep", "receive", "dma", "isr", "enable", "await", "outcome"}
      /\ tx_done \in BOOLEAN
  BY DEF TypeOK
<1>2. QED BY <1>1, AheadIs

(* A sender, the line and a wake-up do not move the task or the messages.  *)
LEMMA OthersKeepPlaces ==
  ASSUME ~CtsReported, Pool, NEW p \in Places,
         CtsChange \/ \E s \in Senders : SenderStep(s)
  PROVE  StepsBefore(p[2])' <= StepsBefore(p[1])
<1>1. UNCHANGED <<pc, tx_done, mar>>
  BY DEF SenderStep, TakeIdle, Queue, WakeUp, CtsChange, semVars, taskVars, dmaVars
<1>2. p[1] \in Nat /\ p[2] = p[1]
  <2>1. tx_pending \in Seq(Msgs) /\ IsInjective(tx_pending)
    BY DEF Pool, TypeOK, Apart
  <2>2. CASE UNCHANGED tx_pending
    <3>1. p \in Moves(tx_pending, tx_pending)
      BY <2>2 DEF Places
    <3>2. QED BY <2>1, <3>1, MovesLemma
  <2>3. ASSUME NEW s \in Senders, Queue(s) PROVE p[1] \in Nat /\ p[2] = p[1]
    <3>1. shold[s] \in Msgs /\ shold[s] \notin ToSet(tx_pending)
      BY <2>3 DEF Pool, TypeOK, SenderRoles, Apart, Queued, Queue
    <3>2. p \in Moves(tx_pending, Append(tx_pending, shold[s]))
      BY <2>3 DEF Places, Queue
    <3>3. QED BY <2>1, <3>1, <3>2, MovesLemma
  <2>4. QED BY <2>2, <2>3 DEF SenderStep, TakeIdle, WakeUp, CtsChange, queueVars
<1>3. PICK a : a = TaskAhead /\ a = TaskAhead'
  BY <1>1 DEF TaskAhead
<1>4. a \in Nat
  BY <1>3, AheadIsNat DEF Pool
<1>5. QED BY <1>2, <1>3, <1>4 DEF StepsBefore

(* The task, the DMA and its interrupt bring each message nearer.          *)
LEMMA TaskNearsPlaces ==
  ASSUME Sound, Sound', cts, NEW p \in Places, TxTask \/ Transfer \/ TxMsgSent
  PROVE  StepsBefore(p[2])' < StepsBefore(p[1])
<1>1. /\ tx_pending \in Seq(Msgs) /\ IsInjective(tx_pending) /\ DmaRoles /\ TaskRoles
      /\ pc \in {"check", "cts", "sleep", "receive", "dma", "isr", "enable", "await", "outcome"}
      /\ {hold, mar, marr} \subseteq Msgs \cup {Nil} /\ {tx_done, tx_done'} \subseteq BOOLEAN
  BY DEF Sound, Pool, TypeOK, Apart
<1>2. PICK a \in Nat : a = TaskAhead
  BY AheadIsNat DEF Sound, Pool
<1>3. ASSUME UNCHANGED tx_pending, TaskAhead' \in Nat, TaskAhead' < a
      PROVE  StepsBefore(p[2])' < StepsBefore(p[1])
  <2>1. p \in Moves(tx_pending, tx_pending)
    BY <1>3 DEF Places
  <2>2. p[1] \in Nat /\ p[2] = p[1]
    BY <1>1, <2>1, MovesLemma
  <2>3. QED BY <1>2, <1>3, <2>2 DEF StepsBefore
<1>4. tx_pending # <<>>
  <2>1. DOMAIN tx_pending # {}
    BY DEF Places, Moves
  <2>2. QED BY <1>1, <2>1
<1>5. CASE Check
  <2>1. pc = "check" /\ pc' = "cts" /\ UNCHANGED tx_pending
    BY <1>4, <1>5 DEF Check, Work, queueVars
  <2>2. QED BY <1>2, <1>3, <2>1, AheadIs, AheadNow
<1>6. CASE CheckCts
  <2>1. pc = "cts" /\ pc' = "receive" /\ UNCHANGED tx_pending
    BY <1>6 DEF CheckCts, queueVars
  <2>2. QED BY <1>2, <1>3, <2>1, AheadIs, AheadNow
<1>7. CASE Sleep
  <2>1. pc = "sleep" /\ pc' = "check" /\ UNCHANGED tx_pending
    BY <1>7 DEF Sleep, queueVars
  <2>2. QED BY <1>2, <1>3, <2>1, AheadIs, AheadNow
<1>8. CASE Receive
  <2>1. pc = "receive" /\ pc' = "dma" /\ tx_pending' = Tail(tx_pending)
    BY <1>8 DEF Receive
  <2>2. p \in Moves(tx_pending, Tail(tx_pending))
    BY <2>1 DEF Places
  <2>3. p[1] \in Nat /\ p[2] = p[1] - 1
    BY <1>1, <1>4, <2>2, MovesLemma
  <2>4. TaskAhead = 1 /\ TaskAhead' = 10
    BY <2>1, AheadIs, AheadNow
  <2>5. StepsBefore(p[1]) = 10 * p[1] + 1 /\ StepsBefore(p[2])' = 10 * (p[1] - 1) + 10
    BY <2>3, <2>4 DEF StepsBefore
  <2>6. QED BY <2>3, <2>5
<1>9. CASE QueueBuffer \/ EnableIsr
  <2>1. /\ UNCHANGED tx_pending
        /\ \/ pc = "dma" /\ pc' = "isr"
           \/ pc = "isr" /\ pc' = "enable"
    BY <1>9 DEF QueueBuffer, EnableIsr, queueVars
  <2>2. QED BY <1>2, <1>3, <2>1, AheadIs, AheadNow
<1>10. CASE Enable
  <2>1. pc = "enable" /\ pc' = "await" /\ UNCHANGED <<tx_pending, tx_done, mar>>
    BY <1>10 DEF Enable, queueVars, semVars
  <2>2. ~tx_done' /\ mar' # Nil
    BY <1>1, <2>1 DEF DmaRoles, TaskRoles
  <2>3. QED BY <1>2, <1>3, <2>1, <2>2, AheadIs, AheadNow
<1>11. CASE AwaitDone
  <2>1. pc = "await" /\ tx_done /\ pc' = "outcome" /\ UNCHANGED tx_pending
    BY <1>11 DEF AwaitDone, queueVars
  <2>2. QED BY <1>2, <1>3, <2>1, AheadIs, AheadNow
<1>12. CASE Outcome
  <2>1. pc = "outcome" /\ pc' = "check" /\ UNCHANGED tx_pending
    BY <1>1, <1>12 DEF Outcome, DmaRoles
  <2>2. QED BY <1>2, <1>3, <2>1, AheadIs, AheadNow
<1>13. CASE Transfer
  <2>1. /\ pc = "await" /\ ~tx_done /\ mar # Nil /\ mar' = Nil
        /\ UNCHANGED <<pc, tx_done, tx_pending>>
    BY <1>1, <1>13 DEF Transfer, DmaRoles, DmaIsOff, semVars, taskVars, queueVars
  <2>2. QED BY <1>2, <1>3, <2>1, AheadIs, AheadNow
<1>14. CASE TxMsgSent
  <2>1. /\ pc = "await" /\ ~tx_done /\ mar = Nil /\ tx_done' /\ UNCHANGED <<pc, tx_pending>>
    BY <1>1, <1>14 DEF TxMsgSent, DmaRoles, DmaIsOff, TaskRoles, taskVars, queueVars
  <2>2. QED BY <1>2, <1>3, <2>1, AheadIs, AheadNow
<1>15. QED BY <1>5, <1>6, <1>7, <1>8, <1>9, <1>10, <1>11, <1>12, <1>13, <1>14 DEF TxTask

(* While the line is clear and no change of it is reported, a message that *)
(* waits is received after at most StepsBefore steps of the task, the DMA  *)
(* and its interrupt; no sender overtakes it or takes it further away.     *)
THEOREM MessagesGetNearer ==
  ~CtsReported =>
    (Spec => [][cts => \A p \in Places :
                  IF TxTask \/ Transfer \/ TxMsgSent
                    THEN StepsBefore(p[2])' < StepsBefore(p[1])
                    ELSE StepsBefore(p[2])' <= StepsBefore(p[1])]_vars)
<1>1. ASSUME ~CtsReported, Sound, Sound', Next, cts, NEW p \in Places
      PROVE  IF TxTask \/ Transfer \/ TxMsgSent THEN StepsBefore(p[2])' < StepsBefore(p[1])
                                                ELSE StepsBefore(p[2])' <= StepsBefore(p[1])
  <2>1. CASE TxTask \/ Transfer \/ TxMsgSent
    BY <1>1, <2>1, TaskNearsPlaces
  <2>2. CASE ~(TxTask \/ Transfer \/ TxMsgSent)
    <3>1. CtsChange \/ \E s \in Senders : SenderStep(s)
      BY <1>1, <2>2 DEF Next, SenderStep
    <3>2. QED BY <1>1, <2>2, <3>1, OthersKeepPlaces DEF Sound
  <2>3. QED BY <2>1, <2>2
<1>2. CASE CtsReported
  BY <1>2
<1>3. CASE ~CtsReported
  <2>1. Sound /\ Sound' /\ [Next]_vars =>
          [cts => \A p \in Places : IF TxTask \/ Transfer \/ TxMsgSent
                                    THEN StepsBefore(p[2])' < StepsBefore(p[1])
                                    ELSE StepsBefore(p[2])' <= StepsBefore(p[1])]_vars
    BY <1>1, <1>3
  <2>2. Spec => []Sound
    BY <1>3, SoundHolds
  <2>3. QED BY <2>1, <2>2, PTL DEF Spec
<1>4. QED BY <1>2, <1>3

-----------------------------------------------------------------------------
(* The receiving half: it has no variable in common with the sending half. *)


(* The pool of the receiving half.                                         *)
RxQueues ==
  /\ IsInjective(rx_idle) /\ IsInjective(rx_pending)
  /\ ToSet(rx_idle) \cap ToSet(rx_pending) = {}
  /\ reading \notin ToSet(rx_idle) \cup ToSet(rx_pending)
  /\ \A m \in RxMsgs : m \in ToSet(rx_idle) \cup ToSet(rx_pending) \cup {reading}

Statuses == {"OK", "PARITY_ERROR", "BUFFER_OVERRUN_ERROR"}
Frame == [status : Statuses, top : BOOLEAN, size : Nat, data : Seq(Nat), arrived : Nat,
          garbled : BOOLEAN]

(* What the buffer keeps of n bytes.                                       *)
Kept(n) == IF n <= IBUS_MAX_MESSAGE_SIZE THEN n ELSE IBUS_MAX_MESSAGE_SIZE
UpTo(n) == [k \in 1 .. n |-> k]

(* What a status, but for its most significant byte, says of a frame f.    *)
Honest(f) ==
  /\ f.size <= f.arrived
  /\ f.status = "OK" => /\ f.size = f.arrived /\ f.arrived <= IBUS_MAX_MESSAGE_SIZE + 1
                        /\ f.data = UpTo(Kept(f.arrived))
  /\ ~f.garbled /\ f.arrived <= IBUS_MAX_MESSAGE_SIZE => f.status = "OK"

(* Queued behind m is the message before m in memory, with the frame that  *)
(* was one byte too long.                                                  *)
Follows(m) ==
  /\ msg[m - 1].size = IBUS_MAX_MESSAGE_SIZE + 1
  /\ \/ m = reading /\ m - 1 \in ToSet(rx_pending)
     \/ \E a, b \in DOMAIN rx_pending : a < b /\ rx_pending[a] = m /\ rx_pending[b] = m - 1

(* Only then is something written into the status of a message whose own   *)
(* frame fits.                                                             *)
Behind ==
  \A m \in RxMsgs : msg[m].top /\ msg[m].size <= IBUS_MAX_MESSAGE_SIZE =>
    m \in ToSet(rx_idle) \/ Follows(m)

RxTypes ==
  /\ rx_idle \in Seq(RxMsgs) /\ rx_pending \in Seq(RxMsgs) /\ reading \in RxMsgs \cup {NoMsg}
  /\ msg \in [RxMsgs -> Frame] /\ Received \in Frame
  /\ i \in 0 .. IBUS_MAX_MESSAGE_SIZE + 1 /\ Len(buffer) = Kept(i)
  /\ arrived \in 0 .. FrameMax /\ sane \in BOOLEAN

RxInv ==
  /\ RxTypes /\ RxQueues
  /\ Honest(Received) /\ (top => OneTooMany)
  /\ \A m \in RxMsgs : Honest(msg[m])
  /\ Behind

(* Counting up to the next number.                                         *)
LEMMA CountLemma ==
  ASSUME NEW n \in Nat
  PROVE  Append([k \in 1 .. n |-> k], n + 1) = [k \in 1 .. (n + 1) |-> k]
<1>1. /\ [k \in 1 .. n |-> k] \in Seq(Nat) /\ Len([k \in 1 .. n |-> k]) = n
      /\ [k \in 1 .. (n + 1) |-> k] \in Seq(Nat) /\ Len([k \in 1 .. (n + 1) |-> k]) = n + 1
  OBVIOUS
<1>2. PICK s \in Seq(Nat) : s = [k \in 1 .. n |-> k] /\ Len(s) = n /\ \A k \in 1 .. n : s[k] = k
  BY <1>1
<1>3. PICK t \in Seq(Nat) : /\ t = [k \in 1 .. (n + 1) |-> k] /\ Len(t) = n + 1
                            /\ \A k \in 1 .. (n + 1) : t[k] = k
  BY <1>1
<1>4. /\ Append(s, n + 1) \in Seq(Nat) /\ Len(Append(s, n + 1)) = n + 1
      /\ \A k \in 1 .. (n + 1) : Append(s, n + 1)[k] = k
  BY <1>2
<1>5. Append(s, n + 1) = t
  BY <1>3, <1>4, SeqEqual
<1>6. QED BY <1>2, <1>3, <1>5

(* Init establishes the invariant.                                         *)
LEMMA RxInitInv ==
  ASSUME RxInit
  PROVE  RxInv
<1>1. /\ rx_idle = [m \in RxMsgs |-> m] /\ rx_pending = <<>> /\ reading = NoMsg
      /\ msg = [m \in RxMsgs |-> Empty] /\ sane = TRUE
      /\ i = 0 /\ status = "OK" /\ top = FALSE /\ buffer = <<>> /\ arrived = 0 /\ garbled = FALSE
  BY DEF RxInit
<1>2. /\ rx_idle \in Seq(RxMsgs) /\ IsInjective(rx_idle) /\ ToSet(rx_idle) = RxMsgs
  <2>1. PICK n \in Nat : n = IBUS_PHYSICAL_RX_MSG_MAX /\ RxMsgs = 1 .. n
    BY RxPoolAssumption DEF RxMsgs
  <2>2. rx_idle = [m \in 1 .. n |-> m]
    BY <1>1, <2>1
  <2>3. rx_idle \in Seq(1 .. n) /\ DOMAIN rx_idle = 1 .. n /\ \A m \in 1 .. n : rx_idle[m] = m
    BY <2>2
  <2>4. QED BY <2>1, <2>3 DEF IsInjective, ToSet
<1>3. ToSet(<<>>) = {} /\ IsInjective(<<>>) /\ <<>> \in Seq(RxMsgs)
  BY DEF ToSet, IsInjective
<1>4. RxQueues
  BY <1>1, <1>2, <1>3, RxPoolAssumption DEF RxQueues
<1>5. <<>> = UpTo(0) /\ <<>> \in Seq(Nat) /\ Len(<<>>) = 0 /\ Kept(0) = 0
  BY SizeAssumption DEF UpTo, Kept
<1>6. PICK e : e = Empty
  OBVIOUS
<1>7. e \in Frame /\ Honest(e) /\ e.top = FALSE
  BY <1>5, <1>6, SizeAssumption DEF Empty, Frame, Statuses, Honest
<1>8. Received = e
  BY <1>1, <1>6 DEF Received, Empty
<1>9. msg \in [RxMsgs -> Frame] /\ \A m \in RxMsgs : msg[m] = e
  BY <1>1, <1>6, <1>7
<1>10. RxTypes
  BY <1>1, <1>2, <1>3, <1>5, <1>7, <1>8, <1>9, SizeAssumption DEF RxTypes
<1>11. Behind
  BY <1>7, <1>9 DEF Behind
<1>12. QED BY <1>1, <1>4, <1>7, <1>8, <1>9, <1>10, <1>11 DEF RxInv

(* A byte of the frame, with an error or without.                          *)
LEMMA RxByteInv ==
  ASSUME RxInv, Char \/ ParityError
  PROVE  RxInv'
<1>1. /\ RxTypes /\ RxQueues /\ Behind /\ (top => OneTooMany)
      /\ \A m \in RxMsgs : Honest(msg[m])
  BY DEF RxInv
<1>2. /\ UNCHANGED <<rx_idle, rx_pending, msg, reading>> /\ arrived' = arrived + 1
      /\ arrived' \in 0 .. FrameMax
  BY <1>1, SizeAssumption DEF Char, ParityError, RxTypes
<1>3. RxQueues'
  BY <1>1, <1>2 DEF RxQueues
<1>4. Behind'
  BY <1>1, <1>2 DEF Behind, Follows
<1>5. /\ i \in Nat /\ i <= IBUS_MAX_MESSAGE_SIZE + 1 /\ buffer \in Seq(Nat) /\ Len(buffer) = Kept(i)
      /\ status \in Statuses /\ top \in BOOLEAN /\ garbled \in BOOLEAN /\ arrived \in Nat
      /\ sane \in BOOLEAN
  <2>1. Received \in Frame
    BY <1>1 DEF RxTypes
  <2>2. QED BY <1>1, <2>1, SizeAssumption DEF Received, Frame, RxTypes
<1>6. /\ i <= arrived
      /\ status = "OK" => /\ i = arrived /\ arrived <= IBUS_MAX_MESSAGE_SIZE + 1
                          /\ buffer = UpTo(Kept(arrived))
      /\ ~garbled /\ arrived <= IBUS_MAX_MESSAGE_SIZE => status = "OK"
  BY DEF RxInv, Honest, Received
<1>7. SUFFICES /\ i' \in 0 .. IBUS_MAX_MESSAGE_SIZE + 1 /\ i' <= arrived'
               /\ buffer' \in Seq(Nat) /\ Len(buffer') = Kept(i')
               /\ status' \in Statuses /\ top' \in BOOLEAN /\ garbled' \in BOOLEAN /\ sane' \in BOOLEAN
               /\ top' => i' = IBUS_MAX_MESSAGE_SIZE + 1
               /\ status' = "OK" =>
                    /\ i' = arrived' /\ arrived' <= IBUS_MAX_MESSAGE_SIZE + 1
                    /\ buffer' = UpTo(Kept(arrived'))
               /\ ~garbled' /\ arrived' <= IBUS_MAX_MESSAGE_SIZE => status' = "OK"
  <2>1. Received' \in Frame /\ Honest(Received)'
    BY <1>2, <1>7, SizeAssumption DEF Received, Frame, Honest
  <2>2. RxTypes'
    BY <1>1, <1>2, <1>7, <2>1 DEF RxTypes
  <2>3. QED BY <1>1, <1>2, <1>3, <1>4, <1>7, <2>1, <2>2 DEF RxInv, OneTooMany
<1>8. CASE ParityError
  <2>1. /\ i' = i /\ buffer' = buffer /\ sane' = sane /\ garbled' = TRUE
        /\ status' = "PARITY_ERROR" /\ top' = FALSE
    BY <1>8 DEF ParityError
  <2>2. i' \in 0 .. IBUS_MAX_MESSAGE_SIZE + 1 /\ i' <= arrived'
    BY <1>2, <1>5, <1>6, <2>1, SizeAssumption
  <2>3. buffer' \in Seq(Nat) /\ Len(buffer') = Kept(i')
    BY <1>5, <2>1
  <2>4. QED BY <1>5, <2>1, <2>2, <2>3 DEF Statuses
<1>9. CASE Char
  <2>1. garbled' = garbled
    BY <1>9 DEF Char
  <2>2. CASE /\ ~Full /\ ~Overrun /\ i' = i + 1 /\ buffer' = Append(buffer, arrived + 1)
             /\ UNCHANGED <<status, top, sane>>
    <3>1. i < IBUS_MAX_MESSAGE_SIZE /\ top = FALSE /\ Kept(i) = i /\ Kept(i + 1) = i + 1
      BY <1>1, <1>5, <2>2, SizeAssumption DEF Full, Overrun, OneTooMany, Kept
    <3>2. buffer' \in Seq(Nat) /\ Len(buffer') = i + 1
      BY <1>5, <2>2, <3>1
    <3>3. status = "OK" => buffer' = UpTo(arrived + 1)
      BY <1>5, <1>6, <2>2, <3>1, CountLemma DEF UpTo
    <3>4. QED BY <1>2, <1>5, <1>6, <2>1, <2>2, <3>1, <3>2, <3>3, SizeAssumption
  <2>3. CASE /\ Full /\ i' = i + 1 /\ top' \in BOOLEAN /\ sane' \in BOOLEAN
             /\ UNCHANGED <<status, buffer>>
    <3>1. i = IBUS_MAX_MESSAGE_SIZE /\ Kept(i) = i /\ Kept(i + 1) = i
      BY <1>5, <2>3, SizeAssumption DEF Full, Kept
    <3>2. status' = "OK" => /\ i' = arrived' /\ arrived' <= IBUS_MAX_MESSAGE_SIZE + 1
                             /\ buffer' = UpTo(Kept(arrived'))
      <4>1. SUFFICES ASSUME status = "OK"
                     PROVE  /\ i' = arrived' /\ arrived' <= IBUS_MAX_MESSAGE_SIZE + 1
                            /\ buffer' = UpTo(Kept(arrived'))
        BY <2>3
      <4>2. i = arrived /\ buffer = UpTo(Kept(arrived))
        BY <1>6, <4>1
      <4>3. arrived' = i + 1 /\ Kept(arrived') = Kept(arrived)
        BY <1>2, <3>1, <4>2
      <4>4. QED BY <2>3, <3>1, <4>2, <4>3, SizeAssumption
    <3>3. ~garbled' /\ arrived' <= IBUS_MAX_MESSAGE_SIZE => status' = "OK"
      BY <1>2, <1>5, <1>6, <2>1, <2>3, SizeAssumption
    <3>4. /\ i' \in 0 .. IBUS_MAX_MESSAGE_SIZE + 1 /\ i' <= arrived'
          /\ (top' => i' = IBUS_MAX_MESSAGE_SIZE + 1)
          /\ buffer' \in Seq(Nat) /\ Len(buffer') = Kept(i')
      BY <1>2, <1>5, <1>6, <2>3, <3>1, SizeAssumption
    <3>5. /\ status' \in Statuses /\ top' \in BOOLEAN /\ garbled' \in BOOLEAN
          /\ sane' \in BOOLEAN
      BY <1>5, <2>1, <2>3
    <3>6. QED BY <3>2, <3>3, <3>4, <3>5, Zenon
  <2>4. CASE /\ Overrun /\ status' = "BUFFER_OVERRUN_ERROR" /\ top' = FALSE
             /\ i' = 1 /\ buffer' = <<arrived + 1>> /\ UNCHANGED sane
    <3>1. buffer' \in Seq(Nat) /\ Len(buffer') = 1 /\ Kept(1) = 1
      BY <1>5, <2>4, SizeAssumption DEF Kept
    <3>2. ~(arrived + 1 <= IBUS_MAX_MESSAGE_SIZE)
      BY <1>5, <1>6, <2>4, SizeAssumption DEF Overrun
    <3>3. /\ i' \in 0 .. IBUS_MAX_MESSAGE_SIZE + 1 /\ i' <= arrived'
          /\ buffer' \in Seq(Nat) /\ Len(buffer') = Kept(i')
      BY <1>2, <1>5, <2>4, <3>1, SizeAssumption
    <3>4. ~garbled' /\ arrived' <= IBUS_MAX_MESSAGE_SIZE => status' = "OK"
      BY <1>2, <3>2
    <3>5. /\ status' \in Statuses /\ status' # "OK" /\ top' \in BOOLEAN /\ ~top'
          /\ garbled' \in BOOLEAN /\ sane' \in BOOLEAN
      BY <1>5, <2>1, <2>4 DEF Statuses
    <3>6. QED BY <3>3, <3>4, <3>5
  <2>5. QED BY <1>9, <2>2, <2>3, <2>4 DEF Char
<1>10. QED BY <1>8, <1>9

(* The byte too many falls only on a message that is free or in front of   *)
(* its neighbour.                                                          *)
LEMMA TimeoutBehind ==
  ASSUME RxInv, Timeout, rx_idle # <<>>
  PROVE  Behind'
<1>1. /\ rx_idle \in Seq(RxMsgs) /\ rx_pending \in Seq(RxMsgs)
      /\ RxQueues /\ Behind /\ (top => OneTooMany) /\ msg \in [RxMsgs -> Frame]
  BY DEF RxInv, RxTypes
<1>2. PICK h : h = Head(rx_idle)
  OBVIOUS
<1>3. PICK byte \in BOOLEAN :
        msg' = [m \in RxMsgs |->
                 IF m = h THEN Received
                 ELSE IF m = h + 1 /\ OneTooMany THEN [msg[m] EXCEPT !.top = byte]
                 ELSE msg[m]]
  BY <1>2 DEF Timeout, CopyTo
<1>4. rx_pending' = Append(rx_pending, h) /\ rx_idle' = Tail(rx_idle) /\ reading' = reading
  BY <1>2 DEF Timeout
<1>5. /\ h \in RxMsgs /\ h \in ToSet(rx_idle) /\ ToSet(rx_idle) = ToSet(rx_idle') \cup {h}
      /\ h \notin ToSet(rx_pending)
  BY <1>1, <1>2, <1>4, ReceiveLemma DEF RxQueues
<1>6. PICK n \in Nat : /\ n = Len(rx_pending) /\ DOMAIN rx_pending = 1 .. n
                       /\ DOMAIN rx_pending' = 1 .. (n + 1)
                       /\ rx_pending'[n + 1] = h
                       /\ \A a \in 1 .. n : rx_pending'[a] = rx_pending[a]
  BY <1>1, <1>4, <1>5
<1>7. SUFFICES ASSUME NEW m \in RxMsgs, msg'[m].top, msg'[m].size <= IBUS_MAX_MESSAGE_SIZE
               PROVE  m \in ToSet(rx_idle') \/ Follows(m)'
  BY DEF Behind
<1>8. h \in Int /\ m \in Int /\ IBUS_MAX_MESSAGE_SIZE \in Nat
  BY <1>5, SizeAssumption DEF RxMsgs
<1>9. m # h
  <2>1. msg'[h].top = top /\ msg'[h].size = i
    BY <1>3, <1>5 DEF Received
  <2>2. QED BY <1>1, <1>7, <1>8, <2>1 DEF OneTooMany
<1>10. CASE m = h + 1 /\ OneTooMany
  <2>1. msg'[m - 1] = Received /\ m - 1 = h
    BY <1>3, <1>5, <1>8, <1>10
  <2>2. msg'[m - 1].size = IBUS_MAX_MESSAGE_SIZE + 1
    BY <1>10, <2>1 DEF Received, OneTooMany
  <2>3. h \in ToSet(rx_pending')
    BY <1>6 DEF ToSet
  <2>4. CASE m \in ToSet(rx_idle)
    BY <1>5, <1>9, <2>4
  <2>5. CASE m = reading
    BY <1>4, <2>1, <2>2, <2>3, <2>5 DEF Follows
  <2>6. CASE m \in ToSet(rx_pending)
    <3>1. PICK a \in 1 .. n : rx_pending[a] = m
      BY <1>6, <2>6 DEF ToSet
    <3>2. a < n + 1 /\ rx_pending'[a] = m /\ rx_pending'[n + 1] = m - 1
          /\ a \in DOMAIN rx_pending' /\ n + 1 \in DOMAIN rx_pending'
      BY <1>6, <2>1, <3>1
    <3>3. QED BY <2>2, <3>2 DEF Follows
  <2>7. QED BY <1>1, <2>4, <2>5, <2>6 DEF RxQueues
<1>11. CASE ~(m = h + 1 /\ OneTooMany)
  <2>1. msg'[m] = msg[m]
    BY <1>3, <1>9, <1>11
  <2>2. CASE m \in ToSet(rx_idle)
    BY <1>5, <1>9, <2>2
  <2>3. CASE Follows(m)
    <3>1. m - 1 \in ToSet(rx_pending)
      BY <2>3 DEF Follows, ToSet
    <3>2. m - 1 \in RxMsgs /\ m - 1 # h
      BY <1>1, <1>5, <3>1 DEF ToSet
    <3>3. msg'[m - 1].size = msg[m - 1].size
      <4>1. msg[m - 1] \in Frame
        BY <1>1, <3>2
      <4>2. msg'[m - 1] = msg[m - 1] \/ msg'[m - 1] = [msg[m - 1] EXCEPT !.top = byte]
        BY <1>3, <3>2
      <4>3. QED BY <4>1, <4>2 DEF Frame
    <3>4. CASE m = reading
      <4>1. m - 1 \in ToSet(rx_pending')
        BY <1>6, <3>1 DEF ToSet
      <4>2. QED BY <1>4, <2>3, <3>3, <3>4, <4>1 DEF Follows
    <3>5. CASE \E a, b \in DOMAIN rx_pending : a < b /\ rx_pending[a] = m /\ rx_pending[b] = m - 1
      <4>1. PICK a \in 1 .. n, b \in 1 .. n : a < b /\ rx_pending[a] = m /\ rx_pending[b] = m - 1
        BY <1>6, <3>5
      <4>2. /\ rx_pending'[a] = m /\ rx_pending'[b] = m - 1
            /\ a \in DOMAIN rx_pending' /\ b \in DOMAIN rx_pending'
        BY <1>6, <4>1
      <4>3. QED BY <2>3, <3>3, <4>1, <4>2 DEF Follows
    <3>6. QED BY <2>3, <3>4, <3>5 DEF Follows
  <2>4. QED BY <1>1, <1>7, <2>1, <2>2, <2>3 DEF Behind
<1>12. QED BY <1>10, <1>11

(* The pause at the end of a frame.                                        *)
LEMMA RxTimeoutInv ==
  ASSUME RxInv, Timeout
  PROVE  RxInv'
<1>1. /\ RxTypes /\ RxQueues /\ Behind /\ Honest(Received)
      /\ \A m \in RxMsgs : Honest(msg[m])
      /\ rx_idle \in Seq(RxMsgs) /\ rx_pending \in Seq(RxMsgs) /\ msg \in [RxMsgs -> Frame]
      /\ reading \in RxMsgs \cup {NoMsg} /\ Received \in Frame /\ sane \in BOOLEAN
  BY DEF RxInv, RxTypes
<1>2. /\ status' = "OK" /\ top' = FALSE /\ i' = 0 /\ buffer' = <<>>
      /\ arrived' = 0 /\ garbled' = FALSE /\ UNCHANGED reading
  BY DEF Timeout, Reset
<1>3. /\ Received' \in Frame /\ Honest(Received)' /\ i' \in 0 .. IBUS_MAX_MESSAGE_SIZE + 1
      /\ Len(buffer') = Kept(i') /\ arrived' \in 0 .. FrameMax
  <2>1. <<>> = UpTo(0) /\ <<>> \in Seq(Nat) /\ Len(<<>>) = 0 /\ Kept(0) = 0
    BY SizeAssumption DEF UpTo, Kept
  <2>2. PICK e : e = [status |-> "OK", top |-> FALSE, size |-> 0, data |-> <<>>, arrived |-> 0,
                      garbled |-> FALSE]
    OBVIOUS
  <2>3. Received' = e
    BY <1>2, <2>2 DEF Received
  <2>4. e \in Frame /\ Honest(e)
    BY <2>1, <2>2, SizeAssumption DEF Frame, Statuses, Honest
  <2>5. Honest(Received)' <=> Honest(e)
    BY <2>3 DEF Honest
  <2>6. QED BY <1>2, <2>1, <2>3, <2>4, <2>5, SizeAssumption
<1>4. CASE rx_idle = <<>>
  <2>1. UNCHANGED <<rx_idle, rx_pending, msg, sane>>
    BY <1>4 DEF Timeout
  <2>2. RxQueues' /\ Behind'
    BY <1>1, <1>2, <2>1 DEF RxQueues, Behind, Follows
  <2>3. RxTypes'
    BY <1>1, <1>2, <1>3, <2>1 DEF RxTypes
  <2>4. QED BY <1>1, <1>2, <1>3, <2>1, <2>2, <2>3 DEF RxInv
<1>5. CASE rx_idle # <<>>
  <2>1. PICK h : h = Head(rx_idle)
    OBVIOUS
  <2>2. PICK byte \in BOOLEAN :
          msg' = [m \in RxMsgs |->
                   IF m = h THEN Received
                   ELSE IF m = h + 1 /\ OneTooMany THEN [msg[m] EXCEPT !.top = byte]
                   ELSE msg[m]]
    BY <1>5, <2>1 DEF Timeout, CopyTo
  <2>3. rx_pending' = Append(rx_pending, h) /\ rx_idle' = Tail(rx_idle) /\ sane' \in BOOLEAN
    BY <1>1, <1>5, <2>1 DEF Timeout, CopyTo
  <2>4. /\ h \in RxMsgs /\ h \in ToSet(rx_idle) /\ rx_idle' \in Seq(RxMsgs)
        /\ ToSet(rx_idle) = ToSet(rx_idle') \cup {h} /\ IsInjective(rx_idle') /\ h \notin ToSet(rx_idle')
    BY <1>1, <1>5, <2>1, <2>3, ReceiveLemma DEF RxQueues
  <2>5. /\ rx_pending' \in Seq(RxMsgs) /\ ToSet(rx_pending') = ToSet(rx_pending) \cup {h}
        /\ IsInjective(rx_pending')
    BY <1>1, <2>3, <2>4, SendLemma DEF RxQueues
  <2>6. RxQueues'
    BY <1>1, <1>2, <2>4, <2>5 DEF RxQueues
  <2>7. \A m \in RxMsgs : msg'[m] \in Frame /\ Honest(msg'[m])
    <3>1. SUFFICES ASSUME NEW m \in RxMsgs PROVE msg'[m] \in Frame /\ Honest(msg'[m])
      OBVIOUS
    <3>2. msg[m] \in Frame /\ Honest(msg[m])
      BY <1>1
    <3>3. PICK f : f = [msg[m] EXCEPT !.top = byte]
      OBVIOUS
    <3>4. f \in Frame /\ Honest(f)
      BY <3>2, <3>3 DEF Frame, Honest
    <3>5. msg'[m] = Received \/ msg'[m] = f \/ msg'[m] = msg[m]
      BY <2>2, <3>3
    <3>6. QED BY <1>1, <3>2, <3>4, <3>5
  <2>8. msg' \in [RxMsgs -> Frame]
    BY <2>2, <2>7
  <2>9. RxTypes'
    BY <1>1, <1>2, <1>3, <2>3, <2>4, <2>5, <2>8 DEF RxTypes
  <2>10. QED BY <1>2, <1>3, <1>5, <2>6, <2>7, <2>9, TimeoutBehind DEF RxInv
<1>6. QED BY <1>4, <1>5

(* The reader's calls.                                                     *)
LEMMA RxReaderInv ==
  ASSUME RxInv, GetMessage \/ ReleaseMessage
  PROVE  RxInv'
<1>1. /\ RxTypes /\ RxQueues /\ Behind /\ Honest(Received) /\ (top => OneTooMany)
      /\ \A m \in RxMsgs : Honest(msg[m])
      /\ rx_idle \in Seq(RxMsgs) /\ rx_pending \in Seq(RxMsgs) /\ msg \in [RxMsgs -> Frame]
      /\ reading \in RxMsgs \cup {NoMsg}
  BY DEF RxInv, RxTypes
<1>2. NoMsg \notin RxMsgs
  BY RxPoolAssumption
<1>3. UNCHANGED <<i, status, top, buffer, arrived, garbled, sane>>
  BY DEF GetMessage, ReleaseMessage, frameVars
<1>4. Received' = Received /\ Honest(Received)' /\ (top' => OneTooMany')
  BY <1>1, <1>3 DEF Received, OneTooMany, Honest
<1>5. CASE GetMessage
  <2>1. PICK h : h = Head(rx_pending)
    OBVIOUS
  <2>2. /\ reading = NoMsg /\ rx_pending # <<>> /\ reading' = h /\ rx_pending' = Tail(rx_pending)
        /\ UNCHANGED <<rx_idle, msg>>
    BY <1>5, <2>1 DEF GetMessage
  <2>3. /\ h \in RxMsgs /\ h \in ToSet(rx_pending) /\ rx_pending' \in Seq(RxMsgs)
        /\ ToSet(rx_pending) = ToSet(rx_pending') \cup {h}
        /\ IsInjective(rx_pending') /\ h \notin ToSet(rx_pending')
    BY <1>1, <2>1, <2>2, ReceiveLemma DEF RxQueues
  <2>4. RxQueues'
    <3>1. \A m \in RxMsgs : m \in ToSet(rx_idle) \cup ToSet(rx_pending)
      BY <1>1, <1>2, <2>2 DEF RxQueues
    <3>2. h \notin ToSet(rx_idle)
      BY <1>1, <2>3 DEF RxQueues
    <3>3. QED BY <1>1, <2>2, <2>3, <3>1, <3>2 DEF RxQueues
  <2>5. PICK n \in Nat : /\ DOMAIN rx_pending = 1 .. n /\ DOMAIN rx_pending' = 1 .. (n - 1)
                         /\ rx_pending[1] = h /\ n > 0
                         /\ \A a \in 1 .. (n - 1) : rx_pending'[a] = rx_pending[a + 1]
    <3>1. Len(rx_pending) \in Nat /\ Len(rx_pending) > 0 /\ Head(rx_pending) = rx_pending[1]
      BY <1>1, <2>2, EmptySeq
    <3>2. QED BY <1>1, <2>1, <2>2, <3>1, HeadTailProperties
  <2>6. Behind'
    <3>1. SUFFICES ASSUME NEW m \in RxMsgs, msg[m].top, msg[m].size <= IBUS_MAX_MESSAGE_SIZE,
                          m \notin ToSet(rx_idle)
                   PROVE  Follows(m)'
      BY <2>2 DEF Behind
    <3>2. Follows(m)
      BY <1>1, <3>1 DEF Behind
    <3>3. PICK a \in 1 .. n, b \in 1 .. n : a < b /\ rx_pending[a] = m /\ rx_pending[b] = m - 1
      BY <1>2, <2>2, <2>5, <3>1, <3>2 DEF Follows
    <3>4. b - 1 \in 1 .. (n - 1) /\ rx_pending'[b - 1] = m - 1
      BY <2>5, <3>3
    <3>5. CASE a = 1
      <4>1. m = reading' /\ m - 1 \in ToSet(rx_pending')
        BY <2>2, <2>5, <3>3, <3>4, <3>5 DEF ToSet
      <4>2. QED BY <2>2, <3>2, <4>1 DEF Follows
    <3>6. CASE a # 1
      <4>1. a - 1 \in 1 .. (n - 1) /\ rx_pending'[a - 1] = m /\ a - 1 < b - 1
        BY <2>5, <3>3, <3>6
      <4>2. QED BY <2>2, <2>5, <3>2, <3>4, <4>1 DEF Follows
    <3>7. QED BY <3>5, <3>6
  <2>7. RxTypes'
    BY <1>1, <1>3, <1>4, <2>2, <2>3 DEF RxTypes, Kept
  <2>8. QED BY <1>1, <1>4, <2>2, <2>4, <2>6, <2>7 DEF RxInv
<1>6. CASE ReleaseMessage
  <2>1. PICK e : e = Empty
    OBVIOUS
  <2>2. /\ reading # NoMsg /\ reading \in RxMsgs
        /\ rx_idle' = Append(rx_idle, reading) /\ reading' = NoMsg
        /\ msg' = [msg EXCEPT ![reading] = e] /\ UNCHANGED rx_pending
    BY <1>1, <1>6, <2>1 DEF ReleaseMessage
  <2>3. /\ rx_idle' \in Seq(RxMsgs) /\ ToSet(rx_idle') = ToSet(rx_idle) \cup {reading}
        /\ IsInjective(rx_idle')
    BY <1>1, <2>2, SendLemma DEF RxQueues
  <2>4. RxQueues'
    <3>1. NoMsg \notin ToSet(rx_idle) \cup ToSet(rx_pending)
      BY <1>1, <1>2 DEF ToSet
    <3>2. rx_pending' = rx_pending /\ reading' = NoMsg
      BY <2>2
    <3>3. QED BY <1>1, <1>2, <2>2, <2>3, <3>1, <3>2 DEF RxQueues
  <2>5. e \in Frame /\ Honest(e)
    <3>1. <<>> = UpTo(0) /\ <<>> \in Seq(Nat) /\ Kept(0) = 0
      BY SizeAssumption DEF UpTo, Kept
    <3>2. QED BY <2>1, <3>1, SizeAssumption DEF Empty, Frame, Statuses, Honest
  <2>6. msg' \in [RxMsgs -> Frame] /\ \A m \in RxMsgs : Honest(msg'[m])
    BY <1>1, <2>2, <2>5
  <2>7. Behind'
    <3>1. SUFFICES ASSUME NEW m \in RxMsgs, msg'[m].top, msg'[m].size <= IBUS_MAX_MESSAGE_SIZE,
                          m \notin ToSet(rx_idle')
                   PROVE  Follows(m)'
      BY DEF Behind
    <3>2. m # reading /\ msg'[m] = msg[m] /\ m \notin ToSet(rx_idle)
      BY <1>1, <2>2, <2>3, <3>1
    <3>3. Follows(m)
      BY <1>1, <3>1, <3>2 DEF Behind
    <3>4. PICK a, b \in DOMAIN rx_pending : a < b /\ rx_pending[a] = m /\ rx_pending[b] = m - 1
      BY <3>2, <3>3 DEF Follows
    <3>5. m - 1 # reading
      BY <1>1, <3>4 DEF RxQueues, ToSet
    <3>6. msg'[m - 1] = msg[m - 1]
      <4>1. m - 1 \in RxMsgs
        BY <1>1, <3>4
      <4>2. QED BY <1>1, <2>2, <3>5, <4>1
    <3>7. QED BY <2>2, <3>3, <3>4, <3>6 DEF Follows
  <2>8. RxTypes'
    BY <1>1, <1>3, <1>4, <2>2, <2>3, <2>6 DEF RxTypes, Kept
  <2>9. QED BY <1>4, <2>4, <2>6, <2>7, <2>8 DEF RxInv
<1>7. QED BY <1>5, <1>6

(* Every step of the receiving half keeps the invariant.                   *)
LEMMA RxNextInv ==
  ASSUME RxInv, [RxNext]_rxVars
  PROVE  RxInv'
<1>1. CASE RxNext
  BY <1>1, RxByteInv, RxTimeoutInv, RxReaderInv DEF RxNext
<1>2. CASE UNCHANGED rxVars
  <2>1. UNCHANGED <<rx_idle, rx_pending, msg, i, status, top, buffer, arrived, garbled, reading, sane>>
    BY <1>2 DEF rxVars, frameVars
  <2>2. Received' = Received
    BY <2>1 DEF Received
  <2>3. RxTypes' /\ RxQueues' /\ Behind'
    BY <2>1, <2>2 DEF RxInv, RxTypes, RxQueues, Behind, Follows, Kept
  <2>4. Honest(Received)' /\ (top' => OneTooMany') /\ \A m \in RxMsgs : Honest(msg'[m])
    BY <2>1, <2>2 DEF RxInv, Honest, OneTooMany
  <2>5. QED BY <2>3, <2>4 DEF RxInv
<1>3. QED BY <1>1, <1>2

(* No message of the receiving half is lost or in two places, for any pool *)
(* and with frames dropped for want of a message: __get_char_isr,          *)
(* ibus_physical_get_message and ibus_physical_release_message.            *)
THEOREM FramesConserved == RxSpec => []RxOnePlace
<1>1. RxInit => RxInv
  BY RxInitInv
<1>2. RxInv /\ [RxNext]_rxVars => RxInv'
  BY RxNextInv
<1>3. ASSUME RxInv PROVE RxOnePlace
  <2>1. /\ rx_idle \in Seq(RxMsgs) /\ rx_pending \in Seq(RxMsgs) /\ reading \in RxMsgs \cup {NoMsg}
        /\ RxQueues
    BY <1>3 DEF RxInv, RxTypes
  <2>2. RxTypeOK
    <3>1. /\ msg \in [RxMsgs -> Frame] /\ Received \in Frame /\ sane \in BOOLEAN
          /\ i \in 0 .. IBUS_MAX_MESSAGE_SIZE + 1 /\ Len(buffer) = Kept(i) /\ arrived \in 0 .. FrameMax
      BY <1>3 DEF RxInv, RxTypes
    <3>2. \A m \in RxMsgs : msg[m].status \in Statuses
      BY <3>1 DEF Frame
    <3>3. garbled \in BOOLEAN
      BY <3>1 DEF Received, Frame
    <3>4. Len(buffer) = IF OneTooMany THEN IBUS_MAX_MESSAGE_SIZE ELSE i
      BY <3>1, SizeAssumption DEF Kept, OneTooMany
    <3>5. QED BY <2>1, <3>1, <3>2, <3>3, <3>4 DEF RxTypeOK, Statuses
  <2>3. /\ IsInjective(rx_idle \o rx_pending)
        /\ ToSet(rx_idle \o rx_pending) = ToSet(rx_idle) \cup ToSet(rx_pending)
    BY <2>1, ConcatLemma DEF RxQueues
  <2>4. ToSet(rx_idle) \subseteq RxMsgs /\ ToSet(rx_pending) \subseteq RxMsgs
    BY <2>1 DEF ToSet
  <2>5. ToSet(rx_idle \o rx_pending) = RxMsgs \ {reading}
    BY <2>1, <2>3, <2>4 DEF RxQueues
  <2>6. QED BY <2>2, <2>3, <2>5 DEF RxOnePlace
<1>4. QED BY <1>1, <1>2, <1>3, PTL DEF RxSpec

(* A message that reads OK holds its frame in order, whole but for one     *)
(* byte too many, and a frame that arrived without an error and fits reads *)
(* OK, unless a frame that was one byte too long is queued next to it:     *)
(* what __get_char_isr says of a frame, for any length of it and any pool. *)
THEOREM OkIsWhole == RxSpec => []OkMeansWhole
<1>1. RxInit => RxInv
  BY RxInitInv
<1>2. RxInv /\ [RxNext]_rxVars => RxInv'
  BY RxNextInv
<1>3. ASSUME RxInv PROVE OkMeansWhole
  <2>1. SUFFICES ASSUME NEW m \in RxQueued
                 PROVE  /\ ReadsOK(m) =>
                             /\ msg[m].size = msg[m].arrived
                             /\ msg[m].arrived <= IBUS_MAX_MESSAGE_SIZE + 1
                             /\ msg[m].data = UpTo(Kept(msg[m].arrived))
                        /\ ~msg[m].garbled /\ msg[m].arrived <= IBUS_MAX_MESSAGE_SIZE =>
                             ReadsOK(m) \/ OverrunByNeighbour(m)
    BY DEF OkMeansWhole, UpTo, Kept
  <2>2. /\ rx_pending \in Seq(RxMsgs) /\ reading \in RxMsgs \cup {NoMsg} /\ msg \in [RxMsgs -> Frame]
        /\ RxQueues /\ Behind /\ \A k \in RxMsgs : Honest(msg[k])
    BY <1>3 DEF RxInv, RxTypes
  <2>3. m \in RxMsgs /\ m \notin ToSet(rx_idle)
    <3>1. m \in ToSet(rx_pending) \/ (m = reading /\ reading # NoMsg)
      BY <2>1 DEF RxQueued
    <3>2. m \in RxMsgs
      <4>1. ToSet(rx_pending) \subseteq RxMsgs
        BY <2>2 DEF ToSet
      <4>2. QED BY <2>2, <3>1, <4>1
    <3>3. QED BY <2>2, <3>1, <3>2 DEF RxQueues
  <2>4. Honest(msg[m]) /\ msg[m] \in Frame
    BY <2>2, <2>3
  <2>5. ASSUME ~msg[m].garbled, msg[m].arrived <= IBUS_MAX_MESSAGE_SIZE, msg[m].top
        PROVE  OverrunByNeighbour(m)
    <3>1. msg[m].size <= IBUS_MAX_MESSAGE_SIZE
      BY <2>4, <2>5, SizeAssumption DEF Honest, Frame
    <3>2. Follows(m)
      BY <2>2, <2>3, <2>5, <3>1 DEF Behind
    <3>3. QED BY <3>2 DEF Follows, OverrunByNeighbour, ToSet
  <2>6. QED BY <2>4, <2>5 DEF Honest, ReadsOK, Frame
<1>4. QED BY <1>1, <1>2, <1>3, PTL DEF RxSpec
=============================================================================
