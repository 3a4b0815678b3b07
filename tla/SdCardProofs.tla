---------------------------- MODULE SdCardProofs ----------------------------
(***************************************************************************)
(* Proofs about SdCard, for any patience with a card that does not answer: *)
(* the one message of the block layer is in one place, the status of the   *)
(* card is right whenever the automount task has nothing to do, and only a *)
(* card that was there to the end has taken a write.  Somebody can go on   *)
(* with a request until it is answered, and each step for it brings the    *)
(* answer nearer.                                                          *)
(***************************************************************************)
EXTENDS SdCard, TLAPS

TaskStep == Grant \/ Release \/ Check \/ BlockCall

-----------------------------------------------------------------------------
(* Types.                                                                  *)

LEMMA InitTypes == Init => TypeOK
<1> SUFFICES ASSUME Init PROVE TypeOK
  OBVIOUS
<1>1. {present, ready, given, current, idle, pending, complete, bumped, ten, ier, heard, leftover}
        \subseteq BOOLEAN
  BY DEF Init
<1>2. state \in States /\ status \in CardStatuses
  BY DEF Init, States, CardStatuses
<1>3. nac \in 0..NacMax /\ run \in 0..2
  BY NacAssumption DEF Init
<1>4. QED BY <1>1, <1>2, <1>3 DEF Init, TypeOK

LEMMA TaskTypes == TypeOK /\ TaskStep => TypeOK'
<1> SUFFICES ASSUME TypeOK, TaskStep PROVE TypeOK'
  OBVIOUS
<1> USE DEF TypeOK, cardVars, queueVars, msgVars, handlerVars, dmaVars
<1>0. CASE Grant \/ Release
  BY <1>0 DEF Grant, Release
<1>1. CASE Check
  <2>1. opc' \in {"take", "failed"}
    BY <1>1 DEF Check
  <2>2. QED BY <1>1, <2>1 DEF Check
<1>2. ASSUME NEW t \in {"READ", "WRITE"}, Take(t) PROVE TypeOK'
  <2>1. nac' \in 0..NacMax /\ state' \in States
    BY <1>2, NacAssumption DEF Take, States
  <2>2. QED BY <1>2, <2>1 DEF Take
<1>3. CASE SendPending \/ Await
  BY <1>3 DEF SendPending, Await
<1>31. CASE Return
  <2>1. opc' \in {"op", "failed"}
    BY <1>31 DEF Return
  <2>2. QED BY <1>31, <2>1 DEF Return
<1>4. CASE QueueBuffer
  BY <1>4 DEF QueueBuffer, Queued
<1>5. CASE Enable
  BY <1>5 DEF Enable
<1>6. QED
  BY <1>0, <1>1, <1>2, <1>3, <1>31, <1>4, <1>5 DEF TaskStep, BlockCall

(* An answer is a state and a way to go on; the count of the transfers     *)
(* without one stays within the patience.                                  *)
LEMMA AnswerTypes ==
  ASSUME TypeOK, NEW a \in Answers \cup {<<"TIMEOUT", "fail">>}
  PROVE  /\ a[1] \in States /\ a[2] \in {"again", "complete", "fail"}
         /\ a = <<state, "again">> => nac < NacMax
<1> USE DEF Answers, States, TypeOK, Patient
<1>1. CASE a = <<"TIMEOUT", "fail">>
  BY <1>1
<1>2. ASSUME a \in Answers, type = "READ"
      PROVE  /\ a[1] \in States /\ a[2] \in {"again", "complete", "fail"}
             /\ a = <<state, "again">> => nac < NacMax
  <2>1. CASE state = "COMMAND_SENT"
    BY <1>2, <2>1
  <2>2. CASE state = "LOOKING_FOR_BLOCK"
    BY <1>2, <2>2
  <2>3. CASE state \notin {"COMMAND_SENT", "LOOKING_FOR_BLOCK"}
    BY <1>2, <2>3
  <2>4. QED BY <2>1, <2>2, <2>3
<1>3. ASSUME a \in Answers, type = "WRITE"
      PROVE  /\ a[1] \in States /\ a[2] \in {"again", "complete", "fail"}
             /\ a = <<state, "again">> => nac < NacMax
  <2>1. CASE state = "COMMAND_SENT"
    BY <1>3, <2>1
  <2>2. CASE state = "SENT_DATA"
    BY <1>3, <2>2
  <2>3. CASE state = "WAITING_UNTIL_NOT_BUSY"
    BY <1>3, <2>3
  <2>4. CASE state \notin {"COMMAND_SENT", "SENT_DATA", "WAITING_UNTIL_NOT_BUSY"}
    BY <1>3, <2>4
  <2>5. QED BY <2>1, <2>2, <2>3, <2>4
<1>4. QED BY <1>1, <1>2, <1>3

LEMMA HandlerTypes == TypeOK /\ Handler => TypeOK'
<1> SUFFICES ASSUME TypeOK, Handler PROVE TypeOK'
  OBVIOUS
<1> USE DEF cardVars, queueVars, msgVars, handlerVars, dmaVars
<1>1. CASE HandlerTake
  BY <1>1 DEF HandlerTake, TypeOK
<1>2. CASE HandlerTurn
  <2>1. PICK a \in Answers \cup {<<"TIMEOUT", "fail">>} :
          /\ state' = a[1] /\ hpc' = a[2]
          /\ IF a[2] = "again"
               THEN run' = Queued /\ ier' = TRUE /\ ten' = TRUE
               ELSE UNCHANGED <<run, ier, ten>>
          /\ nac' = IF a = <<state, "again">> THEN nac + 1 ELSE nac
    BY <1>2 DEF HandlerTurn
  <2>2. /\ a[1] \in States /\ a[2] \in {"again", "complete", "fail"}
        /\ a = <<state, "again">> => nac < NacMax
    BY <2>1, AnswerTypes
  <2>3. nac' \in 0..NacMax
    BY <2>1, <2>2, NacAssumption DEF TypeOK
  <2>4. CASE a[2] = "again"
    <3>1. run' \in 0..2 /\ ier' = TRUE /\ ten' = TRUE
      BY <2>1, <2>4 DEF Queued, TypeOK
    <3>2. QED BY <1>2, <2>1, <2>2, <2>3, <3>1 DEF HandlerTurn, TypeOK
  <2>5. CASE a[2] # "again"
    BY <1>2, <2>1, <2>2, <2>3, <2>5 DEF HandlerTurn, TypeOK
  <2>6. QED BY <2>4, <2>5
<1>3. CASE HandlerFinish
  <2>1. {pending', complete'} \subseteq BOOLEAN
    BY <1>3, Zenon DEF HandlerFinish, TypeOK
  <2>2. hpc' \in {"out", "fail"} /\ state' \in States
    BY <1>3 DEF HandlerFinish, TypeOK, States
  <2>3. QED BY <1>3, <2>1, <2>2 DEF HandlerFinish, TypeOK
<1>4. CASE HandlerFail
  BY <1>4 DEF HandlerFail, TypeOK
<1>5. QED BY <1>1, <1>2, <1>3, <1>4 DEF Handler

LEMMA AutomountTypes == TypeOK /\ Automount => TypeOK'
  BY DEF TypeOK, CardStatuses, Automount, Wait, Look, MountOk, MountFail, Failed, Mounting,
         FMount, Mounted, queueVars, msgVars, handlerVars, dmaVars

LEMMA NextTypes == TypeOK /\ [Next]_vars => TypeOK'
<1> SUFFICES ASSUME TypeOK, [Next]_vars PROVE TypeOK'
  OBVIOUS
<1> USE DEF cardVars, queueVars, msgVars, handlerVars, dmaVars
<1>1. CASE Transfer
  BY <1>1 DEF Transfer, TypeOK
<1>2. CASE CardChange
  <2>1. {pending', ier', complete'} \subseteq BOOLEAN /\ state' \in States
    <3>1. CASE present /\ Cancellable
      BY <1>2, <3>1 DEF CardChange, Cancel, States
    <3>2. CASE ~(present /\ Cancellable)
      BY <1>2, <3>2 DEF CardChange, TypeOK
    <3>3. QED BY <3>1, <3>2
  <2>2. {present', ready', bumped', current', given'} \subseteq BOOLEAN
    BY <1>2 DEF CardChange, Give, TypeOK
  <2>3. UNCHANGED <<status, mpc, opc, idle, type, nac, hpc, run, ten, heard, leftover>>
    BY <1>2 DEF CardChange
  <2>4. QED BY <2>1, <2>2, <2>3 DEF TypeOK
<1>3. CASE UNCHANGED vars
  BY <1>3 DEF vars, TypeOK
<1>4. QED
  BY <1>1, <1>2, <1>3, TaskTypes, HandlerTypes, AutomountTypes DEF Next, TaskStep

(* The variables of the block layer, the DMA and the card keep their types; *)
(* the count of transfers without an answer is bounded (block.c:477, 552). *)
THEOREM TypeCorrect == Spec => []TypeOK
<1>1. QED BY InitTypes, NextTypes, PTL DEF Spec

-----------------------------------------------------------------------------
(* The message.                                                            *)

LEMMA TaskPlace == OnePlace /\ TaskStep => OnePlace'
<1> SUFFICES ASSUME OnePlace, TaskStep PROVE OnePlace'
  OBVIOUS
<1> USE DEF OnePlace, TaskHas, HandlerHas, cardVars, queueVars, msgVars, handlerVars, dmaVars
<1>1. CASE Grant \/ Release \/ Check
  BY <1>1 DEF Grant, Release, Check
<1>2. CASE \E t \in {"READ", "WRITE"} : Take(t)
  BY <1>2 DEF Take
<1>3. CASE SendPending
  BY <1>3 DEF SendPending
<1>4. CASE QueueBuffer \/ Enable
  BY <1>4 DEF QueueBuffer, Enable
<1>5. CASE Await
  BY <1>5 DEF Await
<1>6. CASE Return
  BY <1>6 DEF Return
<1>7. QED BY <1>1, <1>2, <1>3, <1>4, <1>5, <1>6 DEF TaskStep, BlockCall

(* The handler gives back what it took, and finds its queue empty, for the *)
(* task cannot have the message and no one else cancels it meanwhile.      *)
LEMMA HandlerPlace == TypeOK /\ OnePlace /\ Handler => OnePlace'
<1> SUFFICES ASSUME TypeOK, OnePlace, Handler PROVE OnePlace'
  OBVIOUS
<1> USE DEF OnePlace, TaskHas, HandlerHas, queueVars, msgVars, handlerVars
<1>1. CASE HandlerTake
  BY <1>1 DEF HandlerTake
<1>2. CASE HandlerTurn
  <2>1. hpc' \in {"again", "complete", "fail"}
    BY <1>2, AnswerTypes DEF HandlerTurn
  <2>2. QED BY <1>2, <2>1 DEF HandlerTurn
<1>3. CASE HandlerFinish
  <2>1. CASE bumped
    BY <1>3, <2>1 DEF HandlerFinish, Changed
  <2>2. CASE ~bumped
    BY <1>3, <2>2 DEF HandlerFinish, Changed
  <2>3. QED BY <2>1, <2>2
<1>4. CASE HandlerFail
  BY <1>4 DEF HandlerFail
<1>5. QED BY <1>1, <1>2, <1>3, <1>4 DEF Handler

LEMMA NextPlace == TypeOK /\ OnePlace /\ [Next]_vars => OnePlace'
<1> SUFFICES ASSUME TypeOK, OnePlace, [Next]_vars PROVE OnePlace'
  OBVIOUS
<1> USE DEF OnePlace, TaskHas, HandlerHas, queueVars, msgVars, handlerVars
<1>1. CASE Transfer
  BY <1>1 DEF Transfer
<1>2. CASE CardChange
  BY <1>2 DEF CardChange, Cancellable, Cancel
<1>3. CASE Automount
  BY <1>3 DEF Automount, Wait, Look, MountOk, MountFail, Failed, Mounting, FMount, Mounted
<1>4. CASE UNCHANGED vars
  BY <1>4 DEF vars
<1>5. QED
  BY <1>1, <1>2, <1>3, <1>4, TaskPlace, HandlerPlace DEF Next, TaskStep

(* Whenever the card goes, a request is answered once: its message is in   *)
(* one queue, or with the caller, or with the handler (block.c:159-205,    *)
(* 293-307, 437, 566-592), and the queues of one place always have room.   *)
THEOREM MessageKept == Spec => []OnePlace
<1>1. Init => OnePlace
  BY DEF Init, OnePlace, TaskHas, HandlerHas
<1>2. QED BY <1>1, TypeCorrect, NextPlace, PTL DEF Spec

-----------------------------------------------------------------------------
(* The status of the card.                                                 *)

(* What the automount task has seen still holds, unless it is to look      *)
(* again: Settled at each point of its loop.                               *)
Seen ==
  ~given =>
    /\ mpc \in {"mount", "failed", "mounting", "fmount", "mounted"} => present
    /\ mpc \in {"mounting", "fmount", "mounted"} => ready
    /\ mpc = "mounted" => current

IInv == Settled /\ Seen

LEMMA AutomountSettled == IInv /\ Automount => IInv'
<1> SUFFICES ASSUME IInv, Automount PROVE IInv'
  OBVIOUS
<1> USE DEF IInv, Settled, Seen
<1>1. CASE Wait \/ Look
  BY <1>1 DEF Wait, Look
<1>2. CASE MountOk \/ MountFail \/ Failed
  BY <1>2 DEF MountOk, MountFail, Failed
<1>3. CASE Mounting \/ FMount \/ Mounted
  BY <1>3 DEF Mounting, FMount, Mounted
<1>4. QED BY <1>1, <1>2, <1>3 DEF Automount

LEMMA NextSettled == IInv /\ [Next]_vars => IInv'
<1> SUFFICES ASSUME IInv, [Next]_vars PROVE IInv'
  OBVIOUS
<1> USE DEF IInv, Settled, Seen, cardVars
<1>1. CASE TaskStep
  BY <1>1 DEF TaskStep, BlockCall, Grant, Release, Check, Take, SendPending, QueueBuffer,
              Enable, Await, Return
<1>2. CASE Handler \/ Transfer
  BY <1>2 DEF Handler, HandlerTake, HandlerTurn, HandlerFinish, HandlerFail, Transfer
<1>3. CASE CardChange
  BY <1>3 DEF CardChange, Give
<1>4. CASE UNCHANGED vars
  BY <1>4 DEF vars
<1>5. QED
  BY <1>1, <1>2, <1>3, <1>4, AutomountSettled DEF Next, TaskStep

(* However often the card is changed during a mount, when the automount    *)
(* task waits and its semaphore is not given, the status is that of the    *)
(* slot, and MOUNTED means a card that can be used (memcard.c:359-400).    *)
THEOREM StatusSettled == Spec => []Settled
<1>1. Init => IInv
  BY DEF Init, IInv, Settled, Seen
<1>2. IInv => Settled
  BY DEF IInv
<1>3. QED BY <1>1, <1>2, NextSettled, PTL DEF Spec


-----------------------------------------------------------------------------
(* A write that is done.                                                   *)

(* The message is on its way: it waits for the handler, or the handler has *)
(* it, and the card has not been changed since.                            *)
Alive(h) == pending \/ (hpc \in h /\ ~bumped)

(* What the channel and the handler say of each other.                     *)
Channel ==
  /\ ready => present
  /\ idle <=> opc \in {"out", "op", "failed", "take"}
  /\ ier => ten
  /\ hpc \in {"turn", "complete"} => run = 0 /\ ~ier
  /\ hpc = "fail" => state # "SUCCESS"
  /\ opc = "send" => state = "COMMAND_SENT"

(* A request that was cancelled before it was begun may leave its transfer *)
(* behind; no card is initialised before all of it is gone.                *)
Stray ==
  (hpc # "out" \/ ier \/ complete) /\ (opc # "await" \/ (complete /\ ier)) => ~ready

(* What the last transfer heard was the present card.                      *)
Fresh ==
  /\ pending /\ run = 0 /\ (ier \/ opc = "enable") => (heard => ready)
  /\ hpc \in {"turn", "again"} /\ ~bumped /\ run = 0 => (heard => ready)

(* A write that the card has begun to answer.                              *)
Writing ==
  type = "WRITE" /\ Alive({"turn", "again"}) =>
    /\ state \in {"SENT_DATA", "WAITING_UNTIL_NOT_BUSY"} => ready
    /\ state = "WAITING_UNTIL_NOT_BUSY" => heard

(* A write that is done: nothing runs that could end without the card.     *)
Written ==
  type = "WRITE" /\ state = "SUCCESS" =>
    /\ complete \/ (hpc = "complete" /\ ~bumped) => heard /\ run = 0 /\ opc = "await"
    /\ opc = "have" => heard /\ run = 0

WInv == Channel /\ Stray /\ Fresh /\ Writing /\ Written

(* The task and the interrupt do not have the message at once.             *)
LEMMA TaskWrites == TypeOK /\ OnePlace /\ WInv /\ TaskStep => WInv'
<1> SUFFICES ASSUME TypeOK, OnePlace, WInv, TaskStep PROVE WInv'
  OBVIOUS
<1> USE DEF WInv, Alive, Channel, Stray, Fresh, Writing, Written, OnePlace, TaskHas, HandlerHas,
            TasksRun, cardVars, queueVars, msgVars, handlerVars, dmaVars
<1>1. CASE Grant \/ Release \/ Check
  <2>1. opc \in {"out", "op", "failed"} /\ opc' \in {"out", "op", "failed", "take"}
    <3>1. CASE Check
      <4>1. opc' \in {"take", "failed"}
        BY <3>1 DEF Check
      <4>2. QED BY <3>1, <4>1 DEF Check
    <3>2. QED BY <1>1, <3>1 DEF Grant, Release
  <2>2. UNCHANGED <<cardVars, queueVars, msgVars, handlerVars, dmaVars>>
    BY <1>1 DEF Grant, Release, Check
  <2>3. QED BY <2>1, <2>2
<1>2. CASE \E t \in {"READ", "WRITE"} : Take(t)
  BY <1>2 DEF Take
<1>3. CASE SendPending
  BY <1>3 DEF SendPending
<1>4. CASE QueueBuffer
  BY <1>4 DEF QueueBuffer, Queued, TypeOK
<1>5. CASE Enable
  BY <1>5 DEF Enable
<1>6. CASE Await
  BY <1>6 DEF Await
<1>7. CASE Return
  BY <1>7 DEF Return
<1>8. QED BY <1>1, <1>2, <1>3, <1>4, <1>5, <1>6, <1>7 DEF TaskStep, BlockCall

LEMMA HandlerWrites == TypeOK /\ OnePlace /\ WInv /\ Handler => WInv'
<1> SUFFICES ASSUME TypeOK, OnePlace, WInv, Handler PROVE WInv'
  OBVIOUS
<1> USE DEF WInv, Alive, Channel, Stray, Fresh, Writing, Written, OnePlace, TaskHas, HandlerHas,
            cardVars, queueVars, msgVars, handlerVars, dmaVars
<1>1. CASE HandlerTake
  BY <1>1 DEF HandlerTake
<1>2. CASE HandlerTurn
  <2>1. PICK a \in Answers \cup {<<"TIMEOUT", "fail">>} :
          /\ state' = a[1] /\ hpc' = a[2]
          /\ IF a[2] = "again"
               THEN run' = Queued /\ ier' = TRUE /\ ten' = TRUE
               ELSE UNCHANGED <<run, ier, ten>>
    BY <1>2 DEF HandlerTurn
  <2>2. a[2] \in {"again", "complete", "fail"}
    BY AnswerTypes
  <2>3. /\ a[2] = "fail" => a[1] # "SUCCESS"
        /\ type = "WRITE" /\ a[1] = "SENT_DATA" => heard
        /\ type = "WRITE" /\ a[1] = "WAITING_UNTIL_NOT_BUSY" => heard
        /\ type = "WRITE" /\ a[1] = "SUCCESS" => state = "WAITING_UNTIL_NOT_BUSY"
    <3>1. CASE type = "READ"
      BY <3>1 DEF Answers, Patient
    <3>2. CASE type = "WRITE"
      BY <3>2 DEF Answers, Patient
    <3>3. QED BY <3>1, <3>2 DEF TypeOK
  <2>4. CASE a[2] = "again"
    <3>1. run' > 0
      BY <2>1, <2>4 DEF Queued, TypeOK
    <3>2. QED BY <1>2, <2>1, <2>2, <2>3, <2>4, <3>1 DEF HandlerTurn
  <2>5. CASE a[2] = "complete"
    BY <1>2, <2>1, <2>2, <2>3, <2>5 DEF HandlerTurn
  <2>6. CASE a[2] = "fail"
    BY <1>2, <2>1, <2>2, <2>3, <2>6 DEF HandlerTurn
  <2>7. QED BY <2>2, <2>4, <2>5, <2>6
<1>3. CASE HandlerFinish
  <2>1. CASE bumped
    BY <1>3, <2>1 DEF HandlerFinish, Changed
  <2>2. CASE ~bumped
    BY <1>3, <2>2 DEF HandlerFinish, Changed
  <2>3. QED BY <2>1, <2>2
<1>4. CASE HandlerFail
  BY <1>4 DEF HandlerFail
<1>5. QED BY <1>1, <1>2, <1>3, <1>4 DEF Handler

LEMMA NextWrites == TypeOK /\ OnePlace /\ WInv /\ [Next]_vars => WInv'
<1> SUFFICES ASSUME TypeOK, OnePlace, WInv, [Next]_vars PROVE WInv'
  OBVIOUS
<1> USE DEF WInv, Alive, Channel, Stray, Fresh, Writing, Written, OnePlace, TaskHas, HandlerHas,
            cardVars, queueVars, msgVars, handlerVars, dmaVars
<1>1. CASE Transfer
  BY <1>1 DEF Transfer, TypeOK
<1>2. CASE CardChange
  <2>1. CASE present /\ pending
    BY <1>2, <2>1 DEF CardChange, Cancellable, Cancel
  <2>2. CASE ~(present /\ pending)
    BY <1>2, <2>2 DEF CardChange, Cancellable, Cancel, TypeOK
  <2>3. QED BY <2>1, <2>2
<1>3. CASE MountOk
  BY <1>3 DEF MountOk, TasksRun, Quiet, Stuck, TypeOK
<1>4. CASE Wait \/ Look \/ MountFail \/ Failed \/ Mounting \/ FMount \/ Mounted
  BY <1>4 DEF Wait, Look, MountFail, Failed, Mounting, FMount, Mounted
<1>5. CASE UNCHANGED vars
  BY <1>5 DEF vars
<1>6. QED
  BY <1>1, <1>2, <1>3, <1>4, <1>5, TaskWrites, HandlerWrites DEF Next, TaskStep, Automount

LEMMA WritesHold == Spec => []WInv
<1>1. Init => WInv
  BY DEF Init, WInv, Alive, Channel, Stray, Fresh, Writing, Written
<1>2. QED BY <1>1, TypeCorrect, MessageKept, NextWrites, PTL DEF Spec

(* A write is reported as done (__block_isr_state_machine, block.c:528-    *)
(* 558) only if the card was there to the end of its last transfer: the    *)
(* 0xff of an empty slot is never taken for "no longer busy".              *)
THEOREM WritesHaveCard == Spec => []WriteMeansCard
<1>1. WInv => WriteMeansCard
  BY DEF WInv, Written, WriteMeansCard
<1>2. QED BY <1>1, WritesHold, PTL

-----------------------------------------------------------------------------
(* A request on its way: RequestsReturn but for the fairness.              *)

(* The states in which a request may be found, by its type ...             *)
Asks ==
  IF type = "READ" THEN {"COMMAND_SENT", "LOOKING_FOR_BLOCK", "BLOCK_START_FOUND"}
  ELSE {"COMMAND_SENT", "SENT_DATA", "WAITING_UNTIL_NOT_BUSY"}

(* ... and the interrupt that will come for one that waits for it.         *)
OnItsWay ==
  /\ pending \/ opc = "send" \/ hpc \in {"turn", "again"} => state \in Asks
  /\ hpc = "again" \/ (pending /\ opc = "await") => ier

(* Who can take a step: the caller, if it may run, the interrupt or the DMA.*)
CallCan ==
  /\ TasksRun
  /\ \/ opc = "send" /\ ~pending
     \/ opc \in {"queue", "enable"}
     \/ opc = "await" /\ complete
HandlerCan ==
  \/ hpc = "out" /\ ier /\ run = 0
  \/ hpc = "turn" /\ (Usable => Answers # {})
  \/ hpc \in {"again", "complete", "fail"}
TransferCan == ten /\ run > 0

(* What an answer makes of the state of a request.                         *)
LEMMA AnswerAsks ==
  ASSUME TypeOK, NEW a \in Answers \cup {<<"TIMEOUT", "fail">>}, a[2] = "again"
  PROVE  a[1] \in Asks
<1>1. a \in Answers
  OBVIOUS
<1>2. CASE type = "READ"
  BY <1>1, <1>2 DEF Answers, Asks, Patient
<1>3. CASE type = "WRITE"
  BY <1>1, <1>3 DEF Answers, Asks, Patient
<1>4. QED BY <1>2, <1>3 DEF TypeOK

LEMMA NextOnItsWay ==
  ASSUME TypeOK, OnePlace, OnItsWay, [Next]_vars
  PROVE  OnItsWay'
<1> USE DEF OnItsWay, Asks, OnePlace, TaskHas, HandlerHas, queueVars, msgVars, handlerVars, dmaVars
<1>1. CASE Grant \/ Release \/ Check
  <2>1. opc' \notin {"send", "await"}
    BY <1>1 DEF Grant, Release, Check
  <2>2. UNCHANGED <<queueVars, msgVars, handlerVars, dmaVars>>
    BY <1>1 DEF Grant, Release, Check
  <2>3. QED BY <2>1, <2>2
<1>2. CASE BlockCall
  <2>1. CASE \E t \in {"READ", "WRITE"} : Take(t)
    BY <2>1 DEF Take
  <2>2. CASE SendPending \/ QueueBuffer
    BY <2>2 DEF SendPending, QueueBuffer
  <2>3. CASE Enable \/ Await
    BY <2>3 DEF Enable, Await
  <2>4. CASE Return
    BY <2>4 DEF Return
  <2>5. QED BY <1>2, <2>1, <2>2, <2>3, <2>4 DEF BlockCall
<1>3. CASE HandlerTake
  BY <1>3 DEF HandlerTake
<1>4. CASE HandlerTurn
  <2>1. PICK a \in Answers \cup {<<"TIMEOUT", "fail">>} :
          /\ state' = a[1] /\ hpc' = a[2]
          /\ a[2] = "again" => ier' = TRUE
    BY <1>4 DEF HandlerTurn
  <2>2. a[2] \in {"again", "complete", "fail"}
    BY AnswerTypes
  <2>3. a[2] = "again" => a[1] \in Asks
    BY AnswerAsks
  <2>4. /\ ~pending' /\ opc' # "send" /\ type' = type
    BY <1>4 DEF HandlerTurn
  <2>5. QED BY <2>1, <2>2, <2>3, <2>4
<1>5. CASE HandlerFinish
  <2>1. CASE bumped
    BY <1>5, <2>1 DEF HandlerFinish, Changed
  <2>2. CASE ~bumped
    BY <1>5, <2>2 DEF HandlerFinish, Changed
  <2>3. QED BY <2>1, <2>2
<1>6. CASE HandlerFail
  BY <1>6 DEF HandlerFail
<1>7. CASE Transfer
  BY <1>7 DEF Transfer
<1>8. CASE CardChange
  <2>1. CASE present /\ pending
    BY <1>8, <2>1 DEF CardChange, Cancellable, Cancel
  <2>2. CASE ~(present /\ pending)
    BY <1>8, <2>2 DEF CardChange, Cancellable
  <2>3. QED BY <2>1, <2>2
<1>9. CASE Automount
  BY <1>9 DEF Automount, Wait, Look, MountOk, MountFail, Failed, Mounting, FMount, Mounted
<1>10. CASE UNCHANGED vars
  BY <1>10 DEF vars
<1>11. QED BY <1>1, <1>2, <1>3, <1>4, <1>5, <1>6, <1>7, <1>8, <1>9, <1>10 DEF Next, Handler

LEMMA WaysHold == Spec => []OnItsWay
<1>1. Init => OnItsWay
  BY DEF Init, OnItsWay
<1>2. QED BY <1>1, TypeCorrect, MessageKept, NextOnItsWay, PTL DEF Spec

(* No request is ever stuck: as long as a caller of block_read or          *)
(* block_write has none of its answer, it, the interrupt or the DMA can go *)
(* on (the DMA unless its transfer is behind one that was stopped, which   *)
(* "leftover" says).                                                       *)
THEOREM RequestsGoOn ==
  Spec => [](Requested => CallCan \/ HandlerCan \/ TransferCan)
<1>1. ASSUME TypeOK, OnePlace, WInv, OnItsWay, Requested
      PROVE  CallCan \/ HandlerCan \/ TransferCan
  <2>1. CASE hpc # "out"
    <3>1. hpc = "turn" => Answers # {}
      <4>1. CASE type = "READ"
        BY <1>1, <4>1 DEF OnItsWay, Asks, Answers
      <4>2. CASE type = "WRITE"
        BY <1>1, <4>2 DEF OnItsWay, Asks, Answers
      <4>3. QED BY <1>1, <4>1, <4>2 DEF TypeOK
    <3>2. QED BY <1>1, <2>1, <3>1 DEF TypeOK, HandlerCan
  <2>2. CASE hpc = "out" /\ ier /\ run = 0
    BY <2>2 DEF HandlerCan
  <2>3. CASE hpc = "out" /\ ~(ier /\ run = 0)
    <3>1. TasksRun
      BY <2>3 DEF TasksRun
    <3>2. CASE opc = "send"
      BY <1>1, <3>1, <3>2 DEF OnePlace, TaskHas, CallCan
    <3>3. CASE opc \in {"queue", "enable"}
      BY <3>1, <3>3 DEF CallCan
    <3>4. CASE opc = "await"
      <4>1. complete \/ pending
        BY <1>1, <2>3, <3>4 DEF OnePlace, TaskHas, HandlerHas, WInv, Channel
      <4>2. CASE complete
        BY <3>1, <3>4, <4>2 DEF CallCan
      <4>3. CASE pending
        <5>1. ier /\ ten
          BY <1>1, <3>4, <4>3 DEF OnItsWay, WInv, Channel
        <5>2. run > 0
          BY <1>1, <2>3, <5>1 DEF TypeOK
        <5>3. QED BY <5>1, <5>2 DEF TransferCan
      <4>4. QED BY <4>1, <4>2, <4>3
    <3>5. QED BY <1>1, <3>2, <3>3, <3>4 DEF Requested
  <2>4. QED BY <2>1, <2>2, <2>3
<1>2. QED BY <1>1, TypeCorrect, MessageKept, WritesHold, WaysHold, PTL

(* The turns of the handler that the card can still make it take ...       *)
Turns ==
  CASE state = "COMMAND_SENT" -> NacMax + 3
    [] state = "SENT_DATA" -> NacMax + 2
    [] state = "LOOKING_FOR_BLOCK" -> NacMax - nac + 2
    [] state = "WAITING_UNTIL_NOT_BUSY" -> NacMax - nac + 1
    [] state = "BLOCK_START_FOUND" -> 1
    [] OTHER -> 0

(* ... and the steps that are left: the caller's, each of which may start  *)
(* the handler, those of the turns, the transfers and an interrupt.        *)
CardAhead ==
  CASE hpc = "turn" -> 8 * Turns + 2
    [] hpc = "again" -> 8 * Turns + 7
    [] hpc = "complete" -> 5
    [] hpc = "fail" -> 4
    [] hpc = "out" -> IF pending THEN 8 * Turns + 4 ELSE 0
CallAhead ==
  CASE opc = "send" -> 3 [] opc = "queue" -> 2 [] opc = "enable" -> 1 [] OTHER -> 0
StepsLeft == (8 * NacMax + 40) * CallAhead + CardAhead + run + (IF ier THEN 1 ELSE 0)
LEMMA TurnsAre ==
  ASSUME TypeOK
  PROVE  /\ Turns \in 0 .. NacMax + 3
         /\ state \in Asks => Turns > 0
<1>1. nac \in 0 .. NacMax /\ NacMax \in Nat /\ state \in States
  BY NacAssumption DEF TypeOK
<1>2. CASE state \in {"COMMAND_SENT", "SENT_DATA", "BLOCK_START_FOUND"}
  BY <1>1, <1>2 DEF Turns
<1>3. CASE state \in {"LOOKING_FOR_BLOCK", "WAITING_UNTIL_NOT_BUSY"}
  BY <1>1, <1>3 DEF Turns
<1>4. CASE state \notin {"COMMAND_SENT", "SENT_DATA", "BLOCK_START_FOUND",
                         "LOOKING_FOR_BLOCK", "WAITING_UNTIL_NOT_BUSY"}
  <2>1. Turns = 0
    BY <1>4 DEF Turns
  <2>2. state \notin Asks
    BY <1>4 DEF Asks
  <2>3. QED BY <1>1, <2>1, <2>2
<1>5. QED BY <1>2, <1>3, <1>4

LEMMA TurnsAreNext ==
  ASSUME TypeOK'
  PROVE  Turns' \in 0 .. NacMax + 3
<1>1. nac' \in 0 .. NacMax /\ NacMax \in Nat /\ state' \in States
  BY NacAssumption DEF TypeOK
<1>2. CASE state' \in {"COMMAND_SENT", "SENT_DATA", "BLOCK_START_FOUND"}
  BY <1>1, <1>2 DEF Turns
<1>3. CASE state' \in {"LOOKING_FOR_BLOCK", "WAITING_UNTIL_NOT_BUSY"}
  BY <1>1, <1>3 DEF Turns
<1>4. CASE state' \notin {"COMMAND_SENT", "SENT_DATA", "BLOCK_START_FOUND",
                          "LOOKING_FOR_BLOCK", "WAITING_UNTIL_NOT_BUSY"}
  <2>1. Turns' = 0
    BY <1>4 DEF Turns
  <2>2. QED BY <1>1, <2>1
<1>5. QED BY <1>2, <1>3, <1>4

(* An answer that makes the handler go on takes one of its turns.          *)
LEMMA TurnTaken ==
  ASSUME TypeOK, NEW a \in Answers, a[2] = "again", state' = a[1],
         nac' = IF a = <<state, "again">> THEN nac + 1 ELSE nac
  PROVE  Turns' < Turns
<1>1. nac \in 0 .. NacMax /\ NacMax \in Nat
  BY NacAssumption DEF TypeOK
<1>2. CASE type = "READ"
  <2>1. CASE state = "COMMAND_SENT"
    <3>1. state' \in {"LOOKING_FOR_BLOCK", "BLOCK_START_FOUND"} /\ nac' = nac
      BY <1>2, <2>1 DEF Answers
    <3>2. QED BY <1>1, <2>1, <3>1 DEF Turns
  <2>2. CASE state = "LOOKING_FOR_BLOCK"
    <3>1. \/ state' = "LOOKING_FOR_BLOCK" /\ nac' = nac + 1
          \/ state' = "BLOCK_START_FOUND"
      BY <1>2, <2>2 DEF Answers, Patient
    <3>2. QED BY <1>1, <2>2, <3>1 DEF Turns
  <2>3. QED BY <1>2, <2>1, <2>2 DEF Answers
<1>3. CASE type = "WRITE"
  <2>1. CASE state = "COMMAND_SENT"
    <3>1. state' = "SENT_DATA" /\ nac' = nac
      BY <1>3, <2>1 DEF Answers
    <3>2. QED BY <1>1, <2>1, <3>1 DEF Turns
  <2>2. CASE state = "SENT_DATA"
    <3>1. state' = "WAITING_UNTIL_NOT_BUSY" /\ nac' = nac
      BY <1>3, <2>2 DEF Answers
    <3>2. QED BY <1>1, <2>2, <3>1 DEF Turns
  <2>3. CASE state = "WAITING_UNTIL_NOT_BUSY"
    <3>1. state' = "WAITING_UNTIL_NOT_BUSY" /\ nac' = nac + 1
      BY <1>3, <2>3 DEF Answers, Patient
    <3>2. QED BY <1>1, <2>3, <3>1 DEF Turns
  <2>4. QED BY <1>3, <2>1, <2>2, <2>3 DEF Answers
<1>4. QED BY <1>2, <1>3 DEF TypeOK

LEMMA CardAheadIs ==
  /\ hpc = "turn" => CardAhead = 8 * Turns + 2
  /\ hpc = "again" => CardAhead = 8 * Turns + 7
  /\ hpc = "complete" => CardAhead = 5
  /\ hpc = "fail" => CardAhead = 4
  /\ hpc = "out" /\ pending => CardAhead = 8 * Turns + 4
  /\ hpc = "out" /\ ~pending => CardAhead = 0
BY DEF CardAhead

LEMMA CardAheadNext ==
  /\ hpc' = "turn" => CardAhead' = 8 * Turns' + 2
  /\ hpc' = "again" => CardAhead' = 8 * Turns' + 7
  /\ hpc' = "complete" => CardAhead' = 5
  /\ hpc' = "fail" => CardAhead' = 4
  /\ hpc' = "out" /\ pending' => CardAhead' = 8 * Turns' + 4
  /\ hpc' = "out" /\ ~pending' => CardAhead' = 0
BY DEF CardAhead, Turns

LEMMA AheadTypes ==
  ASSUME TypeOK
  PROVE  CardAhead \in Nat /\ Turns \in Nat
<1>1. Turns \in Nat
  BY TurnsAre, NacAssumption
<1>2. hpc \in {"out", "turn", "again", "complete", "fail"} /\ pending \in BOOLEAN
  BY DEF TypeOK
<1>3. QED BY <1>1, <1>2, CardAheadIs

LEMMA AheadTypesNext ==
  ASSUME TypeOK'
  PROVE  CardAhead' \in Nat /\ Turns' \in Nat
<1>1. Turns' \in Nat
  BY TurnsAreNext, NacAssumption
<1>2. hpc' \in {"out", "turn", "again", "complete", "fail"} /\ pending' \in BOOLEAN
  BY DEF TypeOK
<1>3. QED BY <1>1, <1>2, CardAheadNext

(* Each turn of the handler, and each transfer, is one less ...            *)
LEMMA HandlerNearer ==
  ASSUME TypeOK, TypeOK', OnePlace, OnItsWay, Handler \/ Transfer
  PROVE  CardAhead' + run' + (IF ier' THEN 1 ELSE 0) < CardAhead + run + (IF ier THEN 1 ELSE 0)
<1>1. PICK t \in Nat, c \in Nat, r \in Nat : t = Turns /\ c = CardAhead /\ r = run
  BY AheadTypes DEF TypeOK
<1>2. PICK t1 \in Nat, c1 \in Nat, r1 \in Nat : t1 = Turns' /\ c1 = CardAhead' /\ r1 = run'
  BY AheadTypesNext DEF TypeOK
<1>3. SUFFICES c1 + r1 + (IF ier' THEN 1 ELSE 0) < c + r + (IF ier THEN 1 ELSE 0)
  BY <1>1, <1>2
<1>4. ASSUME UNCHANGED <<state, nac>> PROVE t1 = t
  BY <1>1, <1>2, <1>4 DEF Turns
<1>5. CASE HandlerTake
  <2>1. /\ hpc = "out" /\ ier /\ ~ier' /\ r1 = r /\ t1 = t /\ ~pending'
        /\ hpc' = IF pending THEN "turn" ELSE "out"
    BY <1>1, <1>2, <1>4, <1>5 DEF HandlerTake, msgVars
  <2>2. CASE pending
    <3>1. c = 8 * t + 4 /\ c1 = 8 * t + 2
      BY <1>1, <1>2, <2>1, <2>2, CardAheadIs, CardAheadNext
    <3>2. QED BY <2>1, <3>1
  <2>3. CASE ~pending
    <3>1. c = 0 /\ c1 = 0
      BY <1>1, <1>2, <2>1, <2>3, CardAheadIs, CardAheadNext
    <3>2. QED BY <2>1, <3>1
  <2>4. QED BY <2>2, <2>3
<1>6. CASE HandlerTurn
  <2>1. PICK a \in Answers \cup {<<"TIMEOUT", "fail">>} :
          /\ state' = a[1] /\ hpc' = a[2]
          /\ IF a[2] = "again"
               THEN run' = Queued /\ ier' = TRUE /\ ten' = TRUE
               ELSE UNCHANGED <<run, ier, ten>>
          /\ nac' = IF a = <<state, "again">> THEN nac + 1 ELSE nac
    BY <1>6 DEF HandlerTurn
  <2>2. a[2] \in {"again", "complete", "fail"}
    BY AnswerTypes
  <2>3. c = 8 * t + 2 /\ t > 0
    BY <1>1, <1>6, CardAheadIs, TurnsAre DEF HandlerTurn, OnItsWay
  <2>4. CASE a[2] = "again"
    <3>1. a \in Answers
      BY <2>4
    <3>2. t1 < t
      BY <1>1, <1>2, <2>1, <2>4, <3>1, TurnTaken
    <3>3. c1 = 8 * t1 + 7
      BY <1>2, <2>1, <2>4, CardAheadNext
    <3>4. r1 <= r + 1
      BY <1>1, <1>2, <2>1, <2>4 DEF Queued
    <3>5. QED BY <2>3, <3>2, <3>3, <3>4
  <2>5. CASE a[2] # "again"
    <3>1. c1 <= 5 /\ r1 = r /\ ier' = ier
      BY <1>1, <1>2, <2>1, <2>2, <2>5, CardAheadNext
    <3>2. QED BY <2>3, <3>1
  <2>6. QED BY <2>4, <2>5
<1>7. CASE HandlerFinish
  <2>1. r1 = r /\ ier' = ier
    BY <1>1, <1>2, <1>7 DEF HandlerFinish, dmaVars
  <2>2. c >= 5
    BY <1>1, <1>7, CardAheadIs DEF HandlerFinish
  <2>3. CASE bumped
    <3>1. c1 = 4
      BY <1>2, <1>7, <2>3, CardAheadNext DEF HandlerFinish, Changed
    <3>2. QED BY <2>1, <2>2, <3>1
  <2>4. CASE ~bumped
    <3>1. hpc' = "out" /\ pending' = (hpc = "again") /\ t1 = t
      BY <1>4, <1>7, <2>4 DEF HandlerFinish, Changed
    <3>2. CASE hpc = "again"
      <4>1. c = 8 * t + 7 /\ c1 = 8 * t + 4
        BY <1>1, <1>2, <3>1, <3>2, CardAheadIs, CardAheadNext
      <4>2. QED BY <2>1, <4>1
    <3>3. CASE hpc # "again"
      <4>1. c1 = 0
        BY <1>2, <3>1, <3>3, CardAheadNext
      <4>2. QED BY <2>1, <2>2, <4>1
    <3>4. QED BY <3>2, <3>3
  <2>5. QED BY <2>3, <2>4
<1>8. CASE HandlerFail
  <2>1. hpc = "fail" /\ hpc' = "out" /\ ~pending' /\ r1 = r /\ ~ier'
    BY <1>1, <1>2, <1>8 DEF HandlerFail, OnePlace, HandlerHas
  <2>2. c = 4 /\ c1 = 0
    BY <1>1, <1>2, <2>1, CardAheadIs, CardAheadNext
  <2>3. QED BY <2>1, <2>2
<1>9. CASE Transfer
  <2>1. r1 = r - 1 /\ ier' = ier
    BY <1>1, <1>2, <1>9 DEF Transfer
  <2>2. UNCHANGED <<hpc, pending, state, nac>>
    BY <1>9 DEF Transfer, handlerVars, queueVars, msgVars
  <2>3. c1 = c
    BY <1>1, <1>2, <2>2 DEF CardAhead, Turns
  <2>4. QED BY <2>1, <2>3
<1>10. QED BY <1>5, <1>6, <1>7, <1>8, <1>9 DEF Handler

(* ... a step of the caller is worth all that it starts ...                *)
LEMMA CallerNearer ==
  ASSUME TypeOK, TypeOK', OnePlace, Requested, Requested', BlockCall
  PROVE  StepsLeft' < StepsLeft
<1>1. PICK c \in Nat, r \in Nat : c = CardAhead /\ r = run
  BY AheadTypes DEF TypeOK
<1>2. PICK t1 \in Nat, c1 \in Nat, r1 \in Nat : t1 = Turns' /\ c1 = CardAhead' /\ r1 = run'
  BY AheadTypesNext DEF TypeOK
<1>3. PICK b \in Nat : b = 8 * NacMax + 40
  BY NacAssumption
<1>4. PICK i \in 0 .. 1 : i = (IF ier THEN 1 ELSE 0)
  OBVIOUS
<1>5. PICK i1 \in 0 .. 1 : i1 = (IF ier' THEN 1 ELSE 0)
  OBVIOUS
<1>6. StepsLeft = b * CallAhead + c + r + i
  BY <1>1, <1>3, <1>4 DEF StepsLeft
<1>7. StepsLeft' = b * CallAhead' + c1 + r1 + i1
  BY <1>2, <1>3, <1>5 DEF StepsLeft
<1>8. ASSUME UNCHANGED <<hpc, pending, state, nac>> PROVE c1 = c
  BY <1>1, <1>2, <1>8 DEF CardAhead, Turns
<1>9. CASE SendPending
  <2>1. opc = "send" /\ opc' = "queue" /\ hpc' = "out" /\ pending' /\ r1 = r /\ i1 = i
    BY <1>1, <1>2, <1>4, <1>5, <1>9 DEF SendPending, TasksRun, handlerVars, dmaVars
  <2>2. CallAhead = 3 /\ CallAhead' = 2
    BY <2>1 DEF CallAhead
  <2>3. c1 = 8 * t1 + 4 /\ t1 <= NacMax + 3
    BY <1>2, <2>1, CardAheadNext, TurnsAreNext
  <2>4. c1 < b
    BY <1>3, <2>3, NacAssumption
  <2>5. StepsLeft = b * 3 + c + r + i /\ StepsLeft' = b * 2 + c1 + r + i
    BY <1>6, <1>7, <2>1, <2>2
  <2>6. QED BY <2>4, <2>5
<1>10. CASE QueueBuffer
  <2>1. opc = "queue" /\ opc' = "enable" /\ r1 <= r + 1 /\ i1 = i /\ c1 = c
    BY <1>1, <1>2, <1>4, <1>5, <1>8, <1>10 DEF QueueBuffer, Queued, queueVars, msgVars, handlerVars
  <2>2. CallAhead = 2 /\ CallAhead' = 1
    BY <2>1 DEF CallAhead
  <2>3. StepsLeft = b * 2 + c + r + i /\ StepsLeft' = b + c + r1 + i /\ b >= 40
    BY <1>3, <1>6, <1>7, <2>1, <2>2, NacAssumption
  <2>4. QED BY <2>1, <2>3
<1>11. CASE Enable
  <2>1. opc = "enable" /\ opc' = "await" /\ r1 = r /\ c1 = c
    BY <1>1, <1>2, <1>8, <1>11 DEF Enable, queueVars, msgVars, handlerVars
  <2>2. CallAhead = 1 /\ CallAhead' = 0
    BY <2>1 DEF CallAhead
  <2>3. StepsLeft = b + c + r + i /\ StepsLeft' = c + r + i1 /\ b >= 40
    BY <1>3, <1>6, <1>7, <2>1, <2>2, NacAssumption
  <2>4. QED BY <2>3
<1>12. QED BY <1>9, <1>10, <1>11 DEF BlockCall, Take, Await, Return, Requested

(* ... and the slot and the automount task put nothing in its way.         *)
LEMMA OthersNotFurther ==
  ASSUME TypeOK, TypeOK', OnePlace, Requested, [Next]_vars, ~(BlockCall \/ Handler \/ Transfer)
  PROVE  StepsLeft' <= StepsLeft
<1>1. PICK c \in Nat, r \in Nat : c = CardAhead /\ r = run
  BY AheadTypes DEF TypeOK
<1>2. PICK c1 \in Nat : c1 = CardAhead'
  BY AheadTypesNext
<1>3. UNCHANGED <<opc, run, nac, hpc>>
  BY DEF Next, Grant, Release, Check, Requested, Automount, Wait, Look, MountOk, MountFail, Failed,
     Mounting, FMount, Mounted, CardChange, vars, msgVars, handlerVars, dmaVars
<1>4. UNCHANGED <<pending, ier, state>> \/ (pending /\ ~pending' /\ ~ier')
  BY DEF Next, Grant, Release, Check, Requested, Automount, Wait, Look, MountOk, MountFail, Failed,
     Mounting, FMount, Mounted, CardChange, Cancellable, Cancel, vars, queueVars, msgVars, dmaVars
<1>5. c1 <= c
  <2>1. CASE UNCHANGED <<pending, ier, state>>
    <3>1. c1 = c
      BY <1>1, <1>2, <1>3, <2>1 DEF CardAhead, Turns
    <3>2. QED BY <3>1
  <2>2. CASE pending /\ ~pending'
    <3>1. hpc' = "out"
      BY <1>3, <2>2 DEF OnePlace, HandlerHas
    <3>2. c1 = 0
      BY <1>2, <2>2, <3>1, CardAheadNext
    <3>3. QED BY <3>2
  <2>3. QED BY <1>4, <2>1, <2>2
<1>6. PICK x \in Nat : x = (8 * NacMax + 40) * CallAhead /\ x = (8 * NacMax + 40) * CallAhead'
  <2>1. CallAhead' = CallAhead /\ CallAhead \in Nat
    BY <1>3 DEF CallAhead
  <2>2. (8 * NacMax + 40) * CallAhead \in Nat
    <3>1. PICK b \in Nat : b = 8 * NacMax + 40
      BY NacAssumption
    <3>2. b * CallAhead \in Nat
      BY <2>1
    <3>3. QED BY <3>1, <3>2
  <2>3. QED BY <2>1, <2>2
<1>7. (IF ier' THEN 1 ELSE 0) <= (IF ier THEN 1 ELSE 0)
  BY <1>4
<1>8. StepsLeft = x + c + r + (IF ier THEN 1 ELSE 0)
  BY <1>1, <1>6 DEF StepsLeft
<1>9. StepsLeft' = x + c1 + r + (IF ier' THEN 1 ELSE 0)
  BY <1>1, <1>2, <1>3, <1>6 DEF StepsLeft
<1>10. QED BY <1>5, <1>7, <1>8, <1>9

(* No request goes round in circles: each step of its caller, of the       *)
(* interrupt and of the DMA brings a request nearer to its answer, and no  *)
(* removal, insertion or mount takes it further away: an answer comes      *)
(* after a number of steps that NacMax bounds.                             *)
THEOREM RequestsGetNearer ==
  Spec => [][Requested /\ Requested' =>
               /\ StepsLeft' \in Nat
               /\ IF BlockCall \/ Handler \/ Transfer THEN StepsLeft' < StepsLeft
                  ELSE StepsLeft' <= StepsLeft]_vars
<1>1. ASSUME TypeOK, TypeOK', OnePlace, OnItsWay, [Next]_vars
      PROVE  [Requested /\ Requested' =>
               /\ StepsLeft' \in Nat
               /\ IF BlockCall \/ Handler \/ Transfer THEN StepsLeft' < StepsLeft
                  ELSE StepsLeft' <= StepsLeft]_vars
  <2>1. SUFFICES ASSUME Requested, Requested'
                 PROVE  /\ StepsLeft' \in Nat
                        /\ BlockCall \/ Handler \/ Transfer => StepsLeft' < StepsLeft
                        /\ ~(BlockCall \/ Handler \/ Transfer) => StepsLeft' <= StepsLeft
    OBVIOUS
  <2>2. PICK x \in Nat : x = (8 * NacMax + 40) * CallAhead
    <3>1. PICK b \in Nat : b = 8 * NacMax + 40
      BY NacAssumption
    <3>2. CallAhead \in Nat
      BY DEF CallAhead
    <3>3. b * CallAhead \in Nat
      BY <3>2
    <3>4. QED BY <3>1, <3>3
  <2>3. StepsLeft' \in Nat
    <3>1. PICK b \in Nat : b = 8 * NacMax + 40
      BY NacAssumption
    <3>2. PICK k \in Nat : k = CallAhead'
      BY DEF CallAhead
    <3>3. b * CallAhead' \in Nat
      <4>1. b * k \in Nat
        OBVIOUS
      <4>2. QED BY <3>2, <4>1
    <3>4. CardAhead' \in Nat /\ run' \in Nat
      BY <1>1, AheadTypesNext DEF TypeOK
    <3>5. StepsLeft' = b * CallAhead' + CardAhead' + run' + (IF ier' THEN 1 ELSE 0)
      BY <3>1 DEF StepsLeft
    <3>6. QED BY <3>3, <3>4, <3>5
  <2>4. ASSUME Handler \/ Transfer PROVE StepsLeft' < StepsLeft
    <3>1. CallAhead' = CallAhead
      BY <2>4 DEF CallAhead, Handler, HandlerTake, HandlerTurn, HandlerFinish, HandlerFail, Transfer
    <3>2. PICK y \in Nat : y = CardAhead + run + (IF ier THEN 1 ELSE 0)
      <4>1. CardAhead \in Nat /\ run \in Nat
        BY <1>1, AheadTypes DEF TypeOK
      <4>2. QED BY <4>1
    <3>3. PICK y1 \in Nat : y1 = CardAhead' + run' + (IF ier' THEN 1 ELSE 0)
      <4>1. PICK c1 \in Nat, r1 \in Nat : c1 = CardAhead' /\ r1 = run'
        BY <1>1, AheadTypesNext DEF TypeOK
      <4>2. PICK i1 \in Nat : i1 = (IF ier' THEN 1 ELSE 0)
        OBVIOUS
      <4>3. c1 + r1 + i1 \in Nat
        OBVIOUS
      <4>4. QED BY <4>1, <4>2, <4>3
    <3>4. y1 < y
      BY <1>1, <2>4, <3>2, <3>3, HandlerNearer
    <3>5. StepsLeft = x + y
      <4>1. CardAhead \in Nat /\ run \in Nat
        BY <1>1, AheadTypes DEF TypeOK
      <4>2. QED BY <2>2, <3>2, <4>1 DEF StepsLeft
    <3>6. StepsLeft' = x + y1
      <4>1. CardAhead' \in Nat /\ run' \in Nat
        BY <1>1, AheadTypesNext DEF TypeOK
      <4>2. x = (8 * NacMax + 40) * CallAhead'
        BY <2>2, <3>1
      <4>3. QED BY <3>3, <4>1, <4>2 DEF StepsLeft
    <3>7. QED BY <3>4, <3>5, <3>6
  <2>5. ASSUME BlockCall PROVE StepsLeft' < StepsLeft
    BY <1>1, <2>1, <2>5, CallerNearer
  <2>6. ASSUME ~(BlockCall \/ Handler \/ Transfer) PROVE StepsLeft' <= StepsLeft
    BY <1>1, <2>1, <2>6, OthersNotFurther
  <2>7. QED BY <2>3, <2>4, <2>5, <2>6
<1>2. QED BY <1>1, TypeCorrect, MessageKept, WaysHold, PTL DEF Spec
=============================================================================
