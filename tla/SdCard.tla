------------------------------- MODULE SdCard -------------------------------
(***************************************************************************)
(* src/library/memcard/src: block.c (a read or a write of a sector by DMA, *)
(* driven by the interrupt of the end of each transfer), memcard.c (the    *)
(* interrupt of the card slot and the automount task) and the lock of      *)
(* glue.c.  FatFs is external: one operation at a time, which calls the    *)
(* block layer any number of times and ends at its first error.            *)
(*                                                                         *)
(* The magic number is compared for equality only: "current" says that the *)
(* number of the mounted volume is the present one, "bumped" that it       *)
(* changed since the handler took the message.  The sensor of the slot is  *)
(* taken to be stable until its interrupt is served.  __mc_mount is an     *)
(* outcome; the card has been set up with it ("ready") if it succeeds.     *)
(***************************************************************************)
EXTENDS Naturals

CONSTANTS
  NacMax   (* transfers without an answer before the card has timed out     *)

ASSUME NacAssumption == NacMax \in Nat

States == {"COMMAND_SENT", "LOOKING_FOR_BLOCK", "BLOCK_START_FOUND", "SENT_DATA",
           "WAITING_UNTIL_NOT_BUSY", "SUCCESS", "ERROR", "TIMEOUT"}
CardStatuses == {"REMOVED", "INSERTED", "MOUNTING", "MOUNTED", "UNUSABLE"}

VARIABLES
  present, ready,            (* a card is in the slot; and is initialised   *)
  status, given,             (* __card_status; __card_state_change          *)
  current,                   (* the mounted volume is of this insertion     *)
  mpc,                       (* __automount_task                            *)
  opc,                       (* the FatFs operation and its block call      *)
  idle, pending, complete,   (* the three queues of the one message         *)
  type, state, nac,          (* the message                                 *)
  hpc, bumped,               (* __block_handler                             *)
  run, ten, ier,             (* the DMA: transfers queued, enabled; its interrupt *)
  heard,                     (* the card was ready as the last one ended    *)
  leftover                   (* a transfer was stopped and left in the DMA  *)

cardVars == <<present, ready, status, given, current, mpc>>
queueVars == <<idle, pending, complete>>
msgVars == <<type, state, nac>>
handlerVars == <<hpc, bumped>>
dmaVars == <<run, ten, ier, heard, leftover>>
vars == <<cardVars, opc, queueVars, msgVars, handlerVars, dmaVars>>

(* mc_init, block_init, and the start of the automount task.               *)
Init ==
  /\ present \in BOOLEAN /\ ready = FALSE
  /\ status = "REMOVED" /\ given = present /\ current = FALSE
  /\ mpc = "wait" /\ opc = "out"
  /\ idle = TRUE /\ pending = FALSE /\ complete = FALSE
  /\ type = "READ" /\ state = "COMMAND_SENT" /\ nac = 0
  /\ hpc = "out" /\ bumped = FALSE
  /\ run = 0 /\ ten = FALSE /\ ier = FALSE /\ heard = FALSE /\ leftover = FALSE

-----------------------------------------------------------------------------
(* One processor: no task runs while the interrupt handler runs or is due. *)
TasksRun == hpc = "out" /\ ~(ier /\ run = 0)

(* A FatFs operation and its calls of block_read and block_write.          *)

(* ff_req_grant: only for a volume mounted since the card last changed.    *)
Grant ==
  /\ TasksRun /\ opc = "out" /\ current
  /\ opc' = "op"
  /\ UNCHANGED <<cardVars, queueVars, msgVars, handlerVars, dmaVars>>

Release ==
  /\ TasksRun /\ opc \in {"op", "failed"}
  /\ opc' = "out"
  /\ UNCHANGED <<cardVars, queueVars, msgVars, handlerVars, dmaVars>>

Usable == status \in {"MOUNTING", "MOUNTED"}

Check ==
  /\ TasksRun /\ opc = "op"
  /\ opc' = IF Usable THEN "take" ELSE "failed"
  /\ UNCHANGED <<cardVars, queueVars, msgVars, handlerVars, dmaVars>>

Take(t) ==
  /\ TasksRun /\ opc = "take" /\ idle
  /\ idle' = FALSE
  /\ type' = t /\ state' = "COMMAND_SENT" /\ nac' = 0
  /\ opc' = "send"
  /\ UNCHANGED <<cardVars, pending, complete, handlerVars, dmaVars>>

SendPending ==
  /\ TasksRun /\ opc = "send" /\ ~pending
  /\ pending' = TRUE /\ opc' = "queue"
  /\ UNCHANGED <<cardVars, idle, complete, msgVars, handlerVars, dmaVars>>

(* pdca_queue_buffer: behind what the channel still has; a full channel    *)
(* refuses, which __block_isr_send_command ignores.                        *)
Queued == IF run < 2 THEN run + 1 ELSE run

QueueBuffer ==
  /\ TasksRun /\ opc = "queue"
  /\ run' = Queued /\ opc' = "enable"
  /\ UNCHANGED <<cardVars, queueVars, msgVars, handlerVars, ten, ier, heard, leftover>>

Enable ==
  /\ TasksRun /\ opc = "enable"
  /\ ier' = TRUE /\ ten' = TRUE /\ opc' = "await"
  /\ UNCHANGED <<cardVars, queueVars, msgVars, handlerVars, run, heard, leftover>>

Await ==
  /\ TasksRun /\ opc = "await" /\ complete
  /\ complete' = FALSE /\ opc' = "have"
  /\ UNCHANGED <<cardVars, idle, pending, msgVars, handlerVars, dmaVars>>

(* A read is checked by its CRC: what was not sent by the card fails.      *)
Ok == state = "SUCCESS" /\ (type = "WRITE" \/ heard)

Return ==
  /\ TasksRun /\ opc = "have" /\ ~idle
  /\ idle' = TRUE
  /\ opc' = IF Ok THEN "op" ELSE "failed"
  /\ UNCHANGED <<cardVars, pending, complete, msgVars, handlerVars, dmaVars>>

BlockCall == (\E t \in {"READ", "WRITE"} : Take(t)) \/ SendPending \/ QueueBuffer \/ Enable
               \/ Await \/ Return

-----------------------------------------------------------------------------
(* __block_handler.  Only the interrupt of the slot interrupts it.         *)

(* The end of all transfers: the channel is disabled, then the message is  *)
(* received, if there is one, and the magic number read with it.           *)
HandlerTake ==
  /\ hpc = "out" /\ ier /\ run = 0
  /\ ten' = FALSE /\ ier' = FALSE
  /\ pending' = FALSE
  /\ hpc' = IF pending THEN "turn" ELSE "out"
  /\ bumped' = FALSE
  /\ UNCHANGED <<cardVars, opc, idle, complete, msgVars, run, heard, leftover>>

(* The card has more time.                                                 *)
Patient == nac < NacMax

(* __block_isr_state_machine: what the bytes of the last transfer may      *)
(* lead to.  Without a card that answers they are all 0xff: no response,   *)
(* no start of a block, no acceptance, but also not busy.                  *)
Answers ==
  CASE type = "READ" /\ state = "COMMAND_SENT" ->
         {<<"TIMEOUT", "fail">>}
           \cup IF heard THEN {"LOOKING_FOR_BLOCK", "BLOCK_START_FOUND"} \X {"again"} ELSE {}
    [] type = "READ" /\ state = "LOOKING_FOR_BLOCK" ->
         {IF Patient THEN <<"LOOKING_FOR_BLOCK", "again">> ELSE <<"TIMEOUT", "fail">>}
           \cup IF heard THEN {<<"BLOCK_START_FOUND", "again">>, <<"SUCCESS", "complete">>} ELSE {}
    [] type = "READ" /\ state = "BLOCK_START_FOUND" ->
         {<<"SUCCESS", "complete">>}
    [] type = "WRITE" /\ state = "COMMAND_SENT" ->
         {<<"TIMEOUT", "fail">>} \cup IF heard THEN {<<"SENT_DATA", "again">>} ELSE {}
    [] type = "WRITE" /\ state = "SENT_DATA" ->
         {<<"ERROR", "fail">>} \cup IF heard THEN {<<"WAITING_UNTIL_NOT_BUSY", "again">>} ELSE {}
    [] type = "WRITE" /\ state = "WAITING_UNTIL_NOT_BUSY" ->
         {<<"SUCCESS", "complete">>}
           \cup IF ~heard THEN {}
                ELSE {IF Patient THEN <<"WAITING_UNTIL_NOT_BUSY", "again">> ELSE <<"TIMEOUT", "fail">>}
    [] OTHER -> {}

(* One turn; "again" has started the next transfer.                        *)
HandlerTurn ==
  /\ hpc = "turn"
  /\ \E a \in (IF Usable THEN Answers ELSE {<<"TIMEOUT", "fail">>}) :
       /\ state' = a[1] /\ hpc' = a[2]
       /\ IF a[2] = "again"
            THEN run' = Queued /\ ier' = TRUE /\ ten' = TRUE
            ELSE UNCHANGED <<run, ier, ten>>
       /\ nac' = IF a = <<state, "again">> THEN nac + 1 ELSE nac
  /\ UNCHANGED <<cardVars, opc, queueVars, type, bumped, heard, leftover>>

(* "The card was removed, bail": the magic number is not what it was; the  *)
(* mutant does not look.                                                   *)
ChangedNever == FALSE
Changed == bumped

HandlerFinish ==
  /\ hpc \in {"again", "complete"}
  /\ IF Changed
       THEN hpc' = "fail" /\ state' = "TIMEOUT" /\ UNCHANGED <<pending, complete>>
       ELSE /\ hpc' = "out" /\ UNCHANGED state
            /\ pending' = (hpc = "again") /\ complete' = (hpc = "complete")
  /\ UNCHANGED <<cardVars, opc, idle, type, nac, bumped, dmaVars>>

(* The end of timeout_failure and error.  __block_isr_disable_transfer     *)
(* stops the transfer but, unlike pdca_disable, leaves its count.          *)
HandlerFail ==
  /\ hpc = "fail"
  /\ ten' = FALSE /\ ier' = FALSE /\ leftover' = (leftover \/ run > 0)
  /\ complete' = TRUE /\ hpc' = "out"
  /\ UNCHANGED <<cardVars, opc, idle, pending, msgVars, bumped, run, heard>>

Handler == HandlerTake \/ HandlerTurn \/ HandlerFinish \/ HandlerFail

(* The DMA ends a transfer and goes on to the next.                        *)
Transfer ==
  /\ ten /\ run > 0
  /\ run' = run - 1 /\ heard' = ready
  /\ leftover' = (leftover /\ run > 1)
  /\ UNCHANGED <<cardVars, opc, queueVars, msgVars, handlerVars, ten, ier>>

-----------------------------------------------------------------------------
(* The slot: __card_change and block_isr_cancel.                           *)

(* Only a message that waits is cancelled: one the handler holds is        *)
(* failed by it.  The mutant cancels it wherever it is.                    *)
CancellableAlways == TRUE
Cancellable == pending

Cancel == pending' = FALSE /\ state' = "TIMEOUT" /\ ier' = FALSE /\ complete' = TRUE

(* The mutant gives the semaphore for a removal only.                      *)
GiveRemoved == given' = (given \/ present)
Give == given' = TRUE

CardChange ==
  /\ present' = ~present /\ ready' = FALSE
  /\ bumped' = (hpc # "out") /\ current' = FALSE
  /\ Give
  /\ IF present /\ Cancellable THEN Cancel ELSE UNCHANGED <<pending, state, ier, complete>>
  /\ UNCHANGED <<status, mpc, opc, idle, type, nac, hpc, run, ten, heard, leftover>>

-----------------------------------------------------------------------------
(* __automount_task                                                        *)

Wait ==
  /\ TasksRun /\ mpc = "wait" /\ given
  /\ given' = FALSE /\ mpc' = "look"
  /\ UNCHANGED <<present, ready, status, current, opc, queueVars, msgVars, handlerVars, dmaVars>>

Look ==
  /\ TasksRun /\ mpc = "look"
  /\ status' = IF present THEN "INSERTED" ELSE "REMOVED"
  /\ mpc' = IF present THEN "mount" ELSE "wait"
  /\ UNCHANGED <<present, ready, given, current, opc, queueVars, msgVars, handlerVars, dmaVars>>

(* __mc_mount waits 250 ms before it uses the card: what the last card     *)
(* left has ended by then, unless it is stuck behind a stopped transfer.   *)
Stuck == leftover /\ opc = "await" /\ ~complete /\ hpc = "out"
Quiet == Stuck \/ (opc = "out" /\ hpc = "out" /\ ~(ten /\ run > 0))

MountOk ==
  /\ TasksRun /\ mpc = "mount" /\ present /\ Quiet
  /\ ready' = TRUE /\ mpc' = "mounting"
  /\ UNCHANGED <<present, status, given, current, opc, queueVars, msgVars, handlerVars, dmaVars>>

MountFail ==
  /\ TasksRun /\ mpc = "mount"
  /\ mpc' = "failed"
  /\ UNCHANGED <<present, ready, status, given, current, opc, queueVars, msgVars, handlerVars, dmaVars>>

(* "The card may have been removed during initialization."                 *)
Failed ==
  /\ TasksRun /\ mpc = "failed"
  /\ status' = IF present THEN "UNUSABLE" ELSE status
  /\ mpc' = "wait"
  /\ UNCHANGED <<present, ready, given, current, opc, queueVars, msgVars, handlerVars, dmaVars>>

Mounting ==
  /\ TasksRun /\ mpc = "mounting"
  /\ status' = "MOUNTING" /\ mpc' = "fmount"
  /\ UNCHANGED <<present, ready, given, current, opc, queueVars, msgVars, handlerVars, dmaVars>>

(* f_mount and its ff_cre_syncobj, which do not touch the card.            *)
FMount ==
  /\ TasksRun /\ mpc = "fmount"
  /\ current' = TRUE /\ mpc' = "mounted"
  /\ UNCHANGED <<present, ready, status, given, opc, queueVars, msgVars, handlerVars, dmaVars>>

Mounted ==
  /\ TasksRun /\ mpc = "mounted"
  /\ status' = "MOUNTED" /\ mpc' = "wait"
  /\ UNCHANGED <<present, ready, given, current, opc, queueVars, msgVars, handlerVars, dmaVars>>

Automount == Wait \/ Look \/ MountOk \/ MountFail \/ Failed \/ Mounting \/ FMount \/ Mounted

-----------------------------------------------------------------------------
Next == Grant \/ Release \/ Check \/ BlockCall \/ Handler \/ Transfer \/ CardChange \/ Automount

Spec == Init /\ [][Next]_vars

(* A call once begun runs on and interrupts are taken.  A transfer ends,   *)
(* unless it is queued behind one that was stopped: the bytes that are     *)
(* missing there may never come.  Of the card nothing is assumed.          *)
FairSpec ==
  Spec /\ WF_vars(BlockCall) /\ WF_vars(Handler) /\ WF_vars(Transfer /\ ~leftover)

-----------------------------------------------------------------------------
(* Properties.                                                             *)

TypeOK ==
  /\ {present, ready, given, current, idle, pending, complete, bumped, ten, ier, heard, leftover}
       \subseteq BOOLEAN
  /\ status \in CardStatuses
  /\ mpc \in {"wait", "look", "mount", "failed", "mounting", "fmount", "mounted"}
  /\ opc \in {"out", "op", "failed", "take", "send", "queue", "enable", "await", "have"}
  /\ type \in {"READ", "WRITE"} /\ state \in States /\ nac \in 0..NacMax
  /\ hpc \in {"out", "turn", "again", "complete", "fail"}
  /\ run \in 0..2

TaskHas == opc \in {"send", "have"}
HandlerHas == hpc # "out"

(* The one message is in exactly one place, whenever the card goes: a      *)
(* request is answered once, and the queues of one place have room.        *)
OnePlace ==
  /\ idle \/ pending \/ complete \/ TaskHas \/ HandlerHas
  /\ idle => ~(pending \/ complete \/ TaskHas \/ HandlerHas)
  /\ pending => ~(complete \/ TaskHas \/ HandlerHas)
  /\ complete => ~(TaskHas \/ HandlerHas)
  /\ TaskHas => ~HandlerHas

(* A write reported as done ended with a card that was there: 0xff from    *)
(* an empty slot is not taken for "no longer busy".                        *)
WriteMeansCard == opc = "have" /\ type = "WRITE" /\ state = "SUCCESS" => heard

(* Whenever the automount task sleeps with nothing to look at, the status  *)
(* is that of the slot, and a mounted card is one that was initialised and *)
(* whose volume FatFs may use, whatever came and went during the mount.    *)
Settled ==
  mpc = "wait" /\ ~given =>
    \/ ~present /\ status = "REMOVED"
    \/ present /\ status = "UNUSABLE"
    \/ present /\ status = "MOUNTED" /\ ready /\ current

Requested == opc \in {"send", "queue", "enable", "await"}

(* Every block call comes back, also if the card goes at any point of it;  *)
(* except behind a transfer that was stopped and left in the channel.      *)
RequestsReturn == Requested ~> (~Requested \/ leftover)
=============================================================================
