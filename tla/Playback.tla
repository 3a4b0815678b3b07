------------------------------ MODULE Playback ------------------------------
(***************************************************************************)
(* src/library/playback/src/playback.c: a task that plays one song at a    *)
(* time, commanded through a fixed pool of messages.  A caller takes a     *)
(* message from __cmd_idle, fills it and sends it to __cmd_active; the     *)
(* task answers it through its callback and sends it back to __cmd_idle.   *)
(* While a song plays the decoder polls __continue_decoding, which looks   *)
(* at the head of __cmd_active without removing what it cannot absorb.     *)
(*                                                                         *)
(* The decoder itself (media_play_fn_t) is external: it polls, and it      *)
(* returns at the end of the song, on an error, or after a poll said no.   *)
(* A callback may block: it posts into a bounded mailbox of its listener.  *)
(***************************************************************************)
EXTENDS Integers, Sequences, FiniteSets, SequencesExt

CONSTANTS
  Msgs,        (* __commands: the PB_COMMAND_MSG_MAX message buffers        *)
  Clients,     (* the tasks that call playback_play and playback_command    *)
  Commands,    (* the arguments of playback_command the clients use         *)
  CbChoices,   (* whether the clients pass a callback: a subset of BOOLEAN  *)
  TxMod,       (* __tx_id is a uint16_t: 2^16, smaller in the runs          *)
  HeardMax,    (* capacity of the mailbox the callback posts into           *)
  Nil          (* a pointer to no message                                   *)

ASSUME PoolAssumption == IsFiniteSet(Msgs) /\ Nil \notin Msgs
ASSUME CommandAssumption == Commands \subseteq {"RESUME", "PAUSE", "STOP", "INVALID"}
ASSUME CallbackAssumption == CbChoices \subseteq BOOLEAN
ASSUME TxAssumption == TxMod \in Nat \ {0}
ASSUME HeardAssumption == HeardMax \in Nat \ {0}

PB_COMMAND_MSG_MAX == Cardinality(Msgs)

VARIABLES
  cmd_idle, cmd_active,   (* the two queues of message pointers             *)
  msg,                    (* the contents of each message buffer            *)
  tx_id,                  (* __tx_id                                        *)
  cpc, hold, tx_temp, ret,(* per client: where it is in its call, the       *)
                          (* message in its hands, the id it read, the      *)
                          (* value its last call returned                   *)
  pc, cur, ctl,           (* the task: where it is, the song's message,     *)
                          (* the command being answered                     *)
  heard,                  (* callbacks made and not yet consumed            *)
  leaked                  (* messages no code can reach any more            *)

clientVars == <<cpc, hold, tx_temp, ret>>
taskVars == <<pc, cur, ctl>>
vars == <<cmd_idle, cmd_active, msg, tx_id, clientVars, taskVars, heard, leaked>>

TxIds == 0 .. TxMod - 1
Statuses == {"PLAYING", "PAUSED", "STOPPED", "END_OF_SONG", "ERROR"}
(* file: the message owns a malloc'ed copy of the file name.               *)
Contents == [cmd : {"PLAY", "RESUME", "PAUSE", "STOP"}, tx : TxIds, cb : BOOLEAN, file : BOOLEAN]
Zeroed == [cmd |-> "PLAY", tx |-> 0, cb |-> FALSE, file |-> FALSE]

(* __tx_id++ on 16 bits.                                                   *)
NextTx(t) == (t + 1) % TxMod

(* playback_init: every message is idle, the task waits for a command.     *)
Init ==
  /\ cmd_idle \in SetToSeqs(Msgs)
  /\ cmd_active = <<>>
  /\ msg = [m \in Msgs |-> Zeroed]
  /\ tx_id = 0
  /\ cpc = [c \in Clients |-> "out"]
  /\ hold = [c \in Clients |-> Nil]
  /\ tx_temp = [c \in Clients |-> 0]
  /\ ret = [c \in Clients |-> -1]
  /\ pc = "idle" /\ cur = Nil /\ ctl = Nil
  /\ heard = <<>>
  /\ leaked = {}

-----------------------------------------------------------------------------
(* The callers.                                                            *)

(* playback_play: receive a message from __cmd_idle, blocking while there  *)
(* is none, and make it a PLAY.  (A NULL file name returns -1 untouched.)  *)
PlayTake(c, cb) ==
  /\ cpc[c] = "out" /\ cmd_idle # <<>>
  /\ hold' = [hold EXCEPT ![c] = Head(cmd_idle)]
  /\ cmd_idle' = Tail(cmd_idle)
  /\ msg' = [msg EXCEPT ![Head(cmd_idle)].cmd = "PLAY", ![Head(cmd_idle)].cb = cb]
  /\ cpc' = [cpc EXCEPT ![c] = "load"]
  /\ UNCHANGED <<cmd_active, tx_id, tx_temp, ret, taskVars, heard, leaked>>

(* playback_command: the same receive, then memset and the command.        *)
CommandTake(c, k, cb) ==
  /\ cpc[c] = "out" /\ cmd_idle # <<>> /\ k # "INVALID"
  /\ hold' = [hold EXCEPT ![c] = Head(cmd_idle)]
  /\ cmd_idle' = Tail(cmd_idle)
  /\ msg' = [msg EXCEPT ![Head(cmd_idle)] = [cmd |-> k, tx |-> 0, cb |-> cb, file |-> FALSE]]
  /\ cpc' = [cpc EXCEPT ![c] = "load"]
  /\ UNCHANGED <<cmd_active, tx_id, tx_temp, ret, taskVars, heard, leaked>>

(* The default branch returns -1 after the receive: the message is in no   *)
(* queue and nobody holds it any more.                                     *)
CommandInvalid(c) ==
  /\ cpc[c] = "out" /\ cmd_idle # <<>> /\ "INVALID" \in Commands
  /\ leaked' = leaked \cup {Head(cmd_idle)}
  /\ cmd_idle' = Tail(cmd_idle)
  /\ ret' = [ret EXCEPT ![c] = -1]
  /\ UNCHANGED <<cmd_active, msg, tx_id, cpc, hold, tx_temp, taskVars, heard>>

(* cmd->tx_id = __tx_id++ is a load and a store: two callers may interleave *)
LoadTx(c) ==
  /\ cpc[c] = "load"
  /\ tx_temp' = [tx_temp EXCEPT ![c] = tx_id]
  /\ cpc' = [cpc EXCEPT ![c] = "store"]
  /\ UNCHANGED <<cmd_idle, cmd_active, msg, tx_id, hold, ret, taskVars, heard, leaked>>

(* ... and, for a PLAY, the malloc of the file name, which may fail.       *)
StoreTx(c) ==
  /\ cpc[c] = "store"
  /\ tx_id' = NextTx(tx_temp[c])
  /\ \E got \in IF msg[hold[c]].cmd = "PLAY" THEN BOOLEAN ELSE {FALSE} :
       /\ msg' = [msg EXCEPT ![hold[c]].tx = tx_temp[c], ![hold[c]].file = got]
       /\ cpc' = [cpc EXCEPT ![c] =
                    IF msg[hold[c]].cmd = "PLAY" /\ ~got THEN "giveback" ELSE "send"]
  /\ UNCHANGED <<cmd_idle, cmd_active, hold, tx_temp, ret, taskVars, heard, leaked>>

(* Out of memory: the message goes back and the call returns -1.           *)
GiveBack(c) ==
  /\ cpc[c] = "giveback" /\ Len(cmd_idle) < PB_COMMAND_MSG_MAX
  /\ cmd_idle' = Append(cmd_idle, hold[c])
  /\ msg' = [msg EXCEPT ![hold[c]] = Zeroed]
  /\ tx_temp' = [tx_temp EXCEPT ![c] = 0]
  /\ hold' = [hold EXCEPT ![c] = Nil]
  /\ ret' = [ret EXCEPT ![c] = -1]
  /\ cpc' = [cpc EXCEPT ![c] = "out"]
  /\ UNCHANGED <<cmd_active, tx_id, taskVars, heard, leaked>>

Send(c) ==
  /\ cpc[c] = "send" /\ Len(cmd_active) < PB_COMMAND_MSG_MAX
  /\ cmd_active' = Append(cmd_active, hold[c])
  /\ cpc' = [cpc EXCEPT ![c] = "return"]
  /\ UNCHANGED <<cmd_idle, msg, tx_id, hold, tx_temp, ret, taskVars, heard, leaked>>

(* The id is returned from the copy made before the send: the message      *)
(* itself may already have been answered and taken by someone else.  The   *)
(* mutant returns cmd->tx_id, read after the send.                         *)
ReturnedIdLate(c) == msg[hold[c]].tx
ReturnedId(c) == tx_temp[c]

Return(c) ==
  /\ cpc[c] = "return"
  /\ ret' = [ret EXCEPT ![c] = ReturnedId(c)]
  /\ tx_temp' = [tx_temp EXCEPT ![c] = 0]
  /\ hold' = [hold EXCEPT ![c] = Nil]
  /\ cpc' = [cpc EXCEPT ![c] = "out"]
  /\ UNCHANGED <<cmd_idle, cmd_active, msg, tx_id, taskVars, heard, leaked>>

Call(c) ==
  \/ \E cb \in CbChoices : PlayTake(c, cb)
  \/ \E cb \in CbChoices, k \in Commands : CommandTake(c, k, cb)
  \/ CommandInvalid(c)

Complete(c) == LoadTx(c) \/ StoreTx(c) \/ GiveBack(c) \/ Send(c) \/ Return(c)

-----------------------------------------------------------------------------
(* The playback task.                                                      *)

(* __pb_task: the blocking receive, and the choice between a song and a    *)
(* command nobody is playing for.                                          *)
TaskReceive ==
  /\ pc = "idle" /\ cmd_active # <<>>
  /\ cmd_active' = Tail(cmd_active)
  /\ IF msg[Head(cmd_active)].cmd = "PLAY"
       THEN cur' = Head(cmd_active) /\ pc' = "announce" /\ UNCHANGED ctl
       ELSE ctl' = Head(cmd_active) /\ pc' = "refusing" /\ UNCHANGED cur
  /\ UNCHANGED <<cmd_idle, msg, tx_id, clientVars, heard, leaked>>

(* cb_fn( status, tx_id ) of the message, which waits for room to post.   *)
Callback(m, status) ==
  IF msg[m].cb THEN /\ Len(heard) < HeardMax
                    /\ heard' = Append(heard, <<status, msg[m].tx>>)
               ELSE heard' = heard

Announce ==
  /\ pc = "announce"
  /\ Callback(cur, "PLAYING")
  /\ pc' = "decoding"
  /\ UNCHANGED <<cmd_idle, cmd_active, msg, tx_id, clientVars, cur, ctl, leaked>>

(* The decoder polls __continue_decoding.  An empty queue lets it go on; a *)
(* PAUSE is absorbed; anything else stays queued and the answer is no.     *)
ContinueDecoding ==
  /\ pc = "decoding" /\ cmd_active # <<>>
  /\ IF msg[Head(cmd_active)].cmd = "PAUSE"
       THEN /\ ctl' = Head(cmd_active) /\ cmd_active' = Tail(cmd_active)
            /\ pc' = "pausing"
       ELSE pc' = "stopped" /\ UNCHANGED <<ctl, cmd_active>>
  /\ UNCHANGED <<cmd_idle, msg, tx_id, clientVars, cur, heard, leaked>>

(* Mutant: RESUME is looked at and answered, but not received.             *)
PausedPeekKeeps ==
  /\ pc = "paused" /\ cmd_active # <<>>
  /\ IF msg[Head(cmd_active)].cmd = "RESUME"
       THEN ctl' = Head(cmd_active) /\ pc' = "resuming"
       ELSE pc' = "quitting" /\ UNCHANGED ctl
  /\ UNCHANGED <<cmd_idle, cmd_active, msg, tx_id, clientVars, cur, heard, leaked>>

(* Mutant: a paused song listens to nothing but RESUME.                    *)
PausedPeekDeaf ==
  /\ pc = "paused" /\ cmd_active # <<>> /\ msg[Head(cmd_active)].cmd = "RESUME"
  /\ ctl' = Head(cmd_active) /\ cmd_active' = Tail(cmd_active)
  /\ pc' = "resuming"
  /\ UNCHANGED <<cmd_idle, msg, tx_id, clientVars, cur, heard, leaked>>

(* The blocking peek of a paused song, and what follows it.                *)
PausedPeek ==
  /\ pc = "paused" /\ cmd_active # <<>>
  /\ IF msg[Head(cmd_active)].cmd = "RESUME"
       THEN /\ ctl' = Head(cmd_active) /\ cmd_active' = Tail(cmd_active)
            /\ pc' = "resuming"
       ELSE pc' = "quitting" /\ UNCHANGED <<ctl, cmd_active>>
  /\ UNCHANGED <<cmd_idle, msg, tx_id, clientVars, cur, heard, leaked>>

(* The decoder returns by itself.                                          *)
SongEnds ==
  /\ pc = "decoding"
  /\ pc' \in {"ended", "failed"}
  /\ UNCHANGED <<cmd_idle, cmd_active, msg, tx_id, clientVars, cur, ctl, heard, leaked>>

(* How the decoder returned, and the status reported for it.               *)
Result == [stopped |-> "STOPPED", quitting |-> "STOPPED", ended |-> "END_OF_SONG",
           failed |-> "ERROR"]

(* Mutant: the file name is not freed.                                     *)
CloseLeaks ==
  /\ pc \in DOMAIN Result
  /\ Callback(cur, Result[pc])
  /\ pc' = "returning"
  /\ UNCHANGED <<cmd_idle, cmd_active, msg, tx_id, clientVars, cur, ctl, leaked>>

(* The file name is freed, the status of the song is reported.             *)
Close ==
  /\ pc \in DOMAIN Result
  /\ Callback(cur, Result[pc])
  /\ msg' = [msg EXCEPT ![cur].file = FALSE]
  /\ pc' = "returning"
  /\ UNCHANGED <<cmd_idle, cmd_active, tx_id, clientVars, cur, ctl, leaked>>

Answer == [pausing |-> "PAUSED", resuming |-> "PLAYING", refusing |-> "ERROR"]

(* __notify_and_return, the callback of a command other than PLAY.         *)
NotifyCommand ==
  /\ pc \in DOMAIN Answer
  /\ Callback(ctl, Answer[pc])
  /\ pc' = "returning"
  /\ UNCHANGED <<cmd_idle, cmd_active, msg, tx_id, clientVars, cur, ctl, leaked>>

(* The message being answered; the mutant gives back the song's instead.   *)
AnsweredSong == IF cur # Nil THEN cur ELSE ctl
Answered == IF ctl # Nil THEN ctl ELSE cur

(* A command answered in mid-song returns to the decoder or to the pause;  *)
(* the mutant goes back to the idle loop after a RESUME.                   *)
AfterReturnForgets ==
  IF cur = Nil \/ ctl = Nil \/ msg[ctl].cmd # "PAUSE" THEN "idle" ELSE "paused"
AfterReturn ==
  IF cur = Nil \/ ctl = Nil THEN "idle"
  ELSE IF msg[ctl].cmd = "PAUSE" THEN "paused" ELSE "decoding"

(* __notify_and_return, the message goes back to __cmd_idle.  What is left *)
(* in it is not read again, and is zeroed here to keep one idle contents.  *)
ReturnMessage ==
  /\ pc = "returning" /\ Len(cmd_idle) < PB_COMMAND_MSG_MAX
  /\ cmd_idle' = Append(cmd_idle, Answered)
  /\ msg' = [msg EXCEPT ![Answered] = Zeroed]
  /\ pc' = AfterReturn
  /\ ctl' = Nil
  /\ cur' = IF ctl = Nil THEN Nil ELSE cur
  /\ UNCHANGED <<cmd_active, tx_id, clientVars, heard, leaked>>

Task ==
  TaskReceive \/ Announce \/ ContinueDecoding \/ PausedPeek \/ Close \/ NotifyCommand
    \/ ReturnMessage

(* The listener consumes a notice from its mailbox.                        *)
Listen ==
  /\ heard # <<>>
  /\ heard' = Tail(heard)
  /\ UNCHANGED <<cmd_idle, cmd_active, msg, tx_id, clientVars, taskVars, leaked>>

Next == (\E c \in Clients : Call(c) \/ Complete(c)) \/ Task \/ SongEnds \/ Listen

Spec == Init /\ [][Next]_vars

(* Tasks are scheduled, a started call runs on, the decoder keeps polling, *)
(* songs are finite and the listener reads its mailbox.                    *)
Fairness ==
  /\ \A c \in Clients : WF_vars(Complete(c))
  /\ WF_vars(Task) /\ WF_vars(SongEnds) /\ WF_vars(Listen)

FairSpec == Spec /\ Fairness

-----------------------------------------------------------------------------
(* Properties.                                                             *)

TypeOK ==
  /\ cmd_idle \in Seq(Msgs) /\ cmd_active \in Seq(Msgs)
  /\ msg \in [Msgs -> Contents]
  /\ tx_id \in TxIds
  /\ cpc \in [Clients -> {"out", "load", "store", "giveback", "send", "return"}]
  /\ hold \in [Clients -> Msgs \cup {Nil}]
  /\ tx_temp \in [Clients -> TxIds]
  /\ ret \in [Clients -> TxIds \cup {-1}]
  /\ pc \in {"idle", "announce", "decoding", "pausing", "paused", "resuming",
             "stopped", "quitting", "ended", "failed", "refusing", "returning"}
  /\ cur \in Msgs \cup {Nil} /\ ctl \in Msgs \cup {Nil}
  /\ heard \in Seq(Statuses \X TxIds) /\ Len(heard) <= HeardMax
  /\ leaked \subseteq Msgs

(* A client has the message to itself between its receive and its send.    *)
Working(c) == cpc[c] \in {"load", "store", "giveback", "send"}
InHand(c) == IF Working(c) THEN {hold[c]} ELSE {}
InTask == {cur, ctl} \ {Nil}

IdleSet == ToSet(cmd_idle)
ActiveSet == ToSet(cmd_active)

(* Every message buffer is in exactly one place: one slot of one queue,    *)
(* the hands of one caller, the task, or lost to an invalid command.  If   *)
(* it fails, two parties write one buffer, or the pool of 10 runs dry.     *)
OnePlace ==
  /\ IsInjective(cmd_idle) /\ IsInjective(cmd_active)
  /\ IdleSet \cap ActiveSet = {}
  /\ \A c \in Clients : InHand(c) \cap (IdleSet \cup ActiveSet \cup InTask \cup leaked) = {}
  /\ \A c, d \in Clients : c # d => InHand(c) \cap InHand(d) = {}
  /\ InTask \cap (IdleSet \cup ActiveSet \cup leaked) = {}
  /\ leaked \cap (IdleSet \cup ActiveSet) = {}
  /\ cur # Nil => cur # ctl
  /\ \A m \in Msgs : m \in IdleSet \cup ActiveSet \cup InTask \cup leaked
                      \/ \E c \in Clients : m \in InHand(c)

(* The sends to both queues wait forever if there is no room; there always *)
(* is, so neither a caller nor the task ever blocks in a send.             *)
SendsNeverBlock ==
  /\ \A c \in Clients : cpc[c] = "send" => Len(cmd_active) < PB_COMMAND_MSG_MAX
  /\ \A c \in Clients : cpc[c] = "giveback" => Len(cmd_idle) < PB_COMMAND_MSG_MAX
  /\ pc = "returning" => Len(cmd_idle) < PB_COMMAND_MSG_MAX

(* The malloc'ed file name belongs to a PLAY on its way to the task or     *)
(* being played, and to nothing else: it is freed once and never lost.     *)
FileOwned ==
  \A m \in Msgs : msg[m].file <=>
     /\ msg[m].cmd = "PLAY"
     /\ \/ m \in ToSet(cmd_active)
        \/ \E c \in Clients : cpc[c] = "send" /\ hold[c] = m
        \/ m = cur /\ (pc = "returning" => ctl # Nil)

(* Where the task is tells which messages it holds; a caller at work holds *)
(* one.  With TypeOK and OnePlace this is inductive.                       *)
Roles ==
  /\ \A c \in Clients : Working(c) => hold[c] # Nil
  /\ pc = "idle" => cur = Nil /\ ctl = Nil
  /\ pc \in {"announce", "decoding", "paused"} \cup DOMAIN Result => cur # Nil /\ ctl = Nil
  /\ pc \in {"pausing", "resuming"} => cur # Nil /\ ctl # Nil
  /\ pc = "refusing" => cur = Nil /\ ctl # Nil
  /\ pc = "returning" => Answered # Nil

(* A command sent to the task is taken up, whatever the task is doing when *)
(* it arrives: playing, paused, or answering another.                      *)
CommandsServed == \A m \in Msgs : m \in ToSet(cmd_active) ~> m \notin ToSet(cmd_active)

(* A song that is started is closed, unless it is left paused.             *)
SongsClosed == cur # Nil ~> (cur = Nil \/ pc = "paused")

-----------------------------------------------------------------------------
(* Refinement of PlayerService: a request is the contents of its message;  *)
(* it stays at the head of the abstract queue until its callback is made.  *)

RequestOf(m) == [cmd |-> msg[m].cmd, tx |-> msg[m].tx, cb |-> msg[m].cb]

Unannounced ==
  CASE pc = "announce"         -> <<cur>>
    [] pc \in DOMAIN Answer   -> <<ctl>>
    [] OTHER                   -> <<>>

PendingMsgs == Unannounced \o cmd_active
PendingRequests == [i \in 1 .. Len(PendingMsgs) |-> RequestOf(PendingMsgs[i])]

SongOn == cur # Nil /\ pc # "announce" /\ (pc = "returning" => ctl # Nil)

SongPhase ==
  CASE ~SongOn -> "stopped"
    [] SongOn /\ \/ pc \in {"paused", "resuming", "quitting"}
                 \/ pc = "returning" /\ msg[ctl].cmd = "PAUSE" -> "paused"
    [] OTHER -> "playing"

Service == INSTANCE PlayerService WITH
  None <- Nil,
  pending <- PendingRequests,
  song <- IF SongOn THEN RequestOf(cur) ELSE Nil,
  phase <- SongPhase,
  owed <- [c \in Clients |-> IF cpc[c] = "return" THEN tx_temp[c] ELSE Nil]

(* None is neither a request nor an id.                                    *)
ASSUME NilAssumption == Nil \notin TxIds \cup Service!Request

(* Callers and listener cannot tell the pool of recycled messages from a   *)
(* queue of requests: order, ids, exactly one closing notice per song; and *)
(* requests that wait are served.                                          *)
ImplementsService == Service!FairSpec
=============================================================================
