---------------------------- MODULE RadioInterface ----------------------------
(***************************************************************************)
(* src/apps/cd_changer/radio-interface.c: the tasks that meet in the       *)
(* message pool of the radio interface.  The "BLU" task is the state       *)
(* machine of the changer; the radio (iBus and poll tasks), the card, the  *)
(* database task and the callback of the playback post messages to it.     *)
(* The playback is PlayerService behind a pool of PB_MSG_MAX requests.     *)
(*                                                                         *)
(* A message is what it says.  The BLU task receives, processes and        *)
(* returns one in one action, except where it waits for another task.      *)
(* LED, texts, tracks and the frames sent to the radio are left out.       *)
(***************************************************************************)
EXTENDS Integers, Sequences, UserInterface

CONSTANTS
  RI_MSG_MAX,  (* the messages of the radio interface                      *)
  PB_MSG_MAX,  (* the messages of the playback                             *)
  Commands,    (* the commands the radio may give                          *)
  FailsMax,    (* bound: how many times a populate fails                   *)
  None         (* no song                                                  *)

ASSUME RadioAssumption ==
  /\ RI_MSG_MAX \in Nat \ {0} /\ PB_MSG_MAX \in Nat \ {0} /\ FailsMax \in Nat
  /\ Commands \subseteq IbusCmds

VARIABLES
  idle,        (* how many messages are in __ri_idle                       *)
  active,      (* __ri_active                                              *)
  blu,         (* where the BLU task is                                    *)
  ui,          (* the state of the user interface                          *)
  ipc,         (* the iBus task: "take" or "listen", holding a message     *)
  dmsg,        (* the message to the database task: "idle" or its request  *)
  dpc,         (* the database task: "wait", "work", or what it will post  *)
  db,          (* "purged", or populated: "songs" or "nosongs"             *)
  card,        (* the status the card has reported last                    *)
  pending, song, phase, heard,   (* the playback: see PlayerService        *)
  answering,   (* the request answered last is not yet in its pool again   *)
  lost         (* messages that have left the pool for good                *)

radioVars == <<idle, active, ipc>>
bluVars == <<blu, ui, lost>>
dbVars == <<dmsg, dpc, db>>
playVars == <<pending, song, phase, heard, answering>>
vars == <<radioVars, bluVars, dbVars, card, playVars>>

P == INSTANCE PlayerService WITH
       Clients <- {"blu"}, TxIds <- {0}, HeardMax <- 1,
       owed <- [c \in {"blu"} |-> None], ret <- [c \in {"blu"} |-> -1]

(* No song is not a song: NULL is no request.                              *)
ASSUME NoneAssumption == None \notin P!Request

(* What the card reports: INSERTED stands for every status of a card that  *)
(* cannot be read (INSERTED, MOUNTING, UNUSABLE).                          *)
NextCard == [REMOVED  |-> {"INSERTED", "REMOVED"},
             INSERTED |-> {"INSERTED", "MOUNTED", "REMOVED"},
             MOUNTED  |-> {"INSERTED", "REMOVED"}]
CardStatuses == DOMAIN NextCard
DbAnswers == {"POPULATED", "UNPOPULATED", "PURGED"}
Contents == CardStatuses \cup DbAnswers \cup PbStatuses \cup IbusCmds

Init ==
  /\ idle = RI_MSG_MAX /\ active = <<>>
  /\ blu = "main" /\ ui = FreshUi("STOPPED")
  /\ ipc = "take"
  /\ dmsg = "idle" /\ dpc = "wait" /\ db = "purged"
  /\ card = "REMOVED"
  /\ P!Init /\ answering = FALSE
  /\ lost = 0

-----------------------------------------------------------------------------
(* The tasks that post.                                                    *)

(* Every task waits for a free message.                                    *)
Take == idle > 0 /\ idle' = idle - 1
TakeAndPost(m) == Take /\ active' = Append(active, m)

IbusTake ==
  /\ ipc = "take" /\ Take
  /\ ipc' = "listen"
  /\ UNCHANGED <<active, bluVars, dbVars, card, playVars>>

(* irp_get_message: a command, the message has been waiting for it.        *)
IbusCommand ==
  /\ ipc = "listen"
  /\ \E m \in Commands : active' = Append(active, m)
  /\ ipc' = "take"
  /\ UNCHANGED <<idle, bluVars, dbVars, card, playVars>>

(* The radio has not polled for RI_TIMEOUT: as if it had said stop.        *)
PollTimeout ==
  /\ TakeAndPost("STOP")
  /\ UNCHANGED <<ipc, bluVars, dbVars, card, playVars>>

(* __card_status, called by the automount task.                            *)
CardStatus ==
  /\ card' \in NextCard[card]
  /\ TakeAndPost(card')
  /\ UNCHANGED <<ipc, bluVars, dbVars, playVars>>

(* __playback_cb, called by the playback task.                             *)
PlaybackCb ==
  /\ P!Listen
  /\ TakeAndPost(Notice[Head(heard)[1]])
  /\ answering' = FALSE
  /\ UNCHANGED <<ipc, bluVars, dbVars, card>>

-----------------------------------------------------------------------------
(* The database task.  Populating starts with a purge, and ends with one   *)
(* when it fails; the mutant says that it never does.                      *)

Failed == lost + Len(SelectSeq(active, LAMBDA m : m = "UNPOPULATED"))

DbaseTake ==
  /\ dpc = "wait" /\ dmsg # "idle" /\ Take
  /\ dpc' = "work"
  /\ db' = "purged"
  /\ UNCHANGED <<active, ipc, dmsg, bluVars, card, playVars>>

DbaseWorkBlind ==
  /\ dpc = "work"
  /\ \/ dmsg = "purge" /\ dpc' = "PURGED" /\ UNCHANGED db
     \/ dmsg = "populate" /\ dpc' = "POPULATED" /\ db' \in {"songs", "nosongs", "purged"}
  /\ dmsg' = "idle"
  /\ UNCHANGED <<radioVars, blu, ui, lost, card, playVars>>
DbaseWork ==
  /\ dpc = "work"
  /\ \/ dmsg = "purge" /\ dpc' = "PURGED" /\ UNCHANGED db
     \/ dmsg = "populate" /\ dpc' = "POPULATED" /\ db' \in {"songs", "nosongs"}
     \/ dmsg = "populate" /\ dpc' = "UNPOPULATED" /\ Failed < FailsMax /\ UNCHANGED db
  /\ dmsg' = "idle"
  /\ UNCHANGED <<radioVars, bluVars, card, playVars>>

DbaseAnswer ==
  /\ dpc \in DbAnswers
  /\ active' = Append(active, dpc)
  /\ dpc' = "wait"
  /\ UNCHANGED <<idle, ipc, dmsg, db, bluVars, card, playVars>>

Dbase == DbaseTake \/ DbaseWork \/ DbaseAnswer

-----------------------------------------------------------------------------
(* The playback answers once its callback is through.                      *)

Play ==
  /\ heard = <<>>
  /\ P!Serve
  /\ answering' = (heard' # <<>> /\ (song = None => song' = None))
  /\ UNCHANGED <<radioVars, bluVars, dbVars, card>>

(* A free message of the playback: the callers wait for one.               *)
Held == Len(pending) + (IF song = None THEN 0 ELSE 1) + (IF answering THEN 1 ELSE 0)
Room == Held < PB_MSG_MAX

Ask(cmd, cb) ==
  /\ Room
  /\ pending' = Append(pending, [cmd |-> cmd, tx |-> 0, cb |-> cb])
  /\ UNCHANGED <<song, phase, heard, answering>>

-----------------------------------------------------------------------------
(* The BLU task.                                                           *)

Received(m) == active # <<>> /\ m = Head(active)

Return == idle' = idle + 1 /\ active' = Tail(active) /\ ipc' = ipc

Goto(s) == blu' = s /\ UNCHANGED lost

(* __blu_task outside the functions it calls.                              *)
MainLoop ==
  /\ blu = "main"
  /\ \E m \in Contents :
       /\ Received(m)
       /\ ui' = IF m = "REMOVED" THEN FreshUi("STOPPED") ELSE ui
       /\ Goto(IF m = "MOUNTED" THEN "populate" ELSE "main")
  /\ Return
  /\ UNCHANGED <<dbVars, card, playVars>>

(* __database_populate, __database_purge: wait for the message, ask.       *)
AskDatabase(from, request, to) ==
  /\ blu = from /\ dmsg = "idle"
  /\ dmsg' = request
  /\ Goto(to)
  /\ UNCHANGED <<radioVars, ui, dpc, db, card, playVars>>

(* The first loop of __transition_db.  The answer may be to a request that *)
(* an early return has abandoned; any other message is such a return, and  *)
(* the task goes on as if the card had been removed.  The mutant waits for *)
(* its answer.                                                             *)
PopulatingWaits(m) ==
  IF m = "POPULATED" THEN /\ ui' = FreshUi(IF db = "songs" THEN ui.status ELSE "STOPPED")
                          /\ blu' = "commands"
                     ELSE UNCHANGED <<blu, ui>>
PopulatingSince(m) ==
  CASE m = "POPULATED" -> /\ ui' = FreshUi(IF db = "songs" THEN ui.status ELSE "STOPPED")
                          /\ blu' = "commands"
    [] m \in IbusCmds  -> UNCHANGED <<blu, ui>>
    [] OTHER           -> ui' = FreshUi("STOPPED") /\ blu' = "main"

PopulatingLoop ==
  /\ blu = "populating"
  /\ \E m \in Contents \ {"UNPOPULATED"} : Received(m) /\ PopulatingSince(m)
  /\ Return
  /\ UNCHANGED <<lost, dbVars, card, playVars>>

(* The answer that the database could not be populated is not returned.    *)
PopulatingFailed ==
  /\ blu = "populating" /\ Received("UNPOPULATED")
  /\ active' = Tail(active)
  /\ lost' = lost + 1
  /\ blu' = "nodiscs" /\ ui' = FreshUi("STOPPED")
  /\ UNCHANGED <<idle, ipc, dbVars, card, playVars>>

(* __no_discs_loop: a message that ends it is left for the main loop.  The *)
(* mutant leaves it there and returns it as well.                          *)
NoDiscsLoopTwice ==
  /\ blu = "nodiscs"
  /\ \E m \in Contents :
       /\ Received(m)
       /\ IF m \in PbStatuses \cup IbusCmds
          THEN Return /\ UNCHANGED bluVars
          ELSE /\ Goto("main") /\ ui' = FreshUi("STOPPED")
               /\ idle' = idle + 1 /\ UNCHANGED <<active, ipc>>
  /\ UNCHANGED <<dbVars, card, playVars>>
NoDiscsLoop ==
  /\ blu = "nodiscs"
  /\ \E m \in Contents :
       /\ Received(m)
       /\ IF m \in PbStatuses \cup IbusCmds
          THEN Return /\ UNCHANGED bluVars
          ELSE Goto("main") /\ ui' = FreshUi("STOPPED") /\ UNCHANGED radioVars
  /\ UNCHANGED <<dbVars, card, playVars>>

(* __command_loop: what the interface asks of the playback.  A song may be *)
(* refused (no memory for its name); one that was never selected is a null *)
(* pointer.                                                                *)
Command ==
  /\ blu = "commands"
  /\ \E m \in PbStatuses \cup IbusCmds :
       /\ Received(m)
       /\ ui' \in UiAfter(ui, m, db = "songs")
       /\ LET r == Request(ui, m) IN
            \/ r = "NONE" /\ Goto(blu) /\ UNCHANGED playVars
            \/ r = "PLAY" /\ ~ui'.song /\ Goto("crashed") /\ UNCHANGED playVars
            \/ r = "PLAY" /\ ui'.song /\ Goto(blu) /\ Room /\ UNCHANGED playVars
            \/ r = "PLAY" /\ ui'.song /\ Goto(blu) /\ Ask(r, TRUE)
            \/ r \in {"PAUSE", "RESUME"} /\ Goto(blu) /\ Ask(r, TRUE)
  /\ Return
  /\ UNCHANGED <<dbVars, card>>

CommandLoopEnds ==
  /\ blu = "commands"
  /\ \E m \in CardStatuses \cup DbAnswers : Received(m)
  /\ blu' = "stop"
  /\ ui' = FreshUi(ui.status)
  /\ Return
  /\ UNCHANGED <<lost, dbVars, card, playVars>>

(* playback_command waits for a message; the mutant gives up.              *)
StopPlaybackHasty ==
  /\ blu = "stop"
  /\ IF Room THEN Ask("STOP", FALSE) ELSE UNCHANGED playVars
  /\ Goto("purge")
  /\ UNCHANGED <<radioVars, ui, dbVars, card>>
StopPlayback ==
  /\ blu = "stop"
  /\ Ask("STOP", FALSE)
  /\ Goto("purge")
  /\ UNCHANGED <<radioVars, ui, dbVars, card>>

(* The second loop of __transition_db: whatever comes is dropped.          *)
PurgingLoop ==
  /\ blu = "purging"
  /\ \E m \in Contents :
       /\ Received(m)
       /\ IF m = "PURGED" THEN Goto("main") /\ ui' = FreshUi("STOPPED")
                          ELSE UNCHANGED bluVars
  /\ Return
  /\ UNCHANGED <<dbVars, card, playVars>>

Blu ==
  \/ MainLoop
  \/ AskDatabase("populate", "populate", "populating")
  \/ PopulatingLoop \/ PopulatingFailed
  \/ NoDiscsLoop
  \/ Command \/ CommandLoopEnds
  \/ StopPlayback
  \/ AskDatabase("purge", "purge", "purging")
  \/ PurgingLoop

(* After a use of the null pointer nothing is said of the program.         *)
Up == blu # "crashed"

Next ==
  /\ Up
  /\ \/ Blu
     \/ IbusTake \/ IbusCommand \/ PollTimeout \/ CardStatus
     \/ Dbase
     \/ Play \/ PlaybackCb

Spec == Init /\ [][Next]_vars

(* The tasks run; those that wait for a message are served in turn.        *)
FairSpec ==
  /\ Spec
  /\ WF_vars(Blu)
  /\ WF_vars(Up /\ (DbaseWork \/ DbaseAnswer)) /\ SF_vars(Up /\ DbaseTake)
  /\ WF_vars(Up /\ Play /\ pending # <<>>) /\ SF_vars(Up /\ PlaybackCb)

-----------------------------------------------------------------------------
TypeOK ==
  /\ idle \in 0..RI_MSG_MAX /\ active \in Seq(Contents)
  /\ blu \in {"main", "populate", "populating", "nodiscs", "commands", "stop", "purge",
              "purging", "crashed"}
  /\ ui \in Uis
  /\ ipc \in {"take", "listen"}
  /\ dmsg \in {"idle", "populate", "purge"} /\ dpc \in {"wait", "work"} \cup DbAnswers
  /\ db \in {"purged", "songs", "nosongs"}
  /\ card \in CardStatuses
  /\ pending \in Seq(P!Request) /\ song \in P!Request \cup {None}
  /\ phase \in {"stopped", "playing", "paused"}
  /\ heard \in Seq((DOMAIN Notice) \X {0})
  /\ answering \in BOOLEAN
  /\ lost \in Nat

(* A message of the pool is free, waits for the BLU task, or is with the   *)
(* task that will post it; only a failed populate loses one (line 607).    *)
MsgsKept ==
  /\ TypeOK
  /\ idle + Len(active) + lost + (IF ipc = "listen" THEN 1 ELSE 0)
      + (IF dpc = "wait" THEN 0 ELSE 1) = RI_MSG_MAX

(* The command loop runs over a populated database, except while an        *)
(* answer is due that will end it: then the loop was entered by the answer *)
(* for a card that is gone, and the database is populated under it         *)
(* (lines 575 and 612).                                                    *)
AnswerDue ==
  \/ dmsg # "idle" \/ dpc # "wait"
  \/ \E i \in DOMAIN active : active[i] \in DbAnswers
SongsThere == blu = "commands" /\ ~AnswerDue => db # "purged"

(* Outside the command loop nothing plays, or the request to stop is the   *)
(* last one the playback has been given (line 618).                        *)
SilentWithoutCard ==
  blu \notin {"commands", "stop", "crashed"} =>
    \/ pending = <<>> /\ song = None
    \/ pending # <<>> /\ pending[Len(pending)].cmd = "STOP"

(* When nothing is under way, a song that plays is not shown as stopped or *)
(* paused (ui-t.c line 345).                                               *)
Quiet ==
  /\ pending = <<>> /\ heard = <<>>
  /\ \A i \in DOMAIN active : active[i] \notin PbStatuses
StatusTells ==
  blu = "commands" /\ Quiet /\ phase = "playing" => ui.status \notin {"STOPPED", "PAUSED"}

(* The tasks wait on each other: no message is free, and the BLU task,     *)
(* which would free one, waits for the playback, whose callback waits for  *)
(* one, or for the database task.                                          *)
MutualWait ==
  /\ idle = 0
  /\ \/ heard # <<>> /\ ~Room /\ blu \in {"commands", "stop"}
     \/ dmsg # "idle" /\ dpc = "wait" /\ blu \in {"populate", "purge"}
Stopped == blu = "crashed" \/ MutualWait

(* A card that has been removed for good is noticed in every state.        *)
RemovalSeen == <>[](card = "REMOVED") => <>[](blu = "main" \/ Stopped)
===============================================================================
