------------------------- MODULE RadioInterfaceProofs -------------------------
(***************************************************************************)
(* Proofs about RadioInterface, for any number of messages of the radio    *)
(* interface and of the playback, any commands and any number of failures: *)
(* no message is lost but by a failed populate, nothing plays without a    *)
(* card, the command loop has a database under it, no removal of the card  *)
(* is missed, and there is one way only in which the tasks wait on each    *)
(* other; and, if the radio never says seek, what it is told of a song     *)
(* that plays is right.                                                    *)
(***************************************************************************)
EXTENDS RadioInterface, TLAPS

-----------------------------------------------------------------------------
(* Queues.                                                                 *)

(* What receiving from a queue gives and leaves.                           *)
LEMMA TailLemma ==
  ASSUME NEW S, NEW q \in Seq(S), q # <<>>
  PROVE  /\ Head(q) \in S /\ Tail(q) \in Seq(S)
         /\ Len(q) \in Nat /\ Len(q) > 0 /\ Len(Tail(q)) = Len(q) - 1
         /\ Head(q) = q[1]
         /\ \A i \in 1..Len(Tail(q)) : Tail(q)[i] = q[i + 1]
OBVIOUS

(* What sending to a queue makes of it.                                    *)
LEMMA AppendLemma ==
  ASSUME NEW S, NEW q \in Seq(S), NEW e \in S
  PROVE  /\ Append(q, e) \in Seq(S) /\ Append(q, e) # <<>>
         /\ Len(q) \in Nat /\ Len(Append(q, e)) = Len(q) + 1
         /\ \A i \in 1..Len(q) : Append(q, e)[i] = q[i]
         /\ Append(q, e)[Len(q) + 1] = e
OBVIOUS

-----------------------------------------------------------------------------
(* Types.                                                                  *)

(* The kinds of message and their sources.                                 *)
LEMMA Sets ==
  /\ CardStatuses = {"REMOVED", "INSERTED", "MOUNTED"}
  /\ \A c \in CardStatuses : NextCard[c] \subseteq CardStatuses
  /\ DOMAIN Notice = {"PLAYING", "PAUSED", "STOPPED", "END_OF_SONG", "ERROR"}
  /\ \A s \in DOMAIN Notice : Notice[s] \in PbStatuses
  /\ Commands \subseteq Contents /\ "STOP" \in Contents
  /\ CardStatuses \cup DbAnswers \cup PbStatuses \subseteq Contents
  /\ DbAnswers \cap (CardStatuses \cup PbStatuses \cup Commands \cup {"STOP"}) = {}
<1>1. /\ CardStatuses = {"REMOVED", "INSERTED", "MOUNTED"}
      /\ \A c \in CardStatuses : NextCard[c] \subseteq CardStatuses
  BY DEF CardStatuses, NextCard
<1>2. /\ DOMAIN Notice = {"PLAYING", "PAUSED", "STOPPED", "END_OF_SONG", "ERROR"}
      /\ \A s \in DOMAIN Notice : Notice[s] \in PbStatuses
  BY DEF Notice, PbStatuses
<1>3. /\ Commands \subseteq IbusCmds /\ "STOP" \in IbusCmds
      /\ DbAnswers \cap IbusCmds = {}
  BY RadioAssumption DEF IbusCmds, Selecting, Fast, Changing, DbAnswers
<1>4. DbAnswers \cap (CardStatuses \cup PbStatuses) = {}
  BY <1>1 DEF DbAnswers, PbStatuses
<1>5. QED BY <1>1, <1>2, <1>3, <1>4 DEF Contents

(* A command or a status leaves a well-typed user interface.               *)
LEMMA UiTypes ==
  ASSUME NEW u \in Uis, NEW m \in Contents, NEW songs \in BOOLEAN, NEW v \in UiAfter(u, m, songs)
  PROVE  v \in Uis
<1>1. StatusAfter(u, m) \in Statuses
  BY DEF StatusAfter, Statuses, Uis, FastStatus, Fast
<1>2. LastAfter(u, m) \in {"NONE", "STOP", "PAUSE", "PLAY", "SEEK"}
  BY DEF LastAfter, Uis
<1>3. DiscAfter(u, m) \in {"music", "setting"}
  BY DEF DiscAfter, Uis
<1>4. Found(u, m, songs) \subseteq BOOLEAN
  <2>1. u.song \in BOOLEAN
    BY DEF Uis
  <2>2. QED BY <2>1 DEF Found
<1>5. QED BY <1>1, <1>2, <1>3, <1>4 DEF UiAfter, Uis

(* So does a fresh start, at any status.                                   *)
LEMMA FreshTypes == \A s \in Statuses : FreshUi(s) \in Uis
BY DEF FreshUi, Uis

(* A request to the playback is well typed.                                *)
LEMMA AskTypes ==
  ASSUME TypeOK, NEW cmd \in {"PLAY", "RESUME", "PAUSE", "STOP"}, NEW cb \in BOOLEAN, Ask(cmd, cb)
  PROVE  pending' \in Seq(P!Request)
<1>1. [cmd |-> cmd, tx |-> 0, cb |-> cb] \in P!Request
  BY DEF P!Request
<1>2. QED BY <1>1, AppendLemma DEF Ask, TypeOK

(* Each step of the playback leaves it well typed.                         *)
LEMMA ServeTypes ==
  ASSUME TypeOK, P!Serve
  PROVE  /\ pending' \in Seq(P!Request) /\ song' \in P!Request \cup {None}
         /\ phase' \in {"stopped", "playing", "paused"}
         /\ heard' \in Seq((DOMAIN Notice) \X {0})
<1> USE DEF TypeOK
<1>1. ASSUME NEW r \in P!Request, NEW s \in DOMAIN Notice, P!Notify(r, s)
      PROVE  heard' \in Seq((DOMAIN Notice) \X {0})
  <2>1. <<s, r.tx>> \in (DOMAIN Notice) \X {0}
    BY DEF P!Request
  <2>2. QED BY <1>1, <2>1, AppendLemma, SMTT(30) DEF P!Notify
<1>2. {"PLAYING", "ERROR", "PAUSED", "STOPPED", "END_OF_SONG"} \subseteq DOMAIN Notice
  BY Sets
<1>3. pending # <<>> => Head(pending) \in P!Request /\ Tail(pending) \in Seq(P!Request)
  BY TailLemma
<1>4. CASE P!Start
  BY <1>1, <1>2, <1>3, <1>4 DEF P!Start, P!Waiting
<1>5. CASE P!Refuse
  BY <1>1, <1>2, <1>3, <1>5 DEF P!Refuse, P!Waiting
<1>6. CASE P!Pause
  BY <1>1, <1>2, <1>3, <1>6 DEF P!Pause, P!Waiting
<1>7. CASE P!Resume
  BY <1>1, <1>2, <1>3, <1>7 DEF P!Resume, P!Waiting
<1>8. CASE P!Finish
  <2>1. PICK s \in {"STOPPED", "END_OF_SONG", "ERROR"} : P!Notify(song, s)
    BY <1>8 DEF P!Finish
  <2>2. song \in P!Request
    BY <1>8 DEF P!Finish
  <2>3. heard' \in Seq((DOMAIN Notice) \X {0})
    BY <1>1, <1>2, <2>1, <2>2
  <2>4. QED BY <1>8, <2>3 DEF P!Finish
<1>9. QED BY <1>4, <1>5, <1>6, <1>7, <1>8 DEF P!Serve

-----------------------------------------------------------------------------
(* Messages.                                                               *)

(* The types of the messages and of the tasks that post them, and of the   *)
(* rest of the state.                                                      *)
TasksOK ==
  /\ idle \in 0..RI_MSG_MAX /\ active \in Seq(Contents)
  /\ ipc \in {"take", "listen"}
  /\ dmsg \in {"idle", "populate", "purge"} /\ dpc \in {"wait", "work"} \cup DbAnswers
  /\ db \in {"purged", "songs", "nosongs"} /\ card \in CardStatuses
BluOK ==
  /\ blu \in {"main", "populate", "populating", "nodiscs", "commands", "stop", "purge",
              "purging", "crashed"}
  /\ ui \in Uis /\ lost \in Nat
PlayOK ==
  /\ pending \in Seq(P!Request) /\ song \in P!Request \cup {None}
  /\ phase \in {"stopped", "playing", "paused"}
  /\ heard \in Seq((DOMAIN Notice) \X {0}) /\ answering \in BOOLEAN
Total ==
  idle + Len(active) + lost + (IF ipc = "listen" THEN 1 ELSE 0)
    + (IF dpc = "wait" THEN 0 ELSE 1) = RI_MSG_MAX

(* The four parts are the invariant that is checked.                       *)
LEMMA Parts ==
  /\ MsgsKept <=> TasksOK /\ BluOK /\ PlayOK /\ Total
  /\ MsgsKept' <=> (TasksOK /\ BluOK /\ PlayOK /\ Total)'
BY DEF MsgsKept, TypeOK, TasksOK, BluOK, PlayOK, Total

(* ri_init puts every message into the idle queue.                         *)
LEMMA InitMsgs == Init => MsgsKept
<1> SUFFICES ASSUME Init PROVE MsgsKept
  OBVIOUS
<1>1. FreshUi("STOPPED") \in Uis
  BY FreshTypes DEF Statuses
<1>2. TasksOK /\ Total
  BY RadioAssumption, Sets DEF Init, TasksOK, Total
<1>3. BluOK
  BY <1>1 DEF Init, BluOK
<1>4. PlayOK
  <2>1. /\ pending = <<>> /\ song = None /\ phase = "stopped" /\ heard = <<>>
        /\ answering = FALSE
    BY DEF Init, P!Init
  <2>2. pending \in Seq(P!Request)
    BY <2>1
  <2>3. heard \in Seq((DOMAIN Notice) \X {0})
    BY <2>1
  <2>4. QED BY <2>1, <2>2, <2>3 DEF PlayOK
<1>5. QED BY <1>2, <1>3, <1>4, Parts

(* The iBus and poll tasks and the two callbacks post what they take.      *)
LEMMA PostMsgs ==
  MsgsKept /\ (IbusTake \/ IbusCommand \/ PollTimeout \/ CardStatus \/ PlaybackCb) => MsgsKept'
<1> SUFFICES ASSUME TasksOK, BluOK, PlayOK, Total,
                    IbusTake \/ IbusCommand \/ PollTimeout \/ CardStatus \/ PlaybackCb
             PROVE  (TasksOK /\ BluOK /\ PlayOK /\ Total)'
  BY Parts
<1>1. ASSUME NEW m \in Contents, active' = Append(active, m)
      PROVE  active' \in Seq(Contents) /\ Len(active) \in Nat /\ Len(active') = Len(active) + 1
  BY <1>1, AppendLemma DEF TasksOK
<1>2. ASSUME NEW m \in Contents, TakeAndPost(m), ipc' = ipc, dpc' = dpc, lost' = lost
      PROVE  idle' \in 0..RI_MSG_MAX /\ active' \in Seq(Contents) /\ Total'
  <2>1. active' \in Seq(Contents) /\ Len(active) \in Nat /\ Len(active') = Len(active) + 1
    BY <1>1, <1>2 DEF TakeAndPost
  <2>2. idle' = idle - 1 /\ idle > 0
    BY <1>2 DEF TakeAndPost, Take
  <2>3. QED BY <1>2, <2>1, <2>2, RadioAssumption DEF TasksOK, BluOK, Total
<1>3. CASE IbusTake
  <2>1. idle' = idle - 1 /\ idle > 0 /\ ipc = "take" /\ ipc' = "listen" /\ active' = active
    BY <1>3 DEF IbusTake, Take
  <2>2. UNCHANGED <<bluVars, dbVars, card, playVars>>
    BY <1>3 DEF IbusTake
  <2>3. Total' /\ idle' \in 0..RI_MSG_MAX
    BY <2>1, <2>2, RadioAssumption DEF Total, TasksOK, BluOK, bluVars, dbVars
  <2>4. QED
    BY <2>1, <2>2, <2>3 DEF TasksOK, BluOK, PlayOK, bluVars, dbVars, playVars
<1>4. CASE IbusCommand
  <2>1. PICK m \in Commands : active' = Append(active, m)
    BY <1>4 DEF IbusCommand
  <2>2. active' \in Seq(Contents) /\ Len(active) \in Nat /\ Len(active') = Len(active) + 1
    BY <1>1, <2>1, Sets
  <2>3. /\ ipc = "listen" /\ ipc' = "take"
        /\ UNCHANGED <<idle, bluVars, dbVars, card, playVars>>
    BY <1>4 DEF IbusCommand
  <2>4. Total'
    BY <2>2, <2>3 DEF Total, TasksOK, BluOK, bluVars, dbVars
  <2>5. QED
    BY <2>2, <2>3, <2>4 DEF TasksOK, BluOK, PlayOK, bluVars, dbVars, playVars
<1>5. CASE PollTimeout
  <2>1. TakeAndPost("STOP") /\ UNCHANGED <<ipc, bluVars, dbVars, card, playVars>>
    BY <1>5 DEF PollTimeout
  <2>2. ipc' = ipc /\ dpc' = dpc /\ lost' = lost
    BY <2>1 DEF bluVars, dbVars
  <2>3. idle' \in 0..RI_MSG_MAX /\ active' \in Seq(Contents) /\ Total'
    BY <1>2, <2>1, <2>2, Sets
  <2>4. QED BY <2>1, <2>3 DEF TasksOK, BluOK, PlayOK, bluVars, dbVars, playVars
<1>6. CASE CardStatus
  <2>1. /\ card' \in NextCard[card] /\ TakeAndPost(card')
        /\ UNCHANGED <<ipc, bluVars, dbVars, playVars>>
    BY <1>6 DEF CardStatus
  <2>2. ipc' = ipc /\ dpc' = dpc /\ lost' = lost
    BY <2>1 DEF bluVars, dbVars
  <2>3. card' \in CardStatuses /\ card' \in Contents
    BY <2>1, Sets DEF TasksOK
  <2>4. idle' \in 0..RI_MSG_MAX /\ active' \in Seq(Contents) /\ Total'
    BY <1>2, <2>1, <2>2, <2>3
  <2>5. QED BY <2>1, <2>3, <2>4 DEF TasksOK, BluOK, PlayOK, bluVars, dbVars, playVars
<1>7. CASE PlaybackCb
  <2>1. /\ P!Listen /\ TakeAndPost(Notice[Head(heard)[1]]) /\ answering' = FALSE
        /\ UNCHANGED <<ipc, bluVars, dbVars, card>>
    BY <1>7 DEF PlaybackCb
  <2>2. ipc' = ipc /\ dpc' = dpc /\ lost' = lost
    BY <2>1 DEF bluVars, dbVars
  <2>3. heard # <<>> /\ heard' = Tail(heard) /\ UNCHANGED <<pending, song, phase>>
    BY <2>1 DEF P!Listen
  <2>4. Head(heard) \in (DOMAIN Notice) \X {0} /\ Tail(heard) \in Seq((DOMAIN Notice) \X {0})
    BY <2>3, TailLemma DEF PlayOK
  <2>5. Notice[Head(heard)[1]] \in Contents
    BY <2>4, Sets
  <2>6. idle' \in 0..RI_MSG_MAX /\ active' \in Seq(Contents) /\ Total'
    BY <1>2, <2>1, <2>2, <2>5
  <2>7. QED BY <2>1, <2>3, <2>4, <2>6, ZenonT(30) DEF TasksOK, BluOK, PlayOK, bluVars, dbVars
<1>8. QED BY <1>3, <1>4, <1>5, <1>6, <1>7

(* The database task takes a message, works, and posts it.                 *)
LEMMA DbaseMsgs == MsgsKept /\ Dbase => MsgsKept'
<1> SUFFICES ASSUME TasksOK, BluOK, PlayOK, Total, Dbase
             PROVE  (TasksOK /\ BluOK /\ PlayOK /\ Total)'
  BY Parts
<1>1. CASE DbaseTake
  <2>1. /\ idle > 0 /\ idle' = idle - 1 /\ dpc = "wait" /\ dpc' = "work" /\ db' = "purged"
        /\ UNCHANGED <<active, ipc, dmsg, bluVars, card, playVars>>
    BY <1>1 DEF DbaseTake, Take
  <2>2. Total' /\ idle' \in 0..RI_MSG_MAX
    BY <2>1, RadioAssumption DEF Total, TasksOK, BluOK, bluVars
  <2>3. QED BY <2>1, <2>2 DEF TasksOK, BluOK, PlayOK, bluVars, playVars
<1>2. CASE DbaseWork
  <2>1. /\ dpc = "work" /\ dpc' \in DbAnswers /\ db' \in {db, "songs", "nosongs"}
        /\ dmsg' = "idle" /\ UNCHANGED <<radioVars, bluVars, card, playVars>>
    BY <1>2 DEF DbaseWork, DbAnswers
  <2>2. Total'
    BY <2>1 DEF Total, radioVars, bluVars, DbAnswers
  <2>3. QED BY <2>1, <2>2 DEF TasksOK, BluOK, PlayOK, radioVars, bluVars, playVars
<1>3. CASE DbaseAnswer
  <2>1. /\ dpc \in DbAnswers /\ active' = Append(active, dpc) /\ dpc' = "wait"
        /\ UNCHANGED <<idle, ipc, dmsg, db, bluVars, card, playVars>>
    BY <1>3 DEF DbaseAnswer
  <2>2. active' \in Seq(Contents) /\ Len(active) \in Nat /\ Len(active') = Len(active) + 1
    BY <2>1, AppendLemma, Sets DEF TasksOK
  <2>3. Total'
    BY <2>1, <2>2 DEF Total, TasksOK, BluOK, bluVars, DbAnswers
  <2>4. QED BY <2>1, <2>2, <2>3 DEF TasksOK, BluOK, PlayOK, bluVars, playVars
<1>4. QED BY <1>1, <1>2, <1>3 DEF Dbase

(* The playback has no message of the radio interface.                     *)
LEMMA PlayMsgs == MsgsKept /\ Play => MsgsKept'
<1> SUFFICES ASSUME TasksOK, BluOK, PlayOK, Total, Play
             PROVE  (TasksOK /\ BluOK /\ PlayOK /\ Total)'
  BY Parts
<1>1. P!Serve /\ UNCHANGED <<radioVars, bluVars, dbVars, card>> /\ answering' \in BOOLEAN
  BY DEF Play
<1>2. TypeOK
  BY DEF TypeOK, TasksOK, BluOK, PlayOK
<1>3. PlayOK'
  BY <1>1, <1>2, ServeTypes DEF PlayOK
<1>4. (TasksOK /\ BluOK /\ Total)'
  BY <1>1 DEF TasksOK, BluOK, Total, radioVars, bluVars, dbVars
<1>5. QED BY <1>3, <1>4

(* Most steps of the BLU task return what they have received.              *)
LEMMA ReturnMsgs ==
  ASSUME TasksOK, BluOK, Total, Return, NEW m, Received(m),
         UNCHANGED <<lost, dbVars, card>>
  PROVE  TasksOK' /\ Total' /\ m \in Contents
<1>1. active # <<>> /\ m = Head(active) /\ idle' = idle + 1 /\ active' = Tail(active) /\ ipc' = ipc
  BY DEF Return, Received
<1>2. /\ m \in Contents /\ Tail(active) \in Seq(Contents)
      /\ Len(active) \in Nat /\ Len(active) > 0 /\ Len(Tail(active)) = Len(active) - 1
  BY <1>1, TailLemma DEF TasksOK
<1>3. Total'
  BY <1>1, <1>2 DEF Total, TasksOK, BluOK, dbVars
<1>4. idle' \in 0..RI_MSG_MAX
  BY <1>1, <1>2, RadioAssumption DEF Total, TasksOK, BluOK
<1>5. QED BY <1>1, <1>2, <1>3, <1>4 DEF TasksOK, dbVars

(* The BLU task returns what it receives, but for a failed populate.       *)
LEMMA BluMsgs == MsgsKept /\ Blu => MsgsKept'
<1> SUFFICES ASSUME TasksOK, BluOK, PlayOK, Total, Blu
             PROVE  (TasksOK /\ BluOK /\ PlayOK /\ Total)'
  BY Parts
<1>0. /\ FreshUi("STOPPED") \in Uis /\ FreshUi(ui.status) \in Uis
      /\ \A b \in BOOLEAN : FreshUi(IF b THEN ui.status ELSE "STOPPED") \in Uis
  <2>1. ui.status \in Statuses /\ "STOPPED" \in Statuses
    BY DEF BluOK, Uis, Statuses
  <2>2. QED BY <2>1, FreshTypes
<1>1. CASE MainLoop
  <2>1. PICK m \in Contents :
          /\ Received(m) /\ ui' \in {FreshUi("STOPPED"), ui} /\ blu' \in {"populate", "main"}
          /\ lost' = lost
    BY <1>1 DEF MainLoop, Goto
  <2>2. Return /\ UNCHANGED <<dbVars, card, playVars>>
    BY <1>1 DEF MainLoop
  <2>3. TasksOK' /\ Total'
    BY <2>1, <2>2, ReturnMsgs
  <2>4. QED BY <1>0, <2>1, <2>2, <2>3 DEF BluOK, PlayOK, playVars
<1>2. ASSUME NEW request \in {"populate", "purge"}, NEW from, NEW to \in {"populating", "purging"},
             AskDatabase(from, request, to)
      PROVE  (TasksOK /\ BluOK /\ PlayOK /\ Total)'
  <2>1. /\ dmsg' = request /\ blu' = to /\ lost' = lost
        /\ UNCHANGED <<radioVars, ui, dpc, db, card, playVars>>
    BY <1>2 DEF AskDatabase, Goto
  <2>2. QED BY <2>1 DEF TasksOK, BluOK, PlayOK, Total, radioVars, playVars
<1>3. CASE PopulatingLoop
  <2>1. PICK m \in Contents : Received(m) /\ PopulatingSince(m)
    BY <1>3 DEF PopulatingLoop
  <2>2. Return /\ blu = "populating" /\ UNCHANGED <<lost, dbVars, card, playVars>>
    BY <1>3 DEF PopulatingLoop
  <2>3. TasksOK' /\ Total'
    BY <2>1, <2>2, ReturnMsgs
  <2>4. ui' \in Uis /\ blu' \in {"commands", blu, "main"}
    <3>1. /\ FreshUi(IF db = "songs" THEN ui.status ELSE "STOPPED") \in Uis
      BY <1>0
    <3>2. QED BY <1>0, <2>1, <3>1 DEF PopulatingSince, BluOK
  <2>5. QED BY <2>2, <2>3, <2>4 DEF BluOK, PlayOK, playVars
<1>4. CASE PopulatingFailed
  <2>1. /\ active # <<>> /\ active' = Tail(active) /\ lost' = lost + 1 /\ blu' = "nodiscs"
        /\ ui' = FreshUi("STOPPED") /\ UNCHANGED <<idle, ipc, dbVars, card, playVars>>
    BY <1>4 DEF PopulatingFailed, Received
  <2>2. /\ Tail(active) \in Seq(Contents)
        /\ Len(active) \in Nat /\ Len(active) > 0 /\ Len(Tail(active)) = Len(active) - 1
    BY <2>1, TailLemma DEF TasksOK
  <2>3. Total'
    BY <2>1, <2>2 DEF Total, TasksOK, BluOK, dbVars
  <2>4. QED BY <1>0, <2>1, <2>2, <2>3 DEF TasksOK, BluOK, PlayOK, dbVars, playVars
<1>5. CASE NoDiscsLoop
  <2>1. PICK m \in Contents :
          /\ Received(m)
          /\ \/ Return /\ UNCHANGED bluVars
             \/ Goto("main") /\ ui' = FreshUi("STOPPED") /\ UNCHANGED radioVars
    BY <1>5 DEF NoDiscsLoop
  <2>2. UNCHANGED <<dbVars, card, playVars>>
    BY <1>5 DEF NoDiscsLoop
  <2>3. CASE Return /\ UNCHANGED bluVars
    <3>1. TasksOK' /\ Total'
      BY <2>1, <2>2, <2>3, ReturnMsgs DEF bluVars
    <3>2. QED BY <2>2, <2>3, <3>1 DEF BluOK, PlayOK, bluVars, playVars
  <2>4. CASE Goto("main") /\ ui' = FreshUi("STOPPED") /\ UNCHANGED radioVars
    BY <1>0, <2>2, <2>4 DEF Goto, TasksOK, BluOK, PlayOK, Total, radioVars, dbVars, playVars
  <2>5. QED BY <2>1, <2>3, <2>4
<1>6. CASE Command
  <2>1. PICK m \in PbStatuses \cup IbusCmds :
          /\ Received(m) /\ ui' \in UiAfter(ui, m, db = "songs")
          /\ LET r == Request(ui, m) IN
               \/ r = "NONE" /\ Goto(blu) /\ UNCHANGED playVars
               \/ r = "PLAY" /\ ~ui'.song /\ Goto("crashed") /\ UNCHANGED playVars
               \/ r = "PLAY" /\ ui'.song /\ Goto(blu) /\ Room /\ UNCHANGED playVars
               \/ r = "PLAY" /\ ui'.song /\ Goto(blu) /\ Ask(r, TRUE)
               \/ r \in {"PAUSE", "RESUME"} /\ Goto(blu) /\ Ask(r, TRUE)
    BY <1>6 DEF Command
  <2>2. Return /\ UNCHANGED <<dbVars, card>>
    BY <1>6 DEF Command
  <2>3. /\ blu' \in {blu, "crashed"} /\ lost' = lost
        /\ UNCHANGED playVars \/ \E r \in {"PLAY", "PAUSE", "RESUME"} : Ask(r, TRUE)
    BY <2>1 DEF Goto
  <2>4. TasksOK' /\ Total'
    BY <2>1, <2>2, <2>3, ReturnMsgs
  <2>5. ui' \in Uis
    <3>1. m \in Contents /\ (db = "songs") \in BOOLEAN
      BY <2>1 DEF Contents
    <3>2. QED BY <2>1, <3>1, UiTypes DEF BluOK
  <2>6. PlayOK'
    <3>1. TypeOK
      BY DEF TypeOK, TasksOK, BluOK, PlayOK
    <3>2. ASSUME NEW r \in {"PLAY", "PAUSE", "RESUME"}, Ask(r, TRUE) PROVE PlayOK'
      <4>1. pending' \in Seq(P!Request)
        BY <3>1, <3>2, AskTypes
      <4>2. QED BY <3>2, <4>1 DEF Ask, PlayOK
    <3>3. CASE UNCHANGED playVars
      BY <3>3 DEF PlayOK, playVars
    <3>4. QED BY <2>3, <3>2, <3>3
  <2>7. QED BY <2>3, <2>4, <2>5, <2>6 DEF BluOK
<1>7. CASE CommandLoopEnds
  <2>1. PICK m : Received(m)
    BY <1>7 DEF CommandLoopEnds
  <2>2. /\ Return /\ blu' = "stop" /\ ui' = FreshUi(ui.status)
        /\ UNCHANGED <<lost, dbVars, card, playVars>>
    BY <1>7 DEF CommandLoopEnds
  <2>3. TasksOK' /\ Total'
    BY <2>1, <2>2, ReturnMsgs
  <2>4. QED BY <1>0, <2>2, <2>3 DEF BluOK, PlayOK, playVars
<1>8. CASE StopPlayback
  <2>1. Ask("STOP", FALSE) /\ blu' = "purge" /\ lost' = lost /\ UNCHANGED <<radioVars, ui, dbVars, card>>
    BY <1>8 DEF StopPlayback, Goto
  <2>2. TypeOK
    BY DEF TypeOK, TasksOK, BluOK, PlayOK
  <2>3. pending' \in Seq(P!Request)
    BY <2>1, <2>2, AskTypes
  <2>4. QED BY <2>1, <2>3 DEF Ask, TasksOK, BluOK, PlayOK, Total, radioVars, dbVars
<1>9. CASE PurgingLoop
  <2>1. PICK m \in Contents :
          /\ Received(m) /\ lost' = lost
          /\ blu' \in {blu, "main"} /\ ui' \in {ui, FreshUi("STOPPED")}
    BY <1>9 DEF PurgingLoop, Goto, bluVars
  <2>2. Return /\ UNCHANGED <<dbVars, card, playVars>>
    BY <1>9 DEF PurgingLoop
  <2>3. TasksOK' /\ Total'
    BY <2>1, <2>2, ReturnMsgs
  <2>4. QED BY <1>0, <2>1, <2>2, <2>3 DEF BluOK, PlayOK, playVars
<1>10. QED
  BY <1>1, <1>2, <1>3, <1>4, <1>5, <1>6, <1>7, <1>8, <1>9 DEF Blu

(* Whatever the tasks do, a message of the pool is free, queued, or with   *)
(* the task that will post it; only a failed populate loses one.           *)
THEOREM PoolConserved == Spec => []MsgsKept
<1>1. MsgsKept /\ UNCHANGED vars => MsgsKept'
  BY DEF MsgsKept, TypeOK, vars, radioVars, bluVars, dbVars, playVars
<1>2. MsgsKept /\ [Next]_vars => MsgsKept'
  BY <1>1, PostMsgs, DbaseMsgs, PlayMsgs, BluMsgs DEF Next
<1>3. QED BY <1>2, InitMsgs, PTL DEF Spec

-----------------------------------------------------------------------------
(* Silence.                                                                *)

LastStops == pending # <<>> /\ pending[Len(pending)].cmd = "STOP"
Silent == (pending = <<>> /\ song = None) \/ LastStops

(* The playback leaves a request to stop last, until it has obeyed it.     *)
LEMMA ServeSilent ==
  ASSUME PlayOK, Silent, P!Serve
  PROVE  Silent'
<1>1. pending # <<>> =>
        /\ Head(pending) = pending[1] /\ Tail(pending) \in Seq(P!Request)
        /\ Len(pending) \in Nat /\ Len(pending) > 0 /\ Len(Tail(pending)) = Len(pending) - 1
        /\ \A i \in 1..Len(Tail(pending)) : Tail(pending)[i] = pending[i + 1]
  BY TailLemma DEF PlayOK
<1>2. ASSUME pending # <<>>, pending' = Tail(pending), LastStops,
             Head(pending).cmd # "STOP" \/ song' = None
      PROVE  Silent'
  <2>1. CASE Len(pending) = 1
    <3>1. pending' = <<>>
      BY <1>1, <1>2, <2>1
    <3>2. song' = None
      BY <1>1, <1>2, <2>1 DEF LastStops
    <3>3. QED BY <3>1, <3>2 DEF Silent
  <2>2. CASE Len(pending) > 1
    <3>0. Len(pending') = Len(pending) - 1 /\ pending' \in Seq(P!Request)
      BY <1>1, <1>2
    <3>1. pending' # <<>> /\ Len(pending') = Len(pending) - 1
      BY <2>2, <3>0
    <3>2. pending'[Len(pending')] = pending[Len(pending)]
      BY <1>1, <1>2, <2>2, <3>1
    <3>3. QED BY <1>2, <3>1, <3>2 DEF Silent, LastStops
  <2>3. Len(pending) = 1 \/ Len(pending) > 1
    <3>1. Len(pending) \in Nat /\ Len(pending) > 0
      BY <1>1, <1>2
    <3>2. \A n \in Nat : n > 0 => n = 1 \/ n > 1
      OBVIOUS
    <3>3. QED BY <3>1, <3>2
  <2>4. QED BY <2>1, <2>2, <2>3
<1>3. CASE P!Start \/ P!Pause \/ P!Resume
  <2>1. /\ pending # <<>> /\ pending' = Tail(pending) /\ Head(pending).cmd # "STOP"
    BY <1>3 DEF P!Start, P!Pause, P!Resume, P!Waiting
  <2>2. QED BY <1>2, <2>1 DEF Silent
<1>4. CASE P!Refuse
  <2>1. pending # <<>> /\ pending' = Tail(pending) /\ song' = None
    BY <1>4 DEF P!Refuse, P!Waiting
  <2>2. QED BY <1>2, <2>1 DEF Silent
<1>5. CASE P!Finish
  <2>1. song # None /\ pending' = pending
    BY <1>5 DEF P!Finish
  <2>2. QED BY <2>1 DEF Silent, LastStops
<1>6. QED BY <1>3, <1>4, <1>5 DEF P!Serve

LEMMA NextSilent == PlayOK /\ SilentWithoutCard /\ [Next]_vars => SilentWithoutCard'
<1> SUFFICES ASSUME PlayOK, SilentWithoutCard, [Next]_vars,
                    blu' \notin {"commands", "stop", "crashed"}
             PROVE  Silent'
  BY DEF SilentWithoutCard, Silent, LastStops
<1>1. ASSUME UNCHANGED <<pending, song>>, blu \notin {"commands", "stop", "crashed"}
      PROVE  Silent'
  BY <1>1 DEF SilentWithoutCard, Silent, LastStops
<1>2. CASE UNCHANGED vars \/ IbusTake \/ IbusCommand \/ PollTimeout \/ CardStatus \/ Dbase
  BY <1>1, <1>2 DEF vars, IbusTake, IbusCommand, PollTimeout, CardStatus, Dbase, DbaseTake, DbaseWork,
     DbaseAnswer, playVars, bluVars
<1>3. CASE PlaybackCb
  BY <1>1, <1>3 DEF PlaybackCb, P!Listen, bluVars
<1>4. CASE Play
  <2>1. P!Serve /\ blu' = blu
    BY <1>4 DEF Play, bluVars
  <2>2. Silent
    BY <2>1 DEF SilentWithoutCard, Silent, LastStops
  <2>3. QED BY <2>1, <2>2, ServeSilent
<1>5. CASE StopPlayback
  <2>1. pending' = Append(pending, [cmd |-> "STOP", tx |-> 0, cb |-> FALSE])
    BY <1>5 DEF StopPlayback, Ask
  <2>2. [cmd |-> "STOP", tx |-> 0, cb |-> FALSE] \in P!Request
    BY DEF P!Request
  <2>3. QED BY <2>1, <2>2, AppendLemma DEF PlayOK, Silent, LastStops
<1>6. CASE Command \/ CommandLoopEnds
  BY <1>6 DEF Command, CommandLoopEnds, Goto
<1>7. CASE MainLoop \/ PopulatingLoop \/ PopulatingFailed \/ NoDiscsLoop \/ PurgingLoop
  BY <1>1, <1>7 DEF MainLoop, PopulatingLoop, PopulatingFailed, NoDiscsLoop, PurgingLoop, playVars
<1>8. CASE AskDatabase("populate", "populate", "populating") \/ AskDatabase("purge", "purge", "purging")
  BY <1>1, <1>8 DEF AskDatabase, playVars
<1>9. QED
  BY <1>2, <1>3, <1>4, <1>5, <1>6, <1>7, <1>8 DEF Next, Blu

(* Outside the command loop nothing plays, or the playback has been told   *)
(* to stop and told nothing since (radio-interface.c line 625).            *)
THEOREM NothingPlaysUnasked == Spec => []SilentWithoutCard
<1>1. Init => SilentWithoutCard
  BY DEF Init, P!Init, SilentWithoutCard
<1>2. MsgsKept => PlayOK
  BY Parts
<1>3. QED BY <1>1, <1>2, NextSilent, PoolConserved, PTL DEF Spec

-----------------------------------------------------------------------------
(* The database under the command loop.                                    *)

(* The last answer that the database task has given is true: it says       *)
(* populated of a database that is, as long as the task is not at work.    *)
LastAnswerTrue ==
  /\ dpc = "POPULATED" => db # "purged"
  /\ dpc = "wait" =>
       \A i \in 1..Len(active) :
         active[i] = "POPULATED" /\ (\A j \in (i + 1)..Len(active) : active[j] \notin DbAnswers)
           => db # "purged"
AnswersOK == LastAnswerTrue /\ SongsThere

(* A message of another task changes nothing that AnswersOK speaks of.     *)
LEMMA PostAnswers ==
  ASSUME TasksOK, AnswersOK, NEW m \in Contents \ DbAnswers, active' = Append(active, m),
         UNCHANGED <<blu, dmsg, dpc, db>>
  PROVE  AnswersOK'
<1>1. /\ Len(active) \in Nat /\ Len(active') = Len(active) + 1
      /\ \A i \in 1..Len(active) : active'[i] = active[i]
      /\ active'[Len(active) + 1] = m
  BY AppendLemma DEF TasksOK
<1>2. DOMAIN active = 1..Len(active) /\ active' \in Seq(Contents) /\ DOMAIN active' = 1..Len(active')
  BY AppendLemma DEF TasksOK
<1>3. m # "POPULATED"
  BY DEF DbAnswers
<1>4. LastAnswerTrue'
  <2>1. ASSUME dpc = "wait", NEW i \in 1..Len(active'), active'[i] = "POPULATED",
               \A j \in (i + 1)..Len(active') : active'[j] \notin DbAnswers
        PROVE  db # "purged"
    <3>1. i \in 1..Len(active) /\ active[i] = "POPULATED"
      BY <1>1, <1>3, <2>1
    <3>2. \A j \in (i + 1)..Len(active) : active[j] \notin DbAnswers
      <4>1. SUFFICES ASSUME NEW j \in (i + 1)..Len(active) PROVE active[j] \notin DbAnswers
        OBVIOUS
      <4>2. j \in (i + 1)..Len(active') /\ j \in 1..Len(active)
        BY <1>1, <3>1
      <4>3. QED BY <1>1, <2>1, <4>2
    <3>3. QED BY <2>1, <3>1, <3>2 DEF AnswersOK, LastAnswerTrue
  <2>2. QED BY <2>1 DEF AnswersOK, LastAnswerTrue
<1>5. AnswerDue => AnswerDue'
  <2>1. ASSUME NEW i \in DOMAIN active, active[i] \in DbAnswers PROVE AnswerDue'
    <3>1. i \in DOMAIN active' /\ active'[i] \in DbAnswers
      BY <1>1, <1>2, <2>1
    <3>2. QED BY <3>1 DEF AnswerDue
  <2>2. QED BY <2>1 DEF AnswerDue
<1>6. QED BY <1>4, <1>5 DEF AnswersOK, SongsThere

(* Nor does the removal of the message at the head, unless it is the last  *)
(* answer.                                                                 *)
LEMMA TakeAnswers ==
  ASSUME TasksOK, AnswersOK, active # <<>>, active' = Tail(active), UNCHANGED <<dmsg, dpc, db>>
  PROVE  /\ LastAnswerTrue'
         /\ active[1] \notin DbAnswers /\ AnswerDue => AnswerDue'
         /\ active[1] = "POPULATED" /\ ~AnswerDue' => db' # "purged"
<1>1. /\ Len(active) \in Nat /\ Len(active) > 0 /\ Len(active') = Len(active) - 1
      /\ \A i \in 1..Len(active') : active'[i] = active[i + 1]
      /\ active' \in Seq(Contents)
  BY TailLemma DEF TasksOK
<1>2. DOMAIN active = 1..Len(active) /\ DOMAIN active' = 1..Len(active')
  BY <1>1 DEF TasksOK
<1>3. ASSUME NEW j \in 2..Len(active) PROVE j - 1 \in 1..Len(active') /\ active'[j - 1] = active[j]
  BY <1>1
<1>4. ASSUME dpc = "wait", NEW i \in 1..Len(active'), active'[i] = "POPULATED",
             \A j \in (i + 1)..Len(active') : active'[j] \notin DbAnswers
      PROVE  db # "purged"
  <2>1. i + 1 \in 1..Len(active) /\ active[i + 1] = "POPULATED"
    BY <1>1, <1>4
  <2>2. \A j \in ((i + 1) + 1)..Len(active) : active[j] \notin DbAnswers
    <3>1. SUFFICES ASSUME NEW j \in ((i + 1) + 1)..Len(active) PROVE active[j] \notin DbAnswers
      OBVIOUS
    <3>2. j \in 2..Len(active) /\ j - 1 \in (i + 1)..Len(active')
      BY <1>1
    <3>3. QED BY <1>3, <1>4, <3>2
  <2>3. QED BY <1>4, <2>1, <2>2 DEF AnswersOK, LastAnswerTrue
<1>5. LastAnswerTrue'
  BY <1>4 DEF AnswersOK, LastAnswerTrue
<1>6. ASSUME active[1] \notin DbAnswers, NEW i \in DOMAIN active, active[i] \in DbAnswers
      PROVE  AnswerDue'
  <2>1. i \in 2..Len(active)
    BY <1>1, <1>2, <1>6
  <2>2. i - 1 \in DOMAIN active' /\ active'[i - 1] \in DbAnswers
    BY <1>2, <1>3, <1>6, <2>1
  <2>3. QED BY <2>2 DEF AnswerDue
<1>7. active[1] \notin DbAnswers /\ AnswerDue => AnswerDue'
  BY <1>6 DEF AnswerDue
<1>8. ASSUME active[1] = "POPULATED", ~AnswerDue' PROVE db' # "purged"
  <2>1. dpc = "wait"
    BY <1>8 DEF AnswerDue
  <2>2. \A j \in (1 + 1)..Len(active) : active[j] \notin DbAnswers
    <3>1. SUFFICES ASSUME NEW j \in 2..Len(active) PROVE active[j] \notin DbAnswers
      OBVIOUS
    <3>2. j - 1 \in DOMAIN active' /\ active'[j - 1] = active[j]
      BY <1>2, <1>3
    <3>3. QED BY <1>8, <3>2 DEF AnswerDue
  <2>3. 1 \in 1..Len(active)
    BY <1>1
  <2>4. QED BY <1>8, <2>1, <2>2, <2>3 DEF AnswersOK, LastAnswerTrue
<1>9. QED BY <1>5, <1>7, <1>8

(* Nor does a step that leaves the queue and the database alone.           *)
LEMMA SameAnswers ==
  ASSUME AnswersOK, UNCHANGED <<active, dpc, db>>, blu' # "commands" \/ (blu' = blu /\ dmsg' = dmsg)
  PROVE  AnswersOK'
<1>1. LastAnswerTrue'
  BY DEF AnswersOK, LastAnswerTrue
<1>2. SongsThere'
  BY DEF AnswersOK, SongsThere, AnswerDue
<1>3. QED BY <1>1, <1>2 DEF AnswersOK

(* The database task answers of the database that it leaves.               *)
LEMMA DbaseAnswers == TasksOK /\ AnswersOK /\ Dbase => AnswersOK'
<1> SUFFICES ASSUME TasksOK, AnswersOK, Dbase PROVE AnswersOK'
  OBVIOUS
<1>1. CASE DbaseTake
  <2>1. dpc' = "work"
    BY <1>1 DEF DbaseTake
  <2>2. QED BY <2>1 DEF AnswersOK, LastAnswerTrue, SongsThere, AnswerDue
<1>2. CASE DbaseWork
  <2>1. dpc' \in DbAnswers /\ (dpc' = "POPULATED" => db' # "purged")
    BY <1>2 DEF DbaseWork, DbAnswers
  <2>2. dpc' # "wait"
    BY <2>1 DEF DbAnswers
  <2>3. QED BY <2>1, <2>2 DEF AnswersOK, LastAnswerTrue, SongsThere, AnswerDue
<1>3. CASE DbaseAnswer
  <2>1. dpc \in DbAnswers /\ active' = Append(active, dpc) /\ dpc' = "wait" /\ db' = db
    BY <1>3 DEF DbaseAnswer
  <2>2. /\ Len(active) \in Nat /\ Len(active') = Len(active) + 1
        /\ active'[Len(active) + 1] = dpc /\ active' \in Seq(Contents)
    BY <2>1, AppendLemma, Sets DEF TasksOK
  <2>3. ASSUME NEW i \in 1..Len(active'), active'[i] = "POPULATED",
               \A j \in (i + 1)..Len(active') : active'[j] \notin DbAnswers
        PROVE  db # "purged"
    <3>1. i = Len(active) + 1
      BY <2>1, <2>2, <2>3
    <3>2. dpc = "POPULATED"
      BY <2>2, <2>3, <3>1
    <3>3. QED BY <3>2 DEF AnswersOK, LastAnswerTrue
  <2>4. Len(active) + 1 \in DOMAIN active'
    BY <2>2
  <2>5. AnswerDue'
    BY <2>1, <2>2, <2>4 DEF AnswerDue
  <2>6. QED BY <2>1, <2>3, <2>5 DEF AnswersOK, LastAnswerTrue, SongsThere, DbAnswers
<1>4. QED BY <1>1, <1>2, <1>3 DEF Dbase

(* The BLU task enters the command loop on a POPULATED only.               *)
LEMMA BluAnswers == TasksOK /\ AnswersOK /\ Blu => AnswersOK'
<1> SUFFICES ASSUME TasksOK, AnswersOK, Blu PROVE AnswersOK'
  OBVIOUS
<1>1. ASSUME active # <<>>, active' = Tail(active), UNCHANGED <<dmsg, dpc, db>>,
             \/ blu' # "commands"
             \/ blu' = blu /\ active[1] \notin DbAnswers
             \/ active[1] = "POPULATED"
      PROVE  AnswersOK'
  <2>1. /\ LastAnswerTrue'
        /\ active[1] \notin DbAnswers /\ AnswerDue => AnswerDue'
        /\ active[1] = "POPULATED" /\ ~AnswerDue' => db' # "purged"
    BY <1>1, TakeAnswers
  <2>2. SongsThere'
    BY <1>1, <2>1 DEF AnswersOK, SongsThere
  <2>3. QED BY <2>1, <2>2 DEF AnswersOK
<1>2. ASSUME NEW m, Received(m) PROVE active # <<>> /\ m = active[1]
  BY <1>2, TailLemma DEF Received, TasksOK
<1>3. CASE MainLoop
  <2>1. PICK m \in Contents : Received(m) /\ blu' \in {"populate", "main"}
    BY <1>3 DEF MainLoop, Goto
  <2>2. QED BY <1>1, <1>2, <1>3, <2>1 DEF MainLoop, Return, dbVars
<1>4. CASE PopulatingLoop
  <2>1. PICK m \in Contents : Received(m) /\ PopulatingSince(m)
    BY <1>4 DEF PopulatingLoop
  <2>2. blu = "populating" /\ Return /\ UNCHANGED dbVars
    BY <1>4 DEF PopulatingLoop
  <2>3. blu' # "commands" \/ m = "POPULATED"
    BY <2>1, <2>2 DEF PopulatingSince
  <2>4. QED BY <1>1, <1>2, <2>1, <2>2, <2>3 DEF Return, dbVars
<1>5. CASE PopulatingFailed
  BY <1>1, <1>5 DEF PopulatingFailed, Received, dbVars
<1>6. CASE NoDiscsLoop
  <2>1. PICK m \in Contents :
          /\ Received(m)
          /\ \/ Return /\ UNCHANGED bluVars
             \/ Goto("main") /\ UNCHANGED radioVars
    BY <1>6 DEF NoDiscsLoop
  <2>2. blu = "nodiscs" /\ UNCHANGED dbVars
    BY <1>6 DEF NoDiscsLoop
  <2>3. CASE Return /\ UNCHANGED bluVars
    BY <1>1, <1>2, <2>1, <2>2, <2>3 DEF Return, dbVars, bluVars
  <2>4. CASE Goto("main") /\ UNCHANGED radioVars
    BY <2>2, <2>4, SameAnswers DEF Goto, dbVars, radioVars
  <2>5. QED BY <2>1, <2>3, <2>4
<1>7. CASE Command
  <2>1. PICK m \in PbStatuses \cup IbusCmds : Received(m)
    BY <1>7 DEF Command
  <2>2. m \notin DbAnswers
    BY <2>1 DEF DbAnswers, PbStatuses, IbusCmds, Selecting, Fast, Changing
  <2>3. blu' \in {blu, "crashed"} /\ Return /\ UNCHANGED dbVars
    BY <1>7 DEF Command, Goto
  <2>4. QED BY <1>1, <1>2, <2>1, <2>2, <2>3 DEF Return, dbVars
<1>8. CASE CommandLoopEnds
  <2>1. PICK m : Received(m)
    BY <1>8 DEF CommandLoopEnds
  <2>2. QED BY <1>1, <1>2, <1>8, <2>1 DEF CommandLoopEnds, Return, dbVars
<1>9. CASE StopPlayback
  BY <1>9, SameAnswers DEF StopPlayback, Goto, dbVars, radioVars
<1>10. CASE PurgingLoop
  <2>1. PICK m \in Contents : Received(m) /\ blu' \in {blu, "main"}
    BY <1>10 DEF PurgingLoop, Goto, bluVars
  <2>2. QED BY <1>1, <1>2, <1>10, <2>1 DEF PurgingLoop, Return, dbVars
<1>11. CASE AskDatabase("populate", "populate", "populating") \/ AskDatabase("purge", "purge", "purging")
  BY <1>11, SameAnswers DEF AskDatabase, Goto, radioVars
<1>12. QED
  BY <1>3, <1>4, <1>5, <1>6, <1>7, <1>8, <1>9, <1>10, <1>11 DEF Blu

(* The last answer stays true in every step.                               *)
LEMMA NextAnswers == TasksOK /\ PlayOK /\ AnswersOK /\ [Next]_vars => AnswersOK'
<1> SUFFICES ASSUME TasksOK, PlayOK, AnswersOK, [Next]_vars PROVE AnswersOK'
  OBVIOUS
<1>1. CASE IbusTake \/ Play \/ UNCHANGED vars
  BY <1>1, SameAnswers DEF IbusTake, Play, vars, radioVars, bluVars, dbVars
<1>2. CASE IbusCommand
  <2>1. PICK m \in Commands : active' = Append(active, m)
    BY <1>2 DEF IbusCommand
  <2>2. m \in Contents \ DbAnswers
    BY <2>1, Sets
  <2>3. QED BY <1>2, <2>1, <2>2, PostAnswers DEF IbusCommand, bluVars, dbVars
<1>3. CASE PollTimeout
  <2>1. "STOP" \in Contents \ DbAnswers
    BY Sets
  <2>2. QED BY <1>3, <2>1, PostAnswers DEF PollTimeout, TakeAndPost, bluVars, dbVars
<1>4. CASE CardStatus
  <2>1. card' \in Contents \ DbAnswers
    BY <1>4, Sets DEF CardStatus, TasksOK
  <2>2. QED BY <1>4, <2>1, PostAnswers DEF CardStatus, TakeAndPost, bluVars, dbVars
<1>5. CASE PlaybackCb
  <2>1. heard # <<>>
    BY <1>5 DEF PlaybackCb, P!Listen
  <2>2. Head(heard) \in (DOMAIN Notice) \X {0}
    BY <2>1, TailLemma DEF PlayOK
  <2>3. Notice[Head(heard)[1]] \in Contents \ DbAnswers
    BY <2>2, Sets
  <2>4. QED BY <1>5, <2>3, PostAnswers DEF PlaybackCb, TakeAndPost, bluVars, dbVars
<1>6. QED
  BY <1>1, <1>2, <1>3, <1>4, <1>5, DbaseAnswers, BluAnswers DEF Next

(* The command loop runs over a populated database, unless an answer is    *)
(* due that will end it.                                                   *)
THEOREM CommandsHaveSongs == Spec => []SongsThere
<1>1. Init => AnswersOK
  BY DEF Init, AnswersOK, LastAnswerTrue, SongsThere
<1>2. MsgsKept => TasksOK /\ PlayOK
  BY Parts
<1>3. AnswersOK => SongsThere
  BY DEF AnswersOK
<1>4. QED BY <1>1, <1>2, <1>3, NextAnswers, PoolConserved, PTL DEF Spec


-----------------------------------------------------------------------------
(* The removal of the card.                                                *)

(* The places from which the BLU task goes for, or takes commands of, a    *)
(* card; it is there while the last thing it has been told is MOUNTED.     *)
Loops == {"populate", "populating", "nodiscs", "commands"}
LastTold(q) ==
  \E i \in 1..Len(q) :
    q[i] = card /\ \A j \in (i + 1)..Len(q) : q[j] \notin CardStatuses
NotTold(q) == \A j \in 1..Len(q) : q[j] \notin CardStatuses
CardTold == LastTold(active) \/ (NotTold(active) /\ (blu \in Loops => card = "MOUNTED"))

(* Whoever drops all that comes until the database is purged has asked for *)
(* that, and the answer is due.                                            *)
IsIn(m, q) == \E i \in 1..Len(q) : q[i] = m
PurgeDue == blu = "purging" => dmsg = "purge" \/ dpc = "PURGED" \/ IsIn("PURGED", active)

(* A message that is posted comes last.                                    *)
LEMMA PostIn ==
  ASSUME NEW q \in Seq(Contents), NEW m \in Contents
  PROVE  /\ IsIn(m, Append(q, m))
         /\ \A n : IsIn(n, q) => IsIn(n, Append(q, m))
<1>1. /\ Len(q) \in Nat /\ Len(Append(q, m)) = Len(q) + 1
      /\ \A k \in 1..Len(q) : Append(q, m)[k] = q[k]
      /\ Append(q, m)[Len(q) + 1] = m
  BY AppendLemma
<1>2. PICK r : r = Append(q, m)
  OBVIOUS
<1>3. IsIn(m, r)
  BY <1>1, <1>2 DEF IsIn
<1>4. ASSUME NEW n, IsIn(n, q) PROVE IsIn(n, r)
  BY <1>1, <1>2, <1>4 DEF IsIn
<1>5. QED BY <1>2, <1>3, <1>4

(* The one that is taken is the first.                                     *)
LEMMA TakeIn ==
  ASSUME NEW q \in Seq(Contents), q # <<>>, NEW n, IsIn(n, q), q[1] # n
  PROVE  IsIn(n, Tail(q))
<1>1. /\ Len(q) \in Nat /\ Len(q) > 0 /\ Len(Tail(q)) = Len(q) - 1
      /\ \A i \in 1..Len(Tail(q)) : Tail(q)[i] = q[i + 1]
  BY TailLemma
<1>2. PICK r : r = Tail(q)
  OBVIOUS
<1>3. PICK i \in 1..Len(q) : q[i] = n
  BY DEF IsIn
<1>4. i - 1 \in 1..Len(r) /\ r[i - 1] = n
  BY <1>1, <1>2, <1>3
<1>5. QED BY <1>2, <1>4 DEF IsIn

(* A post that is not the card's leaves the card's last word the last; the *)
(* card's own is its status.                                               *)
LEMMA PostCard ==
  ASSUME TasksOK, CardTold, NEW m \in Contents, active' = Append(active, m), blu' = blu,
         \/ m \notin CardStatuses /\ card' = card
         \/ m = card'
  PROVE  CardTold'
<1>1. /\ Len(active) \in Nat /\ Len(active') = Len(active) + 1
      /\ \A k \in 1..Len(active) : active'[k] = active[k]
      /\ active'[Len(active) + 1] = m
  BY AppendLemma DEF TasksOK
<1>2. CASE m = card'
  <2>1. Len(active') \in 1..Len(active') /\ active'[Len(active')] = card'
    BY <1>1, <1>2
  <2>2. (Len(active') + 1)..Len(active') = {}
    BY <1>1
  <2>3. LastTold(active)'
    BY <2>1, <2>2 DEF LastTold
  <2>4. QED BY <2>3 DEF CardTold
<1>3. CASE m \notin CardStatuses /\ card' = card
  <2>1. CASE LastTold(active)
    <3>1. PICK i \in 1..Len(active) :
            active[i] = card /\ \A j \in (i + 1)..Len(active) : active[j] \notin CardStatuses
      BY <2>1 DEF LastTold
    <3>2. i \in 1..Len(active') /\ active'[i] = card'
      BY <1>1, <1>3, <3>1
    <3>3. ASSUME NEW j \in (i + 1)..Len(active') PROVE active'[j] \notin CardStatuses
      <4>1. j \in (i + 1)..Len(active) \/ j = Len(active) + 1
        BY <1>1, <3>1
      <4>2. j \in (i + 1)..Len(active) => j \in 1..Len(active)
        BY <3>1
      <4>3. QED BY <1>1, <1>3, <3>1, <4>1, <4>2
    <3>4. LastTold(active)'
      BY <3>2, <3>3 DEF LastTold
    <3>5. QED BY <3>4 DEF CardTold
  <2>2. CASE NotTold(active) /\ (blu \in Loops => card = "MOUNTED")
    <3>1. ASSUME NEW j \in 1..Len(active') PROVE active'[j] \notin CardStatuses
      <4>1. j \in 1..Len(active) \/ j = Len(active) + 1
        BY <1>1
      <4>2. QED BY <1>1, <1>3, <2>2, <4>1 DEF NotTold
    <3>2. NotTold(active)'
      BY <3>1 DEF NotTold
    <3>3. QED BY <1>3, <2>2, <3>2 DEF CardTold
  <2>3. QED BY <2>1, <2>2 DEF CardTold
<1>4. QED BY <1>2, <1>3

(* Taking a message leaves it the last, unless it is the one taken; then   *)
(* it must not lead to a card that is not mounted.                         *)
LEMMA TakeCard ==
  ASSUME TasksOK, CardTold, active # <<>>, active' = Tail(active), card' = card,
         active[1] \in CardStatuses /\ blu' \in Loops => active[1] = "MOUNTED",
         active[1] \notin CardStatuses /\ blu' \in Loops => blu \in Loops
  PROVE  CardTold'
<1>1. /\ Len(active) \in Nat /\ Len(active) > 0 /\ Len(active') = Len(active) - 1
      /\ \A k \in 1..Len(active') : active'[k] = active[k + 1]
  BY TailLemma DEF TasksOK
<1>2. CASE LastTold(active)
  <2>1. PICK i \in 1..Len(active) :
          active[i] = card /\ \A j \in (i + 1)..Len(active) : active[j] \notin CardStatuses
    BY <1>2 DEF LastTold
  <2>2. ASSUME NEW j \in i..Len(active') PROVE active'[j] \notin CardStatuses
    <3>1. j \in 1..Len(active') /\ j + 1 \in (i + 1)..Len(active)
      BY <1>1, <2>1
    <3>2. QED BY <1>1, <2>1, <3>1
  <2>3. CASE i = 1
    <3>1. NotTold(active)'
      BY <2>2, <2>3 DEF NotTold
    <3>2. card \in CardStatuses /\ active[1] = card
      BY <2>1, <2>3 DEF TasksOK
    <3>3. blu' \in Loops => card' = "MOUNTED"
      BY <3>2
    <3>4. QED BY <3>1, <3>3 DEF CardTold
  <2>4. CASE i > 1
    <3>1. i - 1 \in 1..Len(active') /\ active'[i - 1] = card'
      BY <1>1, <2>1, <2>4
    <3>2. (i - 1) + 1 = i
      BY <2>1
    <3>3. LastTold(active)'
      BY <2>2, <3>1, <3>2 DEF LastTold
    <3>4. QED BY <3>3 DEF CardTold
  <2>5. QED BY <2>1, <2>3, <2>4
<1>3. CASE NotTold(active) /\ (blu \in Loops => card = "MOUNTED")
  <2>1. ASSUME NEW j \in 1..Len(active') PROVE active'[j] \notin CardStatuses
    <3>1. j + 1 \in 1..Len(active)
      BY <1>1
    <3>2. QED BY <1>1, <1>3, <2>1, <3>1 DEF NotTold
  <2>2. NotTold(active)'
    BY <2>1 DEF NotTold
  <2>3. active[1] \notin CardStatuses
    BY <1>1, <1>3 DEF NotTold
  <2>4. QED BY <1>3, <2>2, <2>3 DEF CardTold
<1>4. QED BY <1>2, <1>3 DEF CardTold

(* A step that leaves the queue alone does not take the task there.        *)
LEMMA SameCard ==
  ASSUME CardTold, UNCHANGED <<active, card>>, blu' \in Loops => blu \in Loops
  PROVE  CardTold'
BY DEF CardTold, LastTold, NotTold

(* The BLU task goes for a card when it is told that it is mounted, and    *)
(* stays until it is told anything else of the card.                       *)
LEMMA BluCard == TasksOK /\ CardTold /\ Blu => CardTold'
<1> SUFFICES ASSUME TasksOK, CardTold, Blu PROVE CardTold'
  OBVIOUS
<1>1. ASSUME NEW m, Received(m) PROVE active # <<>> /\ m = active[1]
  BY <1>1, TailLemma DEF Received, TasksOK
<1>2. ASSUME NEW m, Received(m), active' = Tail(active), card' = card,
             m \in CardStatuses /\ blu' \in Loops => m = "MOUNTED",
             m \notin CardStatuses /\ blu' \in Loops => blu \in Loops
      PROVE  CardTold'
  BY <1>1, <1>2, TakeCard
<1>3. CASE MainLoop
  <2>1. PICK m \in Contents : Received(m) /\ blu' = (IF m = "MOUNTED" THEN "populate" ELSE "main")
    BY <1>3 DEF MainLoop, Goto
  <2>2. active' = Tail(active) /\ card' = card
    BY <1>3 DEF MainLoop, Return
  <2>3. "MOUNTED" \in CardStatuses /\ (blu' \in Loops => m = "MOUNTED")
    BY <2>1, Sets DEF Loops
  <2>4. QED BY <1>2, <2>1, <2>2, <2>3
<1>4. CASE PopulatingLoop
  <2>1. PICK m \in Contents : Received(m) /\ PopulatingSince(m)
    BY <1>4 DEF PopulatingLoop
  <2>2. blu = "populating" /\ active' = Tail(active) /\ card' = card
    BY <1>4 DEF PopulatingLoop, Return
  <2>3. m \in CardStatuses => m # "POPULATED" /\ m \notin IbusCmds
    BY Sets DEF IbusCmds, Selecting, Fast, Changing
  <2>4. m \in CardStatuses => blu' = "main"
    BY <2>1, <2>3 DEF PopulatingSince
  <2>5. QED BY <1>2, <2>1, <2>2, <2>4 DEF Loops
<1>5. CASE PopulatingFailed
  <2>1. Received("UNPOPULATED") /\ active' = Tail(active) /\ card' = card /\ blu = "populating"
    BY <1>5 DEF PopulatingFailed
  <2>2. "UNPOPULATED" \notin CardStatuses
    BY Sets
  <2>3. QED BY <1>2, <2>1, <2>2 DEF Loops
<1>6. CASE NoDiscsLoop
  <2>1. PICK m \in Contents :
          /\ Received(m)
          /\ \/ Return /\ UNCHANGED bluVars /\ m \in PbStatuses \cup IbusCmds
             \/ Goto("main") /\ UNCHANGED radioVars
    BY <1>6 DEF NoDiscsLoop
  <2>2. card' = card
    BY <1>6 DEF NoDiscsLoop
  <2>3. CASE Return /\ UNCHANGED bluVars /\ m \in PbStatuses \cup IbusCmds
    <3>1. m \notin CardStatuses
      BY <2>3, Sets DEF PbStatuses, IbusCmds, Selecting, Fast, Changing
    <3>2. QED BY <1>2, <2>1, <2>2, <2>3, <3>1 DEF Return, bluVars
  <2>4. CASE Goto("main") /\ UNCHANGED radioVars
    BY <2>2, <2>4, SameCard DEF Goto, Loops, radioVars
  <2>5. QED BY <2>1, <2>3, <2>4
<1>7. CASE Command
  <2>1. PICK m \in PbStatuses \cup IbusCmds : Received(m)
    BY <1>7 DEF Command
  <2>2. m \notin CardStatuses
    BY <2>1, Sets DEF PbStatuses, IbusCmds, Selecting, Fast, Changing
  <2>3. blu = "commands" /\ active' = Tail(active) /\ card' = card
    BY <1>7 DEF Command, Return
  <2>4. QED BY <1>2, <2>1, <2>2, <2>3 DEF Loops
<1>8. CASE CommandLoopEnds
  <2>1. PICK m : Received(m)
    BY <1>8 DEF CommandLoopEnds
  <2>2. blu' = "stop" /\ active' = Tail(active) /\ card' = card
    BY <1>8 DEF CommandLoopEnds, Return
  <2>3. QED BY <1>2, <2>1, <2>2 DEF Loops
<1>9. CASE StopPlayback
  BY <1>9, SameCard DEF StopPlayback, Goto, Loops, radioVars
<1>10. CASE PurgingLoop
  <2>1. PICK m : Received(m)
    BY <1>10 DEF PurgingLoop
  <2>2. blu' \in {"purging", "main"} /\ active' = Tail(active) /\ card' = card
    BY <1>10 DEF PurgingLoop, Return, Goto, bluVars
  <2>3. QED BY <1>2, <2>1, <2>2 DEF Loops
<1>11. CASE AskDatabase("populate", "populate", "populating")
  BY <1>11, SameCard DEF AskDatabase, Goto, Loops, radioVars
<1>12. CASE AskDatabase("purge", "purge", "purging")
  BY <1>12, SameCard DEF AskDatabase, Goto, Loops, radioVars
<1>13. QED
  BY <1>3, <1>4, <1>5, <1>6, <1>7, <1>8, <1>9, <1>10, <1>11, <1>12 DEF Blu

(* Every task that posts, posts something well-typed and not of the card,  *)
(* but for the card itself.                                                *)
LEMMA Posts ==
  ASSUME TasksOK, PlayOK, IbusCommand \/ PollTimeout \/ CardStatus \/ PlaybackCb \/ DbaseAnswer
  PROVE  \E m \in Contents : /\ active' = Append(active, m) /\ blu' = blu
                             /\ \/ m \notin CardStatuses /\ card' = card
                                \/ m = card'
<1>1. \A m \in PbStatuses \cup IbusCmds \cup DbAnswers : m \in Contents \ CardStatuses
  BY Sets DEF Contents, PbStatuses, IbusCmds, Selecting, Fast, Changing, DbAnswers
<1>2. ASSUME NEW m \in PbStatuses \cup IbusCmds \cup DbAnswers, active' = Append(active, m),
             blu' = blu, card' = card
      PROVE  \E n \in Contents : /\ active' = Append(active, n) /\ blu' = blu
                                 /\ \/ n \notin CardStatuses /\ card' = card
                                    \/ n = card'
  BY <1>1, <1>2
<1>3. CASE IbusCommand
  <2>1. PICK m \in Commands : active' = Append(active, m)
    BY <1>3 DEF IbusCommand
  <2>2. m \in IbusCmds
    BY <2>1, RadioAssumption
  <2>3. QED BY <1>2, <1>3, <2>1, <2>2 DEF IbusCommand, bluVars
<1>4. CASE PollTimeout
  <2>1. "STOP" \in IbusCmds
    BY DEF IbusCmds
  <2>2. QED BY <1>2, <1>4, <2>1 DEF PollTimeout, TakeAndPost, bluVars
<1>5. CASE CardStatus
  <2>1. card' \in Contents
    BY <1>5, Sets DEF CardStatus, TasksOK
  <2>2. QED BY <1>5, <2>1 DEF CardStatus, TakeAndPost, bluVars
<1>6. CASE PlaybackCb
  <2>1. heard # <<>>
    BY <1>6 DEF PlaybackCb, P!Listen
  <2>2. Head(heard) \in (DOMAIN Notice) \X {0}
    BY <2>1, TailLemma DEF PlayOK
  <2>3. Notice[Head(heard)[1]] \in PbStatuses
    BY <2>2, Sets
  <2>4. QED BY <1>2, <1>6, <2>3 DEF PlaybackCb, TakeAndPost, bluVars
<1>7. CASE DbaseAnswer
  <2>1. dpc \in DbAnswers
    BY <1>7 DEF DbaseAnswer
  <2>2. QED BY <1>2, <1>7, <2>1 DEF DbaseAnswer, bluVars
<1>8. QED BY <1>3, <1>4, <1>5, <1>6, <1>7

(* The BLU task knows of the card, or will be told.                        *)
LEMMA NextCardTold == TasksOK /\ PlayOK /\ CardTold /\ [Next]_vars => CardTold'
<1> SUFFICES ASSUME TasksOK, PlayOK, CardTold, [Next]_vars PROVE CardTold'
  OBVIOUS
<1>1. CASE IbusTake \/ DbaseTake \/ DbaseWork \/ Play \/ UNCHANGED vars
  BY <1>1, SameCard DEF IbusTake, DbaseTake, DbaseWork, Play, vars, radioVars, bluVars
<1>2. CASE IbusCommand \/ PollTimeout \/ CardStatus \/ PlaybackCb \/ DbaseAnswer
  <2>1. PICK m \in Contents : /\ active' = Append(active, m) /\ blu' = blu
                              /\ \/ m \notin CardStatuses /\ card' = card
                                 \/ m = card'
    BY <1>2, Posts
  <2>2. QED BY <2>1, PostCard
<1>3. QED BY <1>1, <1>2, BluCard DEF Next, Dbase

(* The answer of a purge is due until it is taken.                         *)
LEMMA NextPurgeDue == TasksOK /\ PlayOK /\ PurgeDue /\ [Next]_vars => PurgeDue'
<1> SUFFICES ASSUME TasksOK, PlayOK, PurgeDue, [Next]_vars PROVE PurgeDue'
  OBVIOUS
<1>1. ASSUME blu' # "purging" PROVE PurgeDue'
  BY <1>1 DEF PurgeDue
<1>2. ASSUME UNCHANGED <<active, blu, dmsg, dpc>> PROVE PurgeDue'
  BY <1>2 DEF PurgeDue, IsIn
<1>3. CASE IbusTake \/ Play \/ UNCHANGED vars
  BY <1>2, <1>3 DEF IbusTake, Play, vars, radioVars, bluVars, dbVars
<1>4. CASE IbusCommand \/ PollTimeout \/ CardStatus \/ PlaybackCb \/ DbaseAnswer
  <2>1. PICK m \in Contents : active' = Append(active, m) /\ blu' = blu
    BY <1>4, Posts
  <2>2. PICK r : r = active'
    OBVIOUS
  <2>3. active \in Seq(Contents)
    BY DEF TasksOK
  <2>4. IsIn(m, r) /\ (IsIn("PURGED", active) => IsIn("PURGED", r))
    BY <2>1, <2>2, <2>3, PostIn
  <2>5. CASE DbaseAnswer
    <3>1. active' = Append(active, dpc) /\ dmsg' = dmsg /\ dpc \in DbAnswers
      BY <2>5 DEF DbaseAnswer
    <3>2. dpc \in Contents
      BY <3>1, Sets
    <3>3. IsIn(dpc, r)
      BY <2>2, <2>3, <3>1, <3>2, PostIn
    <3>4. IsIn("PURGED", active)' <=> IsIn("PURGED", r)
      BY <2>2 DEF IsIn
    <3>5. QED BY <2>1, <2>4, <3>1, <3>3, <3>4 DEF PurgeDue
  <2>6. CASE ~DbaseAnswer
    <3>1. UNCHANGED <<dmsg, dpc>>
      BY <1>4, <2>6 DEF IbusCommand, PollTimeout, CardStatus, PlaybackCb, dbVars
    <3>2. IsIn("PURGED", active)' <=> IsIn("PURGED", r)
      BY <2>2 DEF IsIn
    <3>3. QED BY <2>1, <2>4, <3>1, <3>2 DEF PurgeDue
  <2>7. QED BY <2>5, <2>6
<1>5. CASE DbaseTake
  BY <1>5 DEF DbaseTake, PurgeDue, IsIn, bluVars
<1>6. CASE DbaseWork
  <2>1. /\ dpc = "work" /\ UNCHANGED <<active, blu>>
        /\ dmsg = "purge" => dpc' = "PURGED"
    BY <1>6 DEF DbaseWork, radioVars, bluVars
  <2>2. QED BY <2>1 DEF PurgeDue, IsIn
<1>7. CASE Blu
  <2>1. CASE AskDatabase("purge", "purge", "purging")
    BY <2>1 DEF AskDatabase, PurgeDue
  <2>2. CASE PurgingLoop
    <3>1. PICK m \in Contents : Received(m) /\ (IF m = "PURGED" THEN blu' = "main" ELSE blu' = blu)
      BY <2>2 DEF PurgingLoop, Goto, bluVars
    <3>2. /\ active # <<>> /\ m = active[1] /\ active \in Seq(Contents)
      BY <3>1, TailLemma DEF Received, TasksOK
    <3>3. blu = "purging" /\ active' = Tail(active) /\ UNCHANGED <<dmsg, dpc>>
      BY <2>2 DEF PurgingLoop, Return, dbVars
    <3>4. CASE m = "PURGED"
      BY <1>1, <3>1, <3>4
    <3>5. CASE m # "PURGED"
      <4>1. PICK r : r = Tail(active)
        OBVIOUS
      <4>2. IsIn("PURGED", active) => IsIn("PURGED", r)
        BY <3>2, <3>5, <4>1, TakeIn
      <4>3. IsIn("PURGED", active)' <=> IsIn("PURGED", r)
        BY <3>3, <4>1 DEF IsIn
      <4>4. QED BY <3>3, <4>2, <4>3 DEF PurgeDue
    <3>6. QED BY <3>4, <3>5
  <2>3. CASE ~AskDatabase("purge", "purge", "purging") /\ ~PurgingLoop
    <3>1. blu' # "purging"
      <4>1. CASE MainLoop
        BY <4>1 DEF MainLoop, Goto
      <4>2. CASE AskDatabase("populate", "populate", "populating")
        BY <4>2 DEF AskDatabase, Goto
      <4>3. CASE PopulatingLoop
        BY <4>3 DEF PopulatingLoop, PopulatingSince
      <4>4. CASE PopulatingFailed
        BY <4>4 DEF PopulatingFailed
      <4>5. CASE NoDiscsLoop
        BY <4>5 DEF NoDiscsLoop, Goto, bluVars
      <4>6. CASE Command
        BY <4>6 DEF Command, Goto
      <4>7. CASE CommandLoopEnds \/ StopPlayback
        BY <4>7 DEF CommandLoopEnds, StopPlayback, Goto
      <4>8. QED
        BY <1>7, <2>3, <4>1, <4>2, <4>3, <4>4, <4>5, <4>6, <4>7 DEF Blu
    <3>2. QED BY <1>1, <3>1
  <2>4. QED BY <2>1, <2>2, <2>3
<1>8. QED
  BY <1>3, <1>4, <1>5, <1>6, <1>7 DEF Next, Dbase

(* While the card is gone the BLU task waits for the next one, or stops    *)
(* what plays and asks for a purge, or waits for its answer, which is due, *)
(* or the message that the card has been removed waits for it: whichever   *)
(* loop it is in and whatever it drops there, it never misses a removal.   *)
THEOREM RemovalNotMissed ==
  Spec => [](card = "REMOVED" =>
               \/ blu \in {"main", "stop", "purge", "crashed"}
               \/ blu = "purging" /\ (dmsg = "purge" \/ dpc = "PURGED" \/ IsIn("PURGED", active))
               \/ blu \in Loops /\ IsIn("REMOVED", active))
<1>1. Init => CardTold /\ PurgeDue
  <2> SUFFICES ASSUME Init PROVE NotTold(active) /\ blu = "main"
    BY DEF CardTold, PurgeDue, Loops
  <2>2. active = <<>> /\ blu = "main"
    BY DEF Init
  <2>3. Len(active) = 0
    BY <2>2
  <2>4. QED BY <2>2, <2>3 DEF NotTold
<1>2. MsgsKept => TasksOK /\ BluOK /\ PlayOK
  BY Parts
<1>3. TasksOK /\ PlayOK /\ CardTold /\ PurgeDue /\ [Next]_vars => CardTold' /\ PurgeDue'
  BY NextCardTold, NextPurgeDue
<1>4. ASSUME TasksOK, BluOK, CardTold, PurgeDue, card = "REMOVED"
      PROVE  \/ blu \in {"main", "stop", "purge", "crashed"}
             \/ blu = "purging" /\ (dmsg = "purge" \/ dpc = "PURGED" \/ IsIn("PURGED", active))
             \/ blu \in Loops /\ IsIn("REMOVED", active)
  <2>1. blu \in {"main", "stop", "purge", "crashed", "purging"} \cup Loops
    BY <1>4 DEF BluOK, Loops
  <2>2. blu \in Loops => IsIn("REMOVED", active)
    BY <1>4 DEF CardTold, LastTold, IsIn
  <2>3. QED BY <1>4, <2>1, <2>2 DEF PurgeDue
<1>5. MsgsKept /\ CardTold /\ PurgeDue =>
        (card = "REMOVED" =>
           \/ blu \in {"main", "stop", "purge", "crashed"}
           \/ blu = "purging" /\ (dmsg = "purge" \/ dpc = "PURGED" \/ IsIn("PURGED", active))
           \/ blu \in Loops /\ IsIn("REMOVED", active))
  BY <1>2, <1>4
<1>6. QED BY <1>1, <1>2, <1>3, <1>5, PoolConserved, PTL DEF Spec

-----------------------------------------------------------------------------
(* Waiting for another task.                                               *)

(* A request whose pool place is not free again has just been answered.    *)
Answering == answering => heard # <<>>

LEMMA NextAnswering == Answering /\ [Next]_vars => Answering'
<1> SUFFICES ASSUME Answering, [Next]_vars PROVE Answering'
  OBVIOUS
<1>1. CASE UNCHANGED playVars
  BY <1>1 DEF Answering, playVars
<1>2. CASE Play
  BY <1>2 DEF Play, Answering
<1>3. CASE PlaybackCb
  BY <1>3 DEF PlaybackCb, Answering
<1>4. CASE Command \/ StopPlayback
  <2>1. UNCHANGED <<heard, answering>>
    BY <1>4 DEF Command, StopPlayback, Ask, playVars
  <2>2. QED BY <2>1 DEF Answering
<1>5. CASE IbusTake \/ IbusCommand \/ PollTimeout \/ CardStatus
  BY <1>1, <1>5 DEF IbusTake, IbusCommand, PollTimeout, CardStatus
<1>6. CASE Dbase
  BY <1>1, <1>6 DEF Dbase, DbaseTake, DbaseWork, DbaseAnswer
<1>7. CASE MainLoop \/ PopulatingLoop \/ PopulatingFailed \/ NoDiscsLoop \/ CommandLoopEnds
           \/ PurgingLoop
  BY <1>1, <1>7 DEF MainLoop, PopulatingLoop, PopulatingFailed, NoDiscsLoop, CommandLoopEnds, PurgingLoop
<1>8. CASE \/ AskDatabase("populate", "populate", "populating")
           \/ AskDatabase("purge", "purge", "purging")
  BY <1>1, <1>8 DEF AskDatabase
<1>9. CASE UNCHANGED vars
  BY <1>1, <1>9 DEF vars
<1>10. QED
  BY <1>2, <1>3, <1>4, <1>5, <1>6, <1>7, <1>8, <1>9 DEF Next, Blu

(* What the BLU task may wait for outside its queue: a free message of the *)
(* playback, or that of the database.  The tasks that give them up can go  *)
(* on: the playback, its callback, the database task.                      *)
WaitsForPlayback == blu \in {"commands", "stop"} /\ ~Room
WaitsForDatabase == blu \in {"populate", "purge"} /\ dmsg # "idle"
PlaybackCan == (heard = <<>> /\ pending # <<>>) \/ (heard # <<>> /\ idle > 0)
DatabaseCan == (dpc = "wait" => idle > 0)

(* With two messages of the playback or more, the BLU task waits in vain   *)
(* in one case only, when none of its own pool is free: MutualWait is the  *)
(* only way in which these tasks wait on each other.                       *)
THEOREM OnlyMutualWait ==
  ASSUME PB_MSG_MAX > 1
  PROVE  Spec => [](/\ WaitsForPlayback => PlaybackCan \/ MutualWait
                    /\ WaitsForDatabase => DatabaseCan \/ MutualWait)
<1>1. Init => Answering
  BY DEF Init, Answering
<1>2. ASSUME TasksOK, PlayOK, Answering, WaitsForPlayback PROVE PlaybackCan \/ MutualWait
  <2>1. CASE heard # <<>>
    <3>1. idle > 0 \/ idle = 0
      BY <1>2 DEF TasksOK
    <3>2. QED BY <1>2, <2>1, <3>1 DEF WaitsForPlayback, PlaybackCan, MutualWait
  <2>2. CASE heard = <<>>
    <3>1. ~answering
      BY <1>2, <2>2 DEF Answering
    <3>2. PICK n \in {0, 1} : n = (IF song = None THEN 0 ELSE 1)
      OBVIOUS
    <3>3. Held = Len(pending) + n + 0
      BY <3>1, <3>2 DEF Held
    <3>4. pending = <<>> => Len(pending) = 0
      OBVIOUS
    <3>5. pending = <<>> => Held < PB_MSG_MAX
      BY <3>2, <3>3, <3>4, RadioAssumption
    <3>6. QED BY <1>2, <2>2, <3>5 DEF WaitsForPlayback, Room, PlaybackCan
  <2>3. QED BY <2>1, <2>2
<1>3. ASSUME TasksOK, WaitsForDatabase PROVE DatabaseCan \/ MutualWait
  <2>1. idle > 0 \/ idle = 0
    BY <1>3 DEF TasksOK
  <2>2. QED BY <1>3, <2>1 DEF WaitsForDatabase, DatabaseCan, MutualWait
<1>4. MsgsKept /\ Answering =>
        /\ WaitsForPlayback => PlaybackCan \/ MutualWait
        /\ WaitsForDatabase => DatabaseCan \/ MutualWait
  BY <1>2, <1>3, Parts
<1>5. QED BY <1>1, <1>4, NextAnswering, PoolConserved, PTL DEF Spec

-----------------------------------------------------------------------------
(* What the radio is told of the playback.                                 *)

(* The radio interface asks for a notice of everything but a stop; the     *)
(* playback has a song while it is not stopped, and gives a notice only    *)
(* when the last one is consumed.                                          *)
PlaybackOK ==
  /\ \A i \in 1..Len(pending) : pending[i].cmd # "STOP" => pending[i].cb
  /\ phase = "stopped" <=> song = None
  /\ Len(heard) <= 1

(* In the command loop a song has been selected before anything plays.     *)
Selected == blu = "commands" /\ ~Silent => ui.song

(* While a song plays and nothing else is asked for, the last notice on    *)
(* its way says so, or the interface has been told.                        *)
NoneAfter(n) == \A j \in (n + 1)..Len(active) : active[j] \notin PbStatuses
Shown ==
  \/ heard # <<>> /\ heard[1][1] = "PLAYING"
  \/ heard = <<>> /\ \E i \in 1..Len(active) : active[i] = "PLAYING" /\ NoneAfter(i)
  \/ heard = <<>> /\ NoneAfter(0) /\ ui.status \notin {"STOPPED", "PAUSED"}
Told == blu = "commands" /\ phase = "playing" /\ pending = <<>> => Shown

NoSeek == \A i \in 1..Len(active) : active[i] # "SEEK"

StatusInv == PlaybackOK /\ Selected /\ Told /\ NoSeek

(* A notice in an empty mailbox.                                           *)
LEMMA NotifyLemma ==
  ASSUME NEW r \in P!Request, NEW s \in DOMAIN Notice, heard = <<>>, P!Notify(r, s)
  PROVE  /\ Len(heard') <= 1
         /\ r.cb => heard' # <<>> /\ heard'[1][1] = s
<1>1. CASE r.cb
  <2>1. heard' = <<<<s, r.tx>>>>
    BY <1>1 DEF P!Notify
  <2>2. QED BY <2>1
<1>2. CASE ~r.cb
  BY <1>2 DEF P!Notify
<1>3. QED BY <1>1, <1>2

LEMMA NextPlayback == PlayOK /\ PlaybackOK /\ [Next]_vars => PlaybackOK'
<1> SUFFICES ASSUME PlayOK, PlaybackOK, [Next]_vars PROVE PlaybackOK'
  OBVIOUS
<1>0. {"PLAYING", "ERROR", "PAUSED", "STOPPED", "END_OF_SONG"} = DOMAIN Notice
  BY Sets
<1>1. CASE UNCHANGED <<pending, song, phase, heard>>
  BY <1>1 DEF PlaybackOK
<1>2. ASSUME NEW cmd \in {"PLAY", "RESUME", "PAUSE", "STOP"}, NEW cb \in BOOLEAN, Ask(cmd, cb),
             cmd = "STOP" \/ cb
      PROVE  PlaybackOK'
  <2> DEFINE r == [cmd |-> cmd, tx |-> 0, cb |-> cb]
  <2>1. pending' = Append(pending, r) /\ UNCHANGED <<song, phase, heard>>
    BY <1>2 DEF Ask
  <2>2. r \in P!Request /\ r.cmd = cmd /\ r.cb = cb
    BY DEF P!Request
  <2> HIDE DEF r
  <2>3. /\ Len(pending) \in Nat /\ Len(pending') = Len(pending) + 1
        /\ \A i \in 1..Len(pending) : pending'[i] = pending[i]
        /\ pending'[Len(pending) + 1] = r
    BY <2>1, <2>2, AppendLemma DEF PlayOK
  <2>4. ASSUME NEW i \in 1..Len(pending'), pending'[i].cmd # "STOP" PROVE pending'[i].cb
    <3>1. CASE i = Len(pending) + 1
      BY <1>2, <2>2, <2>3, <2>4, <3>1
    <3>2. CASE i # Len(pending) + 1
      <4>1. i \in 1..Len(pending)
        BY <2>3, <3>2
      <4>2. QED BY <2>3, <2>4, <4>1 DEF PlaybackOK
    <3>3. QED BY <3>1, <3>2
  <2>5. QED BY <2>1, <2>4 DEF PlaybackOK
<1>3. CASE Play
  <2>1. P!Serve /\ heard = <<>>
    BY <1>3 DEF Play
  <2>2. ASSUME pending # <<>>
        PROVE  /\ Head(pending) \in P!Request /\ Head(pending) # None
               /\ \A i \in 1..Len(Tail(pending)) :
                    Tail(pending)[i].cmd # "STOP" => Tail(pending)[i].cb
    <3>1. /\ Head(pending) \in P!Request
          /\ Len(pending) \in Nat /\ Len(pending) > 0 /\ Len(Tail(pending)) = Len(pending) - 1
          /\ \A i \in 1..Len(Tail(pending)) : Tail(pending)[i] = pending[i + 1]
      BY <2>2, TailLemma DEF PlayOK
    <3>2. \A i \in 1..Len(Tail(pending)) : i + 1 \in 1..Len(pending)
      BY <3>1
    <3>3. QED BY <3>1, <3>2, NoneAssumption DEF PlaybackOK
  <2>3. \A r \in P!Request, s \in DOMAIN Notice : P!Notify(r, s) => Len(heard') <= 1
    BY <2>1, NotifyLemma
  <2>4. CASE P!Start
    BY <1>0, <2>2, <2>3, <2>4 DEF P!Start, P!Waiting, PlaybackOK
  <2>5. CASE P!Refuse
    BY <1>0, <2>2, <2>3, <2>5 DEF P!Refuse, P!Waiting, PlaybackOK
  <2>6. CASE P!Pause
    BY <1>0, <2>2, <2>3, <2>6 DEF P!Pause, P!Waiting, PlaybackOK
  <2>7. CASE P!Resume
    BY <1>0, <2>2, <2>3, <2>7 DEF P!Resume, P!Waiting, PlaybackOK
  <2>8. CASE P!Finish
    <3>1. song \in P!Request /\ song' = None /\ phase' = "stopped" /\ pending' = pending
      BY <2>8 DEF P!Finish, PlayOK
    <3>2. PICK s \in {"STOPPED", "END_OF_SONG", "ERROR"} : P!Notify(song, s)
      BY <2>8 DEF P!Finish
    <3>3. Len(heard') <= 1
      BY <1>0, <2>3, <3>1, <3>2
    <3>4. QED BY <3>1, <3>3 DEF PlaybackOK
  <2>9. QED BY <2>1, <2>4, <2>5, <2>6, <2>7, <2>8 DEF P!Serve
<1>4. CASE PlaybackCb
  <2>1. heard # <<>> /\ heard' = Tail(heard) /\ UNCHANGED <<pending, song, phase>>
    BY <1>4 DEF PlaybackCb, P!Listen
  <2>2. Len(heard') <= 1
    BY <2>1, TailLemma DEF PlayOK, PlaybackOK
  <2>3. QED BY <2>1, <2>2 DEF PlaybackOK
<1>5. CASE Command
  <2>1. UNCHANGED playVars \/ (\E r \in {"PLAY", "PAUSE", "RESUME"} : Ask(r, TRUE))
    BY <1>5 DEF Command
  <2>2. QED BY <1>1, <1>2, <2>1 DEF playVars
<1>6. CASE StopPlayback
  BY <1>2, <1>6 DEF StopPlayback
<1>7. CASE \/ MainLoop \/ PopulatingLoop \/ PopulatingFailed \/ NoDiscsLoop \/ CommandLoopEnds
           \/ PurgingLoop \/ AskDatabase("populate", "populate", "populating")
           \/ AskDatabase("purge", "purge", "purging")
  <2>1. UNCHANGED playVars
    BY <1>7 DEF MainLoop, PopulatingLoop, PopulatingFailed, NoDiscsLoop, CommandLoopEnds,
                PurgingLoop, AskDatabase
  <2>2. QED BY <1>1, <2>1 DEF playVars
<1>8. CASE UNCHANGED vars \/ IbusTake \/ IbusCommand \/ PollTimeout \/ CardStatus \/ Dbase
  BY <1>1, <1>8 DEF vars, IbusTake, IbusCommand, PollTimeout, CardStatus, Dbase, DbaseTake,
                    DbaseWork, DbaseAnswer, playVars
<1>9. QED
  BY <1>3, <1>4, <1>5, <1>6, <1>7, <1>8 DEF Next, Blu

(* Nothing but the radio says seek.                                        *)
LEMMA NextNoSeek ==
  ASSUME "SEEK" \notin Commands, TasksOK, PlayOK, NoSeek, [Next]_vars
  PROVE  NoSeek'
<1>1. CASE active' = active
  BY <1>1 DEF NoSeek
<1>2. ASSUME NEW m \in Contents, m # "SEEK", active' = Append(active, m) PROVE NoSeek'
  <2>1. /\ Len(active) \in Nat /\ Len(active') = Len(active) + 1
        /\ \A i \in 1..Len(active) : active'[i] = active[i]
        /\ active'[Len(active) + 1] = m
    BY <1>2, AppendLemma DEF TasksOK
  <2>2. \A i \in 1..Len(active') : i \in 1..Len(active) \/ i = Len(active) + 1
    BY <2>1
  <2>3. QED BY <1>2, <2>1, <2>2 DEF NoSeek
<1>3. ASSUME active # <<>>, active' = Tail(active) PROVE NoSeek'
  <2>1. /\ Len(active) \in Nat /\ Len(active') = Len(active) - 1
        /\ \A i \in 1..Len(active') : active'[i] = active[i + 1]
    BY <1>3, TailLemma DEF TasksOK
  <2>2. \A i \in 1..Len(active') : i + 1 \in 1..Len(active)
    BY <2>1
  <2>3. QED BY <2>1, <2>2 DEF NoSeek
<1>4. CASE IbusCommand
  <2>1. PICK m \in Commands : active' = Append(active, m)
    BY <1>4 DEF IbusCommand
  <2>2. QED BY <1>2, <2>1, Sets
<1>5. CASE PollTimeout
  BY <1>2, <1>5, Sets DEF PollTimeout, TakeAndPost
<1>6. CASE CardStatus
  <2>1. card' \in CardStatuses /\ active' = Append(active, card')
    BY <1>6, Sets DEF CardStatus, TakeAndPost, TasksOK
  <2>2. PICK m \in CardStatuses : m = card'
    BY <2>1
  <2>3. m \in Contents /\ m # "SEEK"
    BY Sets
  <2>4. QED BY <1>2, <2>1, <2>2, <2>3
<1>7. CASE PlaybackCb
  <2>1. Head(heard) \in (DOMAIN Notice) \X {0}
    BY <1>7, TailLemma DEF PlaybackCb, P!Listen, PlayOK
  <2>2. PICK m \in PbStatuses : m = Notice[Head(heard)[1]]
    BY <2>1, Sets
  <2>3. m \in Contents /\ m # "SEEK"
    BY Sets DEF PbStatuses
  <2>4. QED BY <1>2, <1>7, <2>2, <2>3 DEF PlaybackCb, TakeAndPost
<1>8. CASE DbaseAnswer
  <2>1. PICK m \in DbAnswers : m = dpc
    BY <1>8 DEF DbaseAnswer
  <2>2. m \in Contents /\ m # "SEEK"
    BY Sets DEF DbAnswers
  <2>3. QED BY <1>2, <1>8, <2>1, <2>2 DEF DbaseAnswer
<1>9. CASE MainLoop \/ PopulatingLoop \/ Command \/ CommandLoopEnds \/ PurgingLoop
  BY <1>3, <1>9 DEF MainLoop, PopulatingLoop, Command, CommandLoopEnds, PurgingLoop, Return, Received
<1>10. CASE PopulatingFailed
  BY <1>3, <1>10 DEF PopulatingFailed, Received
<1>11. CASE NoDiscsLoop
  BY <1>1, <1>3, <1>11 DEF NoDiscsLoop, Return, Received, radioVars
<1>12. CASE \/ StopPlayback \/ DbaseTake \/ DbaseWork \/ Play \/ IbusTake \/ UNCHANGED vars
            \/ AskDatabase("populate", "populate", "populating")
            \/ AskDatabase("purge", "purge", "purging")
  BY <1>1, <1>12 DEF StopPlayback, AskDatabase, DbaseTake, DbaseWork, Play, IbusTake, vars, radioVars
<1>13. QED
  BY <1>4, <1>5, <1>6, <1>7, <1>8, <1>9, <1>10, <1>11, <1>12 DEF Next, Blu, Dbase


(* Without seek, a song that is selected stays so, unless one is played.   *)
LEMMA KeepsSong ==
  ASSUME NEW u \in Uis, NEW m \in (PbStatuses \cup IbusCmds) \ {"SEEK"}, NEW songs \in BOOLEAN,
         NEW v \in UiAfter(u, m, songs), u.song, Request(u, m) # "PLAY"
  PROVE  v.song
<1>0. Plays(u, m) => ~Pauses(u, m) /\ ~Resumes(u, m)
  BY DEF Plays, Pauses, Resumes, Speeds, Fast
<1>1. ~Plays(u, m)
  BY <1>0 DEF Request
<1>2. ~Looks(u, m) /\ m # "OVER"
  BY <1>1 DEF Looks, Plays, Selecting
<1>3. Found(u, m, songs) = {u.song}
  BY <1>2 DEF Found
<1>4. QED BY <1>3 DEF UiAfter

(* With a song selected only a notice shows it as stopped or paused.       *)
LEMMA KeepsStatus ==
  ASSUME NEW u \in Uis, NEW m \in IbusCmds, NEW songs \in BOOLEAN, NEW v \in UiAfter(u, m, songs),
         u.song, u.status \notin {"STOPPED", "PAUSED"}
  PROVE  v.status \notin {"STOPPED", "PAUSED"}
<1>1. m \notin {"HALTED", "OVER"}
  BY DEF IbusCmds, Selecting, Fast, Changing
<1>2. StatusAfter(u, m) \notin {"STOPPED", "PAUSED"}
  BY <1>1 DEF StatusAfter, FastStatus, Fast
<1>3. v.status = StatusAfter(u, m)
  BY DEF UiAfter
<1>4. QED BY <1>2, <1>3

(* What the BLU task receives in the command loop, and does.               *)
LEMMA CommandLemma ==
  ASSUME TasksOK, BluOK, NoSeek, Command
  PROVE  \E m \in (PbStatuses \cup IbusCmds) \ {"SEEK"} :
           /\ active # <<>> /\ m = active[1] /\ active' = Tail(active)
           /\ ui' \in UiAfter(ui, m, db = "songs")
           /\ \/ Request(ui, m) # "PLAY" /\ UNCHANGED playVars
              \/ ui'.song /\ UNCHANGED playVars
              \/ blu' # "commands" /\ UNCHANGED playVars
              \/ Request(ui, m) = "PLAY" /\ ui'.song /\ Ask("PLAY", TRUE)
              \/ Request(ui, m) \in {"PAUSE", "RESUME"} /\ ui.song /\ Ask(Request(ui, m), TRUE)
<1>1. PICK m \in PbStatuses \cup IbusCmds :
        /\ Received(m)
        /\ ui' \in UiAfter(ui, m, db = "songs")
        /\ LET r == Request(ui, m) IN
             \/ r = "NONE" /\ Goto(blu) /\ UNCHANGED playVars
             \/ r = "PLAY" /\ ~ui'.song /\ Goto("crashed") /\ UNCHANGED playVars
             \/ r = "PLAY" /\ ui'.song /\ Goto(blu) /\ Room /\ UNCHANGED playVars
             \/ r = "PLAY" /\ ui'.song /\ Goto(blu) /\ Ask(r, TRUE)
             \/ r \in {"PAUSE", "RESUME"} /\ Goto(blu) /\ Ask(r, TRUE)
  BY DEF Command
<1>2. active # <<>> /\ m = active[1] /\ active' = Tail(active) /\ 1 \in 1..Len(active)
  BY <1>1, TailLemma DEF Received, TasksOK, Command, Return
<1>3. m # "SEEK"
  BY <1>2 DEF NoSeek
<1>4. Request(ui, m) \in {"PAUSE", "RESUME"} => ui.song
  BY DEF Request, Pauses, Resumes
<1>5. QED
  BY <1>1, <1>2, <1>3, <1>4 DEF Goto

LEMMA NextSelected ==
  ASSUME TasksOK, BluOK, PlayOK, SilentWithoutCard, NoSeek, Selected, [Next]_vars
  PROVE  Selected'
<1>1. ASSUME blu' # "commands" PROVE Selected'
  BY <1>1 DEF Selected
<1>2. ASSUME UNCHANGED <<blu, ui, pending, song>> PROVE Selected'
  BY <1>2 DEF Selected, Silent, LastStops
<1>3. CASE UNCHANGED vars \/ IbusTake \/ IbusCommand \/ PollTimeout \/ CardStatus \/ Dbase
  BY <1>2, <1>3 DEF vars, IbusTake, IbusCommand, PollTimeout, CardStatus, Dbase, DbaseTake,
     DbaseWork, DbaseAnswer, playVars, bluVars
<1>4. CASE PlaybackCb
  BY <1>2, <1>4 DEF PlaybackCb, P!Listen, bluVars
<1>5. CASE Play
  <2>1. P!Serve /\ blu' = blu /\ ui' = ui
    BY <1>5 DEF Play, bluVars
  <2>2. Silent => Silent'
    BY <2>1, ServeSilent
  <2>3. QED BY <2>1, <2>2 DEF Selected
<1>6. CASE Command
  <2>1. PICK m \in (PbStatuses \cup IbusCmds) \ {"SEEK"} :
          /\ ui' \in UiAfter(ui, m, db = "songs")
          /\ \/ Request(ui, m) # "PLAY" /\ UNCHANGED playVars
             \/ ui'.song /\ UNCHANGED playVars
             \/ blu' # "commands" /\ UNCHANGED playVars
             \/ Request(ui, m) = "PLAY" /\ ui'.song /\ Ask("PLAY", TRUE)
             \/ Request(ui, m) \in {"PAUSE", "RESUME"} /\ ui.song /\ Ask(Request(ui, m), TRUE)
    BY <1>6, CommandLemma
  <2>2. ui.song /\ Request(ui, m) # "PLAY" => ui'.song
    <3>1. ui \in Uis /\ (db = "songs") \in BOOLEAN
      BY DEF BluOK
    <3>2. QED BY <2>1, <3>1, KeepsSong
  <2>3. CASE Request(ui, m) # "PLAY" /\ UNCHANGED playVars
    <3>1. Silent' <=> Silent
      BY <2>3 DEF Silent, LastStops, playVars
    <3>2. blu = "commands"
      BY <1>6 DEF Command
    <3>3. QED BY <2>2, <2>3, <3>1, <3>2 DEF Selected
  <2>4. CASE ui'.song \/ blu' # "commands"
    BY <2>4 DEF Selected
  <2>5. CASE Request(ui, m) \in {"PAUSE", "RESUME"} /\ ui.song
    BY <2>2, <2>5 DEF Selected
  <2>6. QED BY <2>1, <2>3, <2>4, <2>5
<1>7. CASE PopulatingLoop
  <2>1. blu = "populating" /\ UNCHANGED playVars
    BY <1>7 DEF PopulatingLoop
  <2>2. Silent /\ (Silent' <=> Silent)
    BY <2>1 DEF SilentWithoutCard, Silent, LastStops, playVars
  <2>3. QED BY <2>2 DEF Selected
<1>8. CASE MainLoop \/ PopulatingFailed \/ CommandLoopEnds \/ StopPlayback
  BY <1>1, <1>8 DEF MainLoop, PopulatingFailed, CommandLoopEnds, StopPlayback, Goto
<1>9. CASE NoDiscsLoop \/ PurgingLoop
  BY <1>1, <1>9 DEF NoDiscsLoop, PurgingLoop, Goto, bluVars
<1>10. CASE AskDatabase("populate", "populate", "populating") \/ AskDatabase("purge", "purge", "purging")
  BY <1>1, <1>10 DEF AskDatabase, Goto
<1>11. QED
  BY <1>3, <1>4, <1>5, <1>6, <1>7, <1>8, <1>9, <1>10 DEF Next, Blu

(* A message that is no notice hides none.                                 *)
LEMMA PostShown ==
  ASSUME TasksOK, Shown, NEW m \in Contents \ PbStatuses, active' = Append(active, m),
         UNCHANGED <<ui, heard>>
  PROVE  Shown'
<1>1. /\ Len(active) \in Nat /\ Len(active') = Len(active) + 1
      /\ \A i \in 1..Len(active) : active'[i] = active[i]
      /\ active'[Len(active) + 1] = m
  BY AppendLemma DEF TasksOK
<1>2. ASSUME NEW n \in 0..Len(active), NoneAfter(n) PROVE NoneAfter(n)'
  <2>1. ASSUME NEW j \in (n + 1)..Len(active') PROVE active'[j] \notin PbStatuses
    <3>1. j \in (n + 1)..Len(active) \/ j = Len(active) + 1
      BY <1>1
    <3>2. j \in (n + 1)..Len(active) => j \in 1..Len(active)
      OBVIOUS
    <3>3. QED BY <1>1, <1>2, <3>1, <3>2 DEF NoneAfter
  <2>2. QED BY <2>1 DEF NoneAfter
<1>3. CASE heard # <<>> /\ heard[1][1] = "PLAYING"
  BY <1>3 DEF Shown
<1>4. ASSUME heard = <<>>, NEW i \in 1..Len(active), active[i] = "PLAYING", NoneAfter(i)
      PROVE  Shown'
  <2>1. i \in 1..Len(active') /\ active'[i] = "PLAYING" /\ i \in 0..Len(active)
    BY <1>1, <1>4
  <2>2. NoneAfter(i)'
    BY <1>2, <1>4, <2>1
  <2>3. QED BY <1>4, <2>1, <2>2 DEF Shown
<1>5. CASE heard = <<>> /\ NoneAfter(0) /\ ui.status \notin {"STOPPED", "PAUSED"}
  <2>1. 0 \in 0..Len(active)
    BY <1>1
  <2>2. NoneAfter(0)'
    BY <1>2, <1>5, <2>1
  <2>3. QED BY <1>5, <2>2 DEF Shown
<1>6. QED BY <1>3, <1>4, <1>5 DEF Shown

(* The receive of a message: a notice is shown, a command leaves it so.    *)
LEMMA TakeShown ==
  ASSUME TasksOK, BluOK, Shown, ui.song, active # <<>>, active' = Tail(active), heard' = heard,
         NEW m \in PbStatuses \cup IbusCmds, m = active[1], ui' \in UiAfter(ui, m, db = "songs")
  PROVE  Shown'
<1>1. /\ Len(active) \in Nat /\ Len(active) > 0 /\ Len(active') = Len(active) - 1
      /\ \A i \in 1..Len(active') : active'[i] = active[i + 1]
  BY TailLemma DEF TasksOK
<1>2. ASSUME NEW n \in 1..Len(active), NoneAfter(n) PROVE NoneAfter(n - 1)'
  <2>1. ASSUME NEW j \in n..Len(active') PROVE active'[j] \notin PbStatuses
    <3>1. j + 1 \in (n + 1)..Len(active) /\ active'[j] = active[j + 1]
      BY <1>1
    <3>2. QED BY <1>2, <3>1 DEF NoneAfter
  <2>2. (n - 1) + 1 = n
    OBVIOUS
  <2>3. QED BY <2>1, <2>2 DEF NoneAfter
<1>3. ui \in Uis /\ (db = "songs") \in BOOLEAN
  BY DEF BluOK
<1>4. CASE heard # <<>> /\ heard[1][1] = "PLAYING"
  BY <1>4 DEF Shown
<1>5. ASSUME heard = <<>>, NEW i \in 1..Len(active), active[i] = "PLAYING", NoneAfter(i)
      PROVE  Shown'
  <2>1. NoneAfter(i - 1)'
    BY <1>2, <1>5
  <2>2. CASE i = 1
    <3>1. m = "PLAYING" /\ ui'.status = StatusAfter(ui, m)
      BY <1>5, <2>2 DEF UiAfter
    <3>2. StatusAfter(ui, "PLAYING") = "PLAYING"
      BY DEF StatusAfter, Fast, Selecting, Changing
    <3>3. NoneAfter(0)'
      BY <2>1, <2>2
    <3>4. ui'.status = "PLAYING"
      BY <3>1, <3>2
    <3>5. QED BY <1>5, <3>3, <3>4 DEF Shown
  <2>3. CASE i # 1
    <3>1. PICK k \in 1..Len(active') : k = i - 1
      BY <1>1, <2>3
    <3>2. active'[k] = "PLAYING" /\ NoneAfter(k)'
      BY <1>1, <1>5, <2>1, <3>1
    <3>3. QED BY <1>5, <3>2 DEF Shown
  <2>4. QED BY <2>2, <2>3
<1>6. CASE heard = <<>> /\ NoneAfter(0) /\ ui.status \notin {"STOPPED", "PAUSED"}
  <2>1. 1 \in (0 + 1)..Len(active)
    BY <1>1
  <2>2. m \notin PbStatuses
    BY <1>6, <2>1 DEF NoneAfter
  <2>3. ui'.status \notin {"STOPPED", "PAUSED"}
    BY <1>3, <1>6, <2>2, KeepsStatus
  <2>4. ASSUME NEW j \in 1..Len(active') PROVE active'[j] \notin PbStatuses
    <3>1. j + 1 \in (0 + 1)..Len(active) /\ active'[j] = active[j + 1]
      BY <1>1
    <3>2. QED BY <1>6, <3>1 DEF NoneAfter
  <2>5. NoneAfter(0)'
    BY <2>4 DEF NoneAfter
  <2>6. QED BY <1>6, <2>3, <2>5 DEF Shown
<1>7. QED BY <1>4, <1>5, <1>6 DEF Shown

LEMMA NextTold ==
  ASSUME TasksOK, BluOK, PlayOK, SilentWithoutCard, NoSeek, PlaybackOK, Selected, Told,
         "SEEK" \notin Commands, [Next]_vars
  PROVE  Told'
<1> SUFFICES ASSUME blu' = "commands", phase' = "playing", pending' = <<>> PROVE Shown'
  BY DEF Told
<1>1. ASSUME UNCHANGED <<blu, phase, pending>> PROVE Shown
  BY <1>1 DEF Told
<1>2. ASSUME NEW m \in Contents \ PbStatuses, active' = Append(active, m),
             UNCHANGED <<blu, ui, playVars>>
      PROVE  Shown'
  BY <1>1, <1>2, PostShown DEF playVars
<1>3. CASE IbusCommand
  <2>1. PICK m \in Commands : active' = Append(active, m)
    BY <1>3 DEF IbusCommand
  <2>2. m \in Contents \ PbStatuses
    BY <2>1, Sets, RadioAssumption DEF PbStatuses, IbusCmds, Selecting, Fast, Changing
  <2>3. QED BY <1>2, <1>3, <2>1, <2>2 DEF IbusCommand, bluVars
<1>4. CASE PollTimeout
  <2>1. "STOP" \in Contents \ PbStatuses
    BY Sets DEF PbStatuses
  <2>2. QED BY <1>2, <1>4, <2>1 DEF PollTimeout, TakeAndPost, bluVars
<1>5. CASE CardStatus
  <2>1. card' \in CardStatuses /\ active' = Append(active, card') /\ UNCHANGED <<blu, ui, playVars>>
    BY <1>5, Sets DEF CardStatus, TakeAndPost, TasksOK, bluVars
  <2>2. PICK m \in CardStatuses : m = card'
    BY <2>1
  <2>3. m \in Contents \ PbStatuses
    BY Sets DEF PbStatuses
  <2>4. QED BY <1>2, <2>1, <2>2, <2>3
<1>6. CASE DbaseAnswer
  <2>1. PICK m \in DbAnswers : m = dpc
    BY <1>6 DEF DbaseAnswer
  <2>2. m \in Contents \ PbStatuses
    BY Sets DEF DbAnswers, PbStatuses
  <2>3. QED BY <1>2, <1>6, <2>1, <2>2 DEF DbaseAnswer, bluVars
<1>7. CASE IbusTake \/ DbaseTake \/ DbaseWork \/ UNCHANGED vars
  <2>1. UNCHANGED <<blu, ui, active, playVars>>
    BY <1>7 DEF IbusTake, DbaseTake, DbaseWork, vars, radioVars, bluVars
  <2>2. QED BY <1>1, <2>1 DEF playVars, Shown, NoneAfter
<1>8. CASE PlaybackCb
  <2>1. /\ heard # <<>> /\ heard' = Tail(heard) /\ UNCHANGED <<blu, ui, phase, pending>>
        /\ active' = Append(active, Notice[Head(heard)[1]])
    BY <1>8 DEF PlaybackCb, P!Listen, TakeAndPost, bluVars
  <2>2. heard[1][1] = "PLAYING" /\ Head(heard) = heard[1]
    BY <1>1, <2>1, TailLemma DEF Shown, PlayOK
  <2>3. heard' = <<>>
    BY <2>1, TailLemma DEF PlayOK, PlaybackOK
  <2>4. Notice["PLAYING"] = "PLAYING" /\ "PLAYING" \in Contents
    BY Sets DEF Notice, PbStatuses
  <2>5. active' = Append(active, "PLAYING")
    BY <2>1, <2>2, <2>4
  <2>6. PICK i \in 1..Len(active') : i = Len(active') /\ active'[i] = "PLAYING"
    BY <2>4, <2>5, AppendLemma DEF TasksOK
  <2>7. NoneAfter(i)'
    BY <2>6 DEF NoneAfter
  <2>8. QED BY <2>3, <2>6, <2>7 DEF Shown
<1>9. CASE Play
  <2>1. P!Serve /\ heard = <<>> /\ UNCHANGED <<blu, ui, active>>
    BY <1>9 DEF Play, bluVars, radioVars
  <2>2. ASSUME P!Start \/ P!Resume PROVE Shown'
    <3>1. /\ pending # <<>> /\ Head(pending).cmd # "STOP" /\ P!Notify(Head(pending), "PLAYING")
      BY <2>2 DEF P!Start, P!Resume, P!Waiting
    <3>2. Head(pending) \in P!Request /\ Head(pending) = pending[1] /\ 1 \in 1..Len(pending)
      BY <3>1, TailLemma DEF PlayOK
    <3>3. Head(pending).cb
      BY <3>1, <3>2 DEF PlaybackOK
    <3>4. heard' # <<>> /\ heard'[1][1] = "PLAYING"
      BY <2>1, <3>1, <3>2, <3>3, NotifyLemma, Sets
    <3>5. QED BY <3>4 DEF Shown
  <2>3. ~P!Pause /\ ~P!Refuse /\ ~P!Finish
    BY DEF P!Pause, P!Refuse, P!Finish, PlaybackOK
  <2>4. QED BY <2>1, <2>2, <2>3 DEF P!Serve
<1>10. CASE Command
  <2>1. PICK m \in (PbStatuses \cup IbusCmds) \ {"SEEK"} :
          /\ active # <<>> /\ m = active[1] /\ active' = Tail(active)
          /\ ui' \in UiAfter(ui, m, db = "songs")
          /\ UNCHANGED playVars \/ (\E r \in {"PLAY", "PAUSE", "RESUME"} : Ask(r, TRUE))
    BY <1>10, CommandLemma
  <2>2. ASSUME NEW r \in {"PLAY", "PAUSE", "RESUME"}, Ask(r, TRUE) PROVE FALSE
    <3>1. [cmd |-> r, tx |-> 0, cb |-> TRUE] \in P!Request
      BY DEF P!Request
    <3>2. pending' # <<>>
      BY <2>2, <3>1, AppendLemma DEF Ask, PlayOK
    <3>3. QED BY <3>2
  <2>3. UNCHANGED playVars /\ blu = "commands"
    BY <1>10, <2>1, <2>2 DEF Command
  <2>4. Shown
    BY <2>3 DEF Told, playVars
  <2>5. ui.song
    BY <2>3 DEF Selected, Silent, LastStops, PlaybackOK, playVars
  <2>6. QED BY <2>1, <2>3, <2>4, <2>5, TakeShown DEF playVars
<1>11. CASE PopulatingLoop
  <2>1. blu = "populating" /\ UNCHANGED playVars
    BY <1>11 DEF PopulatingLoop
  <2>2. song = None
    BY <2>1 DEF SilentWithoutCard, playVars
  <2>3. QED BY <2>1, <2>2 DEF PlaybackOK, playVars
<1>12. CASE \/ MainLoop \/ PopulatingFailed \/ CommandLoopEnds \/ StopPlayback \/ NoDiscsLoop
            \/ PurgingLoop \/ AskDatabase("populate", "populate", "populating")
            \/ AskDatabase("purge", "purge", "purging")
  BY <1>12 DEF MainLoop, PopulatingFailed, CommandLoopEnds, StopPlayback, NoDiscsLoop, PurgingLoop,
               AskDatabase, Goto, bluVars
<1>13. QED
  BY <1>3, <1>4, <1>5, <1>6, <1>7, <1>8, <1>9, <1>10, <1>11, <1>12 DEF Next, Blu, Dbase

(* While a song plays and nothing is under way, the radio is not told that *)
(* it is stopped or paused (ui-t.c lines 356-382), whatever the radio says *)
(* but seek: a seek in random play may leave no song selected while one    *)
(* plays, and a stop is then believed without being passed on (line 228).  *)
THEOREM PlayingIsTold == "SEEK" \notin Commands => (Spec => []StatusTells)
<1> SUFFICES ASSUME "SEEK" \notin Commands PROVE Spec => []StatusTells
  OBVIOUS
<1>1. Init => StatusInv
  BY DEF Init, P!Init, StatusInv, PlaybackOK, Selected, Told, NoSeek
<1>2. MsgsKept => TasksOK /\ BluOK /\ PlayOK
  BY Parts
<1>3. TasksOK /\ BluOK /\ PlayOK /\ SilentWithoutCard /\ StatusInv /\ [Next]_vars => StatusInv'
  BY NextPlayback, NextNoSeek, NextSelected, NextTold DEF StatusInv
<1>4. StatusInv => StatusTells
  <2>1. SUFFICES ASSUME StatusInv, blu = "commands", Quiet, phase = "playing"
                 PROVE  ui.status \notin {"STOPPED", "PAUSED"}
    BY DEF StatusTells
  <2>2. Shown /\ heard = <<>> /\ \A i \in DOMAIN active : active[i] # "PLAYING"
    BY <2>1 DEF StatusInv, Told, Quiet, PbStatuses
  <2>3. QED BY <2>2 DEF Shown
<1>5. QED
  BY <1>1, <1>2, <1>3, <1>4, PoolConserved, NothingPlaysUnasked, PTL DEF Spec
=============================================================================
