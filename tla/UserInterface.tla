---------------------------- MODULE UserInterface ----------------------------
(***************************************************************************)
(* src/apps/cd_changer/ui-t.c, __process_command: what a command of the    *)
(* radio or a status of the playback does to the state of the interface    *)
(* and what it asks of the playback, as functions of a record              *)
(*   status  *device_status, what the radio is told                        *)
(*   song    a song has been selected: *song is not NULL                   *)
(*   last    the last entry of the history; both directions are "SEEK"     *)
(*   disc    current_disc: "music" (artist, album, song) or "setting"      *)
(*           (text display, random), where seeking toggles the setting     *)
(* Tracks, modes, texts and cpu_reboot are left out.  A message of the     *)
(* radio is its command; CHANGE_DISC names the kind of disc.               *)
(***************************************************************************)

Selecting == {"SEEK", "ALT"}             (* SEEK__* and SEEK__ALT_*           *)
Fast == {"FORWARD", "REVERSE"}           (* FAST_PLAY__*                      *)
Changing == {"MUSIC", "SETTING", "NO_DISC"}
IbusCmds == {"STOP", "PAUSE", "PLAY", "OTHER"} \cup Selecting \cup Fast \cup Changing

(* What the interface tells apart of the statuses of the playback.         *)
Notice == [PLAYING |-> "PLAYING", PAUSED |-> "HALTED", STOPPED |-> "HALTED",
           END_OF_SONG |-> "OVER", ERROR |-> "OVER"]
PbStatuses == {"PLAYING", "HALTED", "OVER"}

FastStatus == [FORWARD |-> "FAST_FORWARD", REVERSE |-> "FAST_REVERSE"]
Statuses == {"STOPPED", "PAUSED", "PLAYING", "FAST_FORWARD", "FAST_REVERSE", "SEEKING",
             "SEEKING_NEXT"}
Uis == [status : Statuses, song : BOOLEAN, last : {"NONE", "STOP", "PAUSE", "PLAY", "SEEK"},
        disc : {"music", "setting"}]

(* __get_user_data and __get_disc_info: a new card, nothing selected.      *)
FreshUi(status) == [status |-> status, song |-> FALSE, last |-> "NONE", disc |-> "music"]

-----------------------------------------------------------------------------
(* A command for a speed that is already the present one is ignored.       *)
Speeds(ui, m) == m \in Fast /\ ui.status # FastStatus[m]

(* The messages for which a song is looked for: __find_song, next_song.    *)
Looks(ui, m) ==
  \/ m = "PLAY" /\ ~ui.song
  \/ Speeds(ui, m)
  \/ m \in Selecting /\ ui.disc = "music"
  \/ m = "OVER"

(* What it may find, in a database with or without songs.  Random play may *)
(* find none (see Database), and toggles a setting that is on display.     *)
Found(ui, m, songs) ==
  (IF Looks(ui, m) THEN {ui.song \/ songs} ELSE {ui.song})
    \cup (IF m = "OVER" /\ ui.disc = "setting" THEN {ui.song} ELSE {})
    \cup (IF Looks(ui, m) /\ m \notin Fast THEN {FALSE} ELSE {})

(* A song is played: the one selected, whether or not there is one.        *)
Plays(ui, m) ==
  \/ m = "PLAY" /\ (~ui.song \/ ui.last = "SEEK")
  \/ Speeds(ui, m)
  \/ m = "ALT"
  \/ m = "OVER"

Pauses(ui, m) ==
  /\ ui.song /\ ui.last \notin {"STOP", "PAUSE"}
  /\ m = "PAUSE" \/ (m = "STOP" /\ ui.status # "STOPPED")

Resumes(ui, m) == m = "PLAY" /\ ui.song /\ ui.last # "SEEK"

Request(ui, m) ==
  CASE Plays(ui, m)   -> "PLAY"
    [] Pauses(ui, m)  -> "PAUSE"
    [] Resumes(ui, m) -> "RESUME"
    [] OTHER          -> "NONE"

(* The state the radio is told.  A status of the playback is believed      *)
(* whatever request it answers; the mutant takes every one for a stop.     *)
StatusAfterStops(ui, m) ==
  IF m \in PbStatuses THEN "STOPPED" ELSE ui.status
StatusAfter(ui, m) ==
  CASE m \in {"STOP", "PAUSE"} /\ ~ui.song -> IF m = "STOP" THEN "STOPPED" ELSE "PAUSED"
    [] m \in Fast                          -> FastStatus[m]
    [] m \in Selecting                     -> IF ui.disc = "setting" THEN "PLAYING" ELSE "SEEKING"
    [] m \in Changing \cup {"PLAYING"}     -> "PLAYING"
    [] m = "HALTED"                        -> IF ui.last = "PAUSE" THEN "PAUSED" ELSE "STOPPED"
    [] m = "OVER"                          -> "SEEKING_NEXT"
    [] OTHER                               -> ui.status

(* history_push                                                            *)
LastAfter(ui, m) ==
  IF m \in Selecting \cup Fast THEN "SEEK"
  ELSE IF m \in {"STOP", "PAUSE", "PLAY"} THEN m ELSE ui.last

DiscAfter(ui, m) ==
  CASE m = "MUSIC" -> "music" [] m = "SETTING" -> "setting" [] OTHER -> ui.disc

UiAfter(ui, m, songs) ==
  {[status |-> StatusAfter(ui, m), song |-> s, last |-> LastAfter(ui, m),
    disc |-> DiscAfter(ui, m)] : s \in Found(ui, m, songs)}
=============================================================================
