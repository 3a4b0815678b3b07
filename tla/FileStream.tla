----------------------------- MODULE FileStream -----------------------------
(***************************************************************************)
(* src/library/file-stream/src/file-stream.c: a task reads a file into     *)
(* small nodes of a fixed pool and queues them on __data_active; the       *)
(* decoder (one caller, the playback task, through media_mp3_play and      *)
(* media_flac_play) copies them into one big buffer and gives the nodes    *)
(* back.  One command message travels between the caller and the task.     *)
(*                                                                         *)
(* main.c gives the FileStrm task a higher priority than its caller, so    *)
(* the caller only runs while the task waits.                              *)
(***************************************************************************)
EXTENDS Integers, Sequences, SequencesExt

CONSTANTS
  Files, Size,   (* the files of the card and how many units each has       *)
  Small, Big,    (* FSTREAM_SMALL_BUFFER_SIZE, FSTREAM_BIG_BUFFER_SIZE      *)
  NodeCount,     (* nodes in the pool: the total size over the small size   *)
  Asked, Skipped,(* the sizes the caller asks for, and those it skips       *)
  None

ASSUME FileAssumption == Size \in [Files -> Nat] /\ None \notin Files
ASSUME BufferAssumption == Small \in Nat \ {0} /\ Big \in Nat \ {0} /\ NodeCount \in Nat \ {0}
ASSUME AskedAssumption == Asked \cup Skipped \subseteq Nat

VARIABLES
  command,              (* the command message and where it is              *)
  state,                (* __state                                          *)
  data_active,          (* nodes of data on their way to the caller         *)
  data_idle,            (* the number of nodes free in __data_idle          *)
  big,                  (* the valid bytes of __big_buffer                  *)
  pc, fd, bytes_left,   (* the task: where it is, its file, what is unread  *)
  cpc, want, skip,      (* the caller: where it is in a call, the bytes it  *)
  wait,                 (* waits for, its skip's rest, if its receive waits *)
  opened, due,          (* the caller's open file, or None, and how far its *)
                        (* releases and skips should have brought it: one   *)
                        (* past the end once a skip has gone past it        *)
  got,                  (* the size of the last buffer it was given         *)
  lost                  (* nodes dropped by failed reads: in no queue again *)

commandVars == <<command, state>>
dataVars == <<data_active, data_idle, big>>
taskVars == <<pc, fd, bytes_left>>
callVars == <<cpc, want, skip, wait>>
userVars == <<opened, due, got>>
vars == <<commandVars, dataVars, taskVars, callVars, userVars, lost>>

Least(a, b) == IF a < b THEN a ELSE b
Bytes(f, p, n) == [i \in 1 .. n |-> <<f, p + i>>]
Commands == [at : {"idle", "active", "task"}, cmd : {"IDLE", "STREAMING"}, name : Files \cup {None}]

(* fstream_init.                                                           *)
Init ==
  /\ command = [at |-> "idle", cmd |-> "IDLE", name |-> None]
  /\ state = "IDLE"
  /\ data_active = <<>> /\ data_idle = NodeCount /\ big = <<>>
  /\ pc = "command" /\ fd = None /\ bytes_left = 0
  /\ cpc = "out" /\ want = 0 /\ skip = 0 /\ wait = FALSE
  /\ opened = None /\ due = 0 /\ got = 0 /\ lost = 0

-----------------------------------------------------------------------------
(* __task                                                                  *)

(* The acknowledgement: the message back in __command_idle.                *)
Acknowledge(k) == command' = [command EXCEPT !.at = "idle", !.cmd = k]

TaskCommand ==
  /\ pc = "command" /\ command.at = "active"
  /\ IF command.cmd = "STREAMING"
       THEN /\ command' = [command EXCEPT !.at = "task", !.name = None]
            /\ fd' = command.name /\ pc' = "open"
       ELSE Acknowledge("IDLE") /\ UNCHANGED <<fd, pc>>
  /\ UNCHANGED <<state, dataVars, bytes_left, callVars, userVars, lost>>

(* open and fstat; either may fail.                                        *)
OpenFile ==
  /\ pc = "open"
  /\ \/ /\ Acknowledge("IDLE")
        /\ pc' = "command" /\ fd' = None
        /\ UNCHANGED <<state, big, bytes_left>>
     \/ /\ bytes_left' = Size[fd]
        /\ big' = <<>> /\ state' = "STREAMING"
        /\ Acknowledge("STREAMING")
        /\ pc' = "loop" /\ UNCHANGED fd
  /\ UNCHANGED <<data_active, data_idle, callVars, userVars, lost>>

(* The head of the loop: all read, told to stop, or another node.          *)
LoopHead ==
  /\ pc = "loop"
  /\ IF bytes_left > 0 /\ command.at = "active"
       THEN /\ command' = [command EXCEPT !.at = "task"]
            /\ bytes_left' = 0 /\ pc' = "done"
       ELSE /\ pc' = IF bytes_left = 0 THEN "done" ELSE "node"
            /\ UNCHANGED <<command, bytes_left>>
  /\ UNCHANGED <<state, dataVars, fd, callVars, userVars, lost>>

TakeNode ==
  /\ pc = "node" /\ data_idle > 0
  /\ data_idle' = data_idle - 1
  /\ pc' = "read"
  /\ UNCHANGED <<commandVars, data_active, big, fd, bytes_left, callVars, userVars, lost>>

(* How much the next read asks for.                                        *)
Requested == Least(Small, bytes_left)

(* A full read is queued.  A failed or short one ends the stream: its node *)
(* is in no queue any more, and no node says it is the last.               *)
ReadNode ==
  /\ pc = "read" /\ pc' = "loop"
  /\ \/ LET n == Requested IN
        /\ data_active' = Append(data_active,
             [data |-> Bytes(fd, Size[fd] - bytes_left, n), last |-> n = bytes_left])
        /\ bytes_left' = bytes_left - n
        /\ UNCHANGED lost
     \/ bytes_left' = 0 /\ lost' = lost + 1 /\ UNCHANGED data_active
  /\ UNCHANGED <<commandVars, data_idle, big, fd, callVars, userVars>>

(* Mutant: __state stays STREAMING at the end of a song.                   *)
EndStreamForgets ==
  /\ pc = "done"
  /\ state' = IF command.at = "task" THEN "IDLE" ELSE state
  /\ IF command.at = "task" THEN Acknowledge("IDLE") ELSE UNCHANGED command
  /\ pc' = "command" /\ fd' = None
  /\ UNCHANGED <<dataVars, bytes_left, callVars, userVars, lost>>

EndStream ==
  /\ pc = "done"
  /\ state' = "IDLE"
  /\ IF command.at = "task" THEN Acknowledge("IDLE") ELSE UNCHANGED command
  /\ pc' = "command" /\ fd' = None
  /\ UNCHANGED <<dataVars, bytes_left, callVars, userVars, lost>>

Task == TaskCommand \/ OpenFile \/ LoopHead \/ TakeNode \/ ReadNode \/ EndStream

(* The task is about to run: it waits neither for a queue nor for the card.*)
TaskReady ==
  \/ pc \in {"loop", "done"}
  \/ pc = "command" /\ command.at = "active"
  \/ pc = "node" /\ data_idle > 0

-----------------------------------------------------------------------------
(* The caller, who runs only while CallerRuns.                             *)

CallerRuns == ~TaskReady

(* fstream_close, which is also how fstream_open begins.                   *)
CallClose ==
  /\ cpc = "out" /\ opened # None
  /\ cpc' = "close" /\ opened' = None
  /\ UNCHANGED <<commandVars, dataVars, taskVars, want, skip, wait, due, got, lost>>

CallOpen(f) ==
  /\ cpc = "out" /\ opened = None
  /\ cpc' = "close" /\ opened' = f
  /\ UNCHANGED <<commandVars, dataVars, taskVars, want, skip, wait, due, got, lost>>

CloseSend ==
  /\ cpc = "close" /\ command.at = "idle"
  /\ command' = [at |-> "active", cmd |-> "IDLE", name |-> None]
  /\ cpc' = "drain"
  /\ UNCHANGED <<state, dataVars, taskVars, want, skip, wait, userVars, lost>>

(* Mutant: the drained node is not given back.                             *)
DrainDrops ==
  /\ cpc \in {"drain", "flush"} /\ data_active # <<>>
  /\ data_active' = Tail(data_active)
  /\ UNCHANGED <<commandVars, data_idle, big, taskVars, callVars, userVars, lost>>

(* One node of __data_active back to the pool; then what follows.          *)
Drain ==
  /\ cpc \in {"drain", "flush"} /\ data_active # <<>>
  /\ data_active' = Tail(data_active) /\ data_idle' = data_idle + 1
  /\ UNCHANGED <<commandVars, big, taskVars, callVars, userVars, lost>>

Drained ==
  /\ cpc = "drain" /\ data_active = <<>>
  /\ cpc' = "ack"
  /\ UNCHANGED <<commandVars, dataVars, taskVars, want, skip, wait, userVars, lost>>

(* The task has acknowledged; the mutant forgets the second drain.         *)
AfterAckHasty == IF opened = None THEN "out" ELSE "open"
AfterAck == "flush"

CloseAck ==
  /\ cpc = "ack" /\ command.at = "idle"
  /\ cpc' = AfterAck
  /\ UNCHANGED <<commandVars, dataVars, taskVars, want, skip, wait, userVars, lost>>

Flushed ==
  /\ cpc = "flush" /\ data_active = <<>>
  /\ big' = <<>> /\ due' = 0 /\ got' = 0
  /\ cpc' = IF opened = None THEN "out" ELSE "open"
  /\ UNCHANGED <<commandVars, data_active, data_idle, taskVars, want, skip, wait, opened, lost>>

(* The rest of fstream_open; the copy of the name may not be had.          *)
OpenSend ==
  /\ cpc = "open" /\ command.at = "idle"
  /\ \/ /\ command' = [at |-> "active", cmd |-> "STREAMING", name |-> opened]
        /\ cpc' = "wait" /\ UNCHANGED opened
     \/ cpc' = "out" /\ opened' = None /\ UNCHANGED command
  /\ UNCHANGED <<state, dataVars, taskVars, want, skip, wait, due, got, lost>>

OpenAck ==
  /\ cpc = "wait" /\ command.at = "idle"
  /\ opened' = IF command.cmd = "STREAMING" THEN opened ELSE None
  /\ cpc' = "out"
  /\ UNCHANGED <<commandVars, dataVars, taskVars, want, skip, wait, due, got, lost>>

(* fstream_get_buffer refuses a size it cannot hold (and changes nothing); *)
(* the mutant does not.                                                    *)
AcceptableAny(w) == w > 0
Acceptable(w) == w > 0 /\ w <= Big

(* What is left of the big buffer after fstream_release_buffer: a release  *)
(* of more than it holds is ignored.  The mutant loses what was not used. *)
ReleasedAll(n) == <<>>
Released(n) == IF n <= Len(big) THEN SubSeq(big, n + 1, Len(big)) ELSE big

CallGet(w) ==
  /\ cpc = "out" /\ opened # None /\ Acceptable(w)
  /\ want' = w
  /\ cpc' = IF Len(big) < w THEN "look" ELSE "give"
  /\ UNCHANGED <<commandVars, dataVars, taskVars, skip, wait, userVars, lost>>

(* Where a release or skip of n should bring the caller; nothing is beyond *)
(* one past the end.                                                       *)
Forward(n) == Least(due + n, Size[opened] + 1)

(* fstream_skip, whose length the FLAC decoder takes from the file as it   *)
(* is (media-flac.c line 444): it may lie past the end.                    *)
CallSkip(n) ==
  /\ cpc = "out" /\ opened # None
  /\ due' = Forward(n)
  /\ IF n < Len(big)
       THEN big' = Released(n) /\ UNCHANGED <<cpc, want, skip>>
       ELSE LET left == n - Len(big) IN
              /\ big' = <<>> /\ skip' = left
              /\ want' = Least(left, Big)
              /\ cpc' = IF left = 0 THEN "out" ELSE "look"
  /\ UNCHANGED <<commandVars, data_active, data_idle, taskVars, wait, opened, got, lost>>

(* fstream_get_buffer: __state decides whether the receive may wait ...    *)
LookAtState ==
  /\ cpc = "look"
  /\ wait' = (state = "STREAMING")
  /\ cpc' = "take"
  /\ UNCHANGED <<commandVars, dataVars, taskVars, want, skip, userVars, lost>>

(* ... and the receive, the copy, and the node back to the pool.           *)
Take ==
  /\ cpc = "take" /\ data_active # <<>>
  /\ big' = big \o Head(data_active).data
  /\ data_active' = Tail(data_active) /\ data_idle' = data_idle + 1
  /\ cpc' = IF Len(big') < want /\ ~Head(data_active).last THEN "look" ELSE "give"
  /\ UNCHANGED <<commandVars, taskVars, want, skip, wait, userVars, lost>>

TakeNothing ==
  /\ cpc = "take" /\ data_active = <<>> /\ ~wait
  /\ cpc' = "give"
  /\ UNCHANGED <<commandVars, dataVars, taskVars, want, skip, wait, userVars, lost>>

(* The caller of fstream_get_buffer has its buffer.                        *)
Give ==
  /\ cpc = "give" /\ skip = 0
  /\ got' = Least(want, Len(big))
  /\ cpc' = "holding"
  /\ UNCHANGED <<commandVars, dataVars, taskVars, want, skip, wait, opened, due, lost>>

(* fstream_skip releases what it asked for, and asks for the rest.  At the *)
(* end of the file it has less than it asked for, and the release is       *)
(* ignored: the last bytes stay in the big buffer.                         *)
GiveToSkip ==
  /\ cpc = "give" /\ skip > 0
  /\ big' = Released(want)
  /\ skip' = skip - want
  /\ want' = Least(skip - want, Big)
  /\ cpc' = CASE skip' = 0 -> "out" [] Len(big') < want' -> "look" [] OTHER -> "give"
  /\ UNCHANGED <<commandVars, data_active, data_idle, taskVars, wait, userVars, lost>>

(* The decoder releases no more than it was given.                         *)
CallRelease(n) ==
  /\ cpc = "holding" /\ n <= got
  /\ big' = Released(n)
  /\ due' = Forward(n) /\ cpc' = "out"
  /\ UNCHANGED <<commandVars, data_active, data_idle, taskVars, want, skip, wait, opened, got, lost>>

Call ==
  \/ CallClose
  \/ \E f \in Files : CallOpen(f)
  \/ \E n \in Asked : CallGet(n)
  \/ \E n \in Skipped : CallSkip(n)
  \/ \E n \in 0 .. Big : CallRelease(n)

InCall ==
  \/ CloseSend \/ Drain \/ Drained \/ CloseAck \/ Flushed \/ OpenSend \/ OpenAck
  \/ LookAtState \/ Take \/ TakeNothing \/ Give \/ GiveToSkip

Next == Task \/ (CallerRuns /\ (Call \/ InCall))

Spec == Init /\ [][Next]_vars

(* The task is scheduled and the card answers; a call, once made, runs on. *)
FairSpec == Spec /\ WF_vars(Task) /\ WF_vars(CallerRuns /\ InCall)

-----------------------------------------------------------------------------
(* Properties.                                                             *)

TypeOK ==
  /\ command \in Commands
  /\ state \in {"IDLE", "STREAMING"}
  /\ \A i \in DOMAIN data_active : data_active[i].last \in BOOLEAN
  /\ data_idle \in 0 .. NodeCount
  /\ pc \in {"command", "open", "loop", "node", "read", "done"}
  /\ fd \in Files \cup {None} /\ bytes_left \in Nat
  /\ cpc \in {"out", "close", "drain", "ack", "flush", "open", "wait", "look", "take",
              "give", "holding"}
  /\ want \in 0 .. Big /\ skip \in Nat /\ wait \in BOOLEAN
  /\ opened \in Files \cup {None} /\ due \in Nat /\ got \in 0 .. Big

InSession == opened # None /\ cpc \in {"out", "look", "take", "give", "holding"}

(* What has been read of the file and not yet used, in order; the bytes a  *)
(* skip is passing over come first.                                        *)
Unused == FlattenSeq(<<big>> \o [i \in DOMAIN data_active |-> data_active[i].data])

(* The bytes on their way to the decoder are those of the file it opened,  *)
(* each once, in order, from where it is to where the task has read; none  *)
(* is left over from the file before.  Two things part the bytes from      *)
(* where the decoder is.  After a failed read they are still bytes of that *)
(* file, in order.  After a skip past the end some of the last bytes come  *)
(* again, fewer than the big buffer holds (line 269 of file-stream.c asks  *)
(* to release more than there is, which line 239 ignores).                 *)
InOrder ==
  InSession /\ skip = 0 =>
    \E p \in 0 .. Size[opened] :
      /\ Unused = Bytes(opened, p, Len(Unused))
      /\ lost = 0 => IF due <= Size[opened] THEN p = due ELSE Size[opened] - p < Big
      /\ fd # None /\ pc \in {"node", "read"} => p + Len(Unused) + bytes_left = Size[opened]

(* The copy of a node never runs past the end of the big buffer, which is  *)
(* allocated one small buffer larger than the largest request.             *)
BigBufferFits == Len(big) <= Big + Small - 1

(* Every node is free, queued, being filled by the task, or was dropped by *)
(* a read that failed: an open or a close in mid-stream loses none.        *)
NodesKept ==
  /\ TypeOK
  /\ data_idle + Len(data_active) + (IF pc = "read" THEN 1 ELSE 0) + lost = NodeCount

(* Once fstream_close is through, the task has let go of the file, nothing *)
(* of it is queued and (but for failed reads) the pool is full again.      *)
CloseStops ==
  cpc = "open" \/ (cpc = "out" /\ opened = None) =>
    /\ pc = "command" /\ state = "IDLE" /\ data_active = <<>> /\ big = <<>>
    /\ data_idle + lost = NodeCount

InACall == cpc \notin {"out", "holding"}

(* Every call returns while no read has failed: the end of the file, an    *)
(* empty file and a close in mid-stream included.  After a failed read the *)
(* "NULL on error" of file-stream.h line 57 may never come: line 212 waits.*)
CallsReturnUnfailed == InACall ~> ~InACall \/ lost > 0

Stream == INSTANCE ByteStream WITH
  file <- IF InSession THEN opened ELSE None,
  pos <- IF InSession THEN due ELSE 0,
  view <- IF cpc = "holding" THEN SubSeq(big, 1, got) ELSE None,
  failed <- lost > 0,
  Again <- Big

(* The decoder sees a plain file through the queues and the buffers, but   *)
(* for what follows a failed read or a skip past the end.                  *)
ImplementsStream == Stream!Spec
=============================================================================
