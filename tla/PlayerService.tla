---------------------------- MODULE PlayerService ----------------------------
(***************************************************************************)
(* What the playback library promises its callers (playback.h): requests   *)
(* are answered in the order they were submitted, a song is announced      *)
(* before anything else is said of it, it is closed exactly once, and it   *)
(* closes early only because a request that it cannot absorb is waiting.   *)
(* There are no message buffers here: a request is a value.  Module        *)
(* Playback implements this with a pool of recycled messages.              *)
(***************************************************************************)
EXTENDS Integers, Sequences

CONSTANTS
  Clients,    (* the tasks that call the library                           *)
  TxIds,      (* the values a transaction id can take                      *)
  HeardMax,   (* how many notices the listener can hold unread             *)
  None        (* no song, no request                                       *)

VARIABLES
  pending,    (* the requests submitted and not yet answered, oldest first *)
  song,       (* the request of the song being played, or None             *)
  phase,      (* "stopped", "playing" or "paused"                          *)
  heard,      (* the notices given to the callback and not yet consumed    *)
  owed,       (* per client: the id of the call about to return, or None   *)
  ret         (* per client: the value of its last call                    *)

vars == <<pending, song, phase, heard, owed, ret>>

Request == [cmd : {"PLAY", "RESUME", "PAUSE", "STOP"}, tx : TxIds, cb : BOOLEAN]

Init ==
  /\ pending = <<>>
  /\ song = None
  /\ phase = "stopped"
  /\ heard = <<>>
  /\ owed = [c \in Clients |-> None]
  /\ ret = [c \in Clients |-> -1]

(* A request joins the queue; its caller is owed its id.                   *)
Submit(c) ==
  \E r \in Request :
    /\ owed[c] = None
    /\ pending' = Append(pending, r)
    /\ owed' = [owed EXCEPT ![c] = r.tx]
    /\ UNCHANGED <<song, phase, heard, ret>>

(* The call returns the id of the request, whatever happened to it since.  *)
Return(c) ==
  /\ owed[c] # None
  /\ ret' = [ret EXCEPT ![c] = owed[c]]
  /\ owed' = [owed EXCEPT ![c] = None]
  /\ UNCHANGED <<pending, song, phase, heard>>

(* A call that submits nothing returns -1.                                 *)
Fail(c) ==
  /\ owed[c] = None
  /\ ret' = [ret EXCEPT ![c] = -1]
  /\ UNCHANGED <<pending, song, phase, heard, owed>>

(* The callback of request r hears status s; without one nothing is said.  *)
Notify(r, s) ==
  IF r.cb THEN /\ Len(heard) < HeardMax
               /\ heard' = Append(heard, <<s, r.tx>>)
          ELSE heard' = heard

Waiting(cmds) == pending # <<>> /\ Head(pending).cmd \in cmds

Start ==
  /\ song = None /\ Waiting({"PLAY"})
  /\ Notify(Head(pending), "PLAYING")
  /\ song' = Head(pending)
  /\ phase' = "playing"
  /\ pending' = Tail(pending)
  /\ UNCHANGED <<owed, ret>>

(* With no song every other request is an error.                           *)
Refuse ==
  /\ song = None /\ Waiting({"RESUME", "PAUSE", "STOP"})
  /\ Notify(Head(pending), "ERROR")
  /\ pending' = Tail(pending)
  /\ UNCHANGED <<song, phase, owed, ret>>

Pause ==
  /\ phase = "playing" /\ Waiting({"PAUSE"})
  /\ Notify(Head(pending), "PAUSED")
  /\ phase' = "paused"
  /\ pending' = Tail(pending)
  /\ UNCHANGED <<song, owed, ret>>

Resume ==
  /\ phase = "paused" /\ Waiting({"RESUME"})
  /\ Notify(Head(pending), "PLAYING")
  /\ phase' = "playing"
  /\ pending' = Tail(pending)
  /\ UNCHANGED <<song, owed, ret>>

(* The song closes: by itself while it plays, or because the request at    *)
(* the head of the queue is neither a pause nor the resume it waits for.   *)
Finish ==
  /\ song # None
  /\ \E s \in {"STOPPED", "END_OF_SONG", "ERROR"} :
       /\ \/ phase = "playing" /\ s # "STOPPED"
          \/ phase = "playing" /\ s = "STOPPED" /\ Waiting({"PLAY", "RESUME", "STOP"})
          \/ phase = "paused"  /\ s = "STOPPED" /\ Waiting({"PLAY", "PAUSE", "STOP"})
       /\ Notify(song, s)
  /\ song' = None
  /\ phase' = "stopped"
  /\ UNCHANGED <<pending, owed, ret>>

Listen ==
  /\ heard # <<>>
  /\ heard' = Tail(heard)
  /\ UNCHANGED <<pending, song, phase, owed, ret>>

Serve == Start \/ Refuse \/ Pause \/ Resume \/ Finish

Next ==
  \/ \E c \in Clients : Submit(c) \/ Return(c) \/ Fail(c)
  \/ Serve
  \/ Listen

Spec == Init /\ [][Next]_vars

(* The service also promises progress: while a request waits it acts.      *)
FairSpec == Spec /\ WF_vars(Serve /\ pending # <<>>) /\ WF_vars(Listen)
===============================================================================
