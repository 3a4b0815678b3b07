----------------------------- MODULE MediaPlay -----------------------------
(***************************************************************************)
(* The life of a song in the playback task: media_mp3_play (media-mp3.c)   *)
(* and media_flac_play (media-flac.c), called one after the other with the *)
(* same queue __idle of playback.c.  A song allocates NODE_COUNT nodes of  *)
(* samples and puts them in __idle; the decoder takes a node, fills it and *)
(* lends it to the DSP, whose task gives it back through dsp_callback; at  *)
(* the end of the song as many nodes are received and freed.               *)
(*                                                                         *)
(* A node is its address: the heap may hand out again what was freed.  The *)
(* content of the file is the outcome of each step, its length is "left".  *)
(* Names that Playback has too have Song in them.                          *)
(***************************************************************************)
EXTENDS Integers, Sequences, FiniteSets, SequencesExt

CONSTANTS
  Nodes,            (* addresses the heap has for nodes                     *)
  NODE_COUNT, IDLE_QUEUE_SIZE,
  Players,          (* the players in use, "mp3" and "flac"                 *)
  Frames,           (* the longest file, in buffers of the file stream      *)
  DoublesMax,       (* how often the DSP refuses the flac player a frame    *)
  NoNode

ASSUME PlayerAssumption == Players \subseteq {"mp3", "flac"}
ASSUME NodeAssumption == NoNode \notin Nodes
ASSUME CountAssumption ==
  /\ NODE_COUNT \in Nat \ {0} /\ IDLE_QUEUE_SIZE \in Nat /\ NODE_COUNT <= IDLE_QUEUE_SIZE
  /\ Frames \in Nat /\ DoublesMax \in Nat

VARIABLES
  idle,         (* the queue __idle                                         *)
  heap,         (* the nodes allocated                                      *)
  dsp,          (* the nodes lent to the DSP, in its order                  *)
  at, player,   (* where the player is, and which one it is                 *)
  i, node,      (* its counter of nodes; the node in its hands, or NoNode   *)
  rv,           (* the status it will return                                *)
  stream, left, (* the file stream is open; what is left of the file        *)
  starved,      (* the heap has refused a node                              *)
  doubled       (* how often a node was given back and kept                 *)

poolVars == <<idle, heap, dsp>>
flaws == <<starved, doubled>>
songVars == <<poolVars, at, player, i, node, rv, stream, left, flaws>>

SongInit ==
  /\ idle = <<>> /\ heap = {} /\ dsp = <<>>
  /\ at = "out" /\ player \in Players /\ i = 0 /\ node = NoNode
  /\ rv = "MI_RETURN_OK"
  /\ stream = FALSE /\ left = 0 /\ starved = FALSE /\ doubled = 0

(* os_queue_send_to_back( idle, &node, NO_WAIT ): a full queue drops it.   *)
Given(n) == IF Len(idle) < IDLE_QUEUE_SIZE THEN Append(idle, n) ELSE idle

-----------------------------------------------------------------------------
(* The call: fstream_open, and for a flac file its first four bytes.       *)
OpenSong ==
  /\ at = "out"
  /\ player' \in Players
  /\ left' \in 0 .. Frames
  /\ \/ rv' = "MI_ERROR_INVALID_FORMAT" /\ UNCHANGED <<at, i, stream>>
     \/ stream' = TRUE /\ rv' = "MI_RETURN_OK" /\ i' = NODE_COUNT /\ at' = "allocate"
     \/ /\ player' = "flac" /\ stream' = TRUE
        /\ rv' = "MI_ERROR_INVALID_FORMAT" /\ i' = 0 /\ at' = "free"
  /\ UNCHANGED <<poolVars, node, flaws>>

(* while( 0 < i-- ): when malloc fails, i is what remains to be allocated  *)
(* and not what was.                                                       *)
Allocate ==
  /\ at = "allocate" /\ i > 0
  /\ i' = i - 1
  /\ \/ \E n \in Nodes \ heap :
          /\ heap' = heap \cup {n} /\ idle' = Given(n)
          /\ UNCHANGED <<at, rv, flaws>>
     \/ /\ rv' = "MI_ERROR_OUT_OF_MEMORY" /\ at' = "free" /\ starved' = TRUE
        /\ UNCHANGED <<heap, idle>>
  /\ UNCHANGED <<dsp, player, node, stream, left, doubled>>

(* How many nodes to free (mutant: one too few).                           *)
ToFreeLess == NODE_COUNT - 1
ToFree == NODE_COUNT

(* The nodes are there.  The mp3 player allocates the state of its         *)
(* decoder, the flac player reads the blocks of metadata.                  *)
Prepare ==
  /\ at = "allocate" /\ i = 0
  /\ i' = ToFree
  /\ \/ at' = "decode" /\ UNCHANGED rv
     \/ player = "mp3" /\ at' = "free" /\ UNCHANGED rv
     \/ player = "flac" /\ at' = "free" /\ rv' = "MI_ERROR_DECODE_ERROR"
  /\ UNCHANGED <<poolVars, player, node, stream, left, flaws>>

(* os_queue_receive( idle, &node, WAIT_FOREVER )                           *)
TakeNode ==
  /\ idle # <<>>
  /\ node' = Head(idle) /\ idle' = Tail(idle)

(* dsp_queue_data: the DSP has the node, the player no longer (the mutant  *)
(* keeps it).                                                              *)
AfterLoanKeeps == node
AfterLoan == NoNode
Lend == dsp' = Append(dsp, node) /\ node' = AfterLoan

-----------------------------------------------------------------------------
(* decode_song and output_data of media-mp3.c                              *)

(* One turn of the loop: stopped by request; an empty buffer; a frame that *)
(* makes sound; one that makes none; an error.                             *)
Mp3Turn ==
  /\ player = "mp3" /\ at = "decode" /\ rv = "MI_RETURN_OK"
  /\ \/ /\ rv' \in {"MI_STOPPED_BY_REQUEST", "MI_ERROR_DECODE_ERROR"}
        /\ at' = "complete" /\ UNCHANGED left
     \/ /\ left > 0 /\ left' = left - 1
        /\ rv' = IF left = 1 THEN "MI_END_OF_SONG" ELSE rv
        /\ at' \in {"decode", "output"}
  /\ UNCHANGED <<poolVars, player, i, node, stream, flaws>>

Mp3End ==
  /\ player = "mp3" /\ at = "decode" /\ rv # "MI_RETURN_OK"
  /\ at' = "complete"
  /\ UNCHANGED <<poolVars, player, i, node, rv, stream, left, flaws>>

Mp3Take ==
  /\ player = "mp3" /\ at = "output" /\ node = NoNode
  /\ TakeNode
  /\ UNCHANGED <<heap, dsp, at, player, i, rv, stream, left, flaws>>

(* A refused node goes back to __idle (the mutant forgets it).             *)
TakenBackNot == idle
TakenBack == Given(node)

(* What output_data returns replaces the status, the end of the song too.  *)
Mp3Output ==
  /\ player = "mp3" /\ at = "output" /\ node # NoNode
  /\ at' = "decode"
  /\ \/ Lend /\ rv' = "MI_RETURN_OK" /\ UNCHANGED idle
     \/ /\ idle' = TakenBack /\ node' = NoNode /\ rv' = "MI_ERROR_DECODE_ERROR"
        /\ UNCHANGED dsp
  /\ UNCHANGED <<heap, player, i, stream, left, flaws>>

-----------------------------------------------------------------------------
(* play_song of media-flac.c                                               *)

FlacTake ==
  /\ player = "flac" /\ at = "decode" /\ node = NoNode
  /\ TakeNode
  /\ UNCHANGED <<heap, dsp, at, player, i, rv, stream, left, flaws>>

(* An empty buffer ends the song (the mutant decodes it).                  *)
AtEndNever == FALSE
AtEnd == left = 0

(* The end of the file; stopped by request or an error; a frame, with or   *)
(* without samples.                                                        *)
FlacTurn ==
  /\ player = "flac" /\ at = "decode" /\ node # NoNode
  /\ \/ AtEnd /\ rv' = "MI_END_OF_SONG" /\ at' = "done" /\ UNCHANGED left
     \/ /\ ~AtEnd /\ rv' \in {"MI_STOPPED_BY_REQUEST", "MI_ERROR_DECODE_ERROR"}
        /\ at' = "done" /\ UNCHANGED left
     \/ /\ ~AtEnd /\ left' = IF left = 0 THEN 0 ELSE left - 1
        /\ at' \in {"decode", "output"} /\ UNCHANGED rv
  /\ UNCHANGED <<poolVars, player, i, node, stream, flaws>>

(* A frame of a rate that the DSP does not support: the refused node goes  *)
(* back to __idle and is still in the player's hands.                      *)
FlacOutput ==
  /\ player = "flac" /\ at = "output"
  /\ \/ Lend /\ at' = "decode" /\ UNCHANGED <<idle, rv, doubled>>
     \/ /\ doubled < DoublesMax /\ doubled' = doubled + 1
        /\ idle' = Given(node) /\ at' = "done" /\ rv' = "MI_ERROR_DECODE_ERROR"
        /\ UNCHANGED <<dsp, node>>
  /\ UNCHANGED <<heap, player, i, stream, left, starved>>

FlacDone ==
  /\ player = "flac" /\ at = "done"
  /\ idle' = IF node = NoNode THEN idle ELSE Given(node)
  /\ node' = NoNode /\ at' = "complete"
  /\ UNCHANGED <<heap, dsp, player, i, rv, stream, left, flaws>>

-----------------------------------------------------------------------------
(* The end: dsp_data_complete, the nodes, fstream_close.                   *)

CompleteSong ==
  /\ at = "complete"
  /\ at' = "free"
  /\ UNCHANGED <<poolVars, player, i, node, rv, stream, left, flaws>>

(* A node that was given back twice is freed twice: what that does to the  *)
(* heap is not modelled.                                                   *)
FreeNode ==
  /\ at = "free" /\ i > 0 /\ idle # <<>>
  /\ idle' = Tail(idle) /\ heap' = heap \ {Head(idle)}
  /\ i' = i - 1
  /\ UNCHANGED <<dsp, at, player, node, rv, stream, left, flaws>>

CloseSong ==
  /\ at = "free" /\ i = 0
  /\ stream' = FALSE /\ at' = "out"
  /\ UNCHANGED <<poolVars, player, i, node, rv, left, flaws>>

(* The DSP task is done with a node: dsp_callback.                         *)
DspCallback ==
  /\ dsp # <<>>
  /\ idle' = Given(Head(dsp)) /\ dsp' = Tail(dsp)
  /\ UNCHANGED <<heap, at, player, i, node, rv, stream, left, flaws>>

Song ==
  \/ Allocate \/ Prepare \/ Mp3Turn \/ Mp3End \/ Mp3Take \/ Mp3Output
  \/ FlacTake \/ FlacTurn \/ FlacOutput \/ FlacDone \/ CompleteSong \/ FreeNode \/ CloseSong

SongNext == OpenSong \/ Song \/ DspCallback

SongSpec == SongInit /\ [][SongNext]_songVars

(* The playback task runs on, and the DSP gives back what it was lent.     *)
SongFairSpec == SongSpec /\ WF_songVars(Song) /\ WF_songVars(DspCallback)

-----------------------------------------------------------------------------
SongTypeOK ==
  /\ idle \in Seq(Nodes) /\ Len(idle) <= IDLE_QUEUE_SIZE /\ heap \subseteq Nodes
  /\ dsp \in Seq(Nodes)
  /\ at \in {"out", "allocate", "decode", "output", "done", "complete", "free"}
  /\ player \in Players /\ i \in 0 .. NODE_COUNT /\ node \in Nodes \cup {NoNode}
  /\ rv \in {"MI_RETURN_OK", "MI_STOPPED_BY_REQUEST", "MI_END_OF_SONG",
             "MI_ERROR_INVALID_FORMAT", "MI_ERROR_DECODE_ERROR", "MI_ERROR_OUT_OF_MEMORY"}
  /\ {stream, starved} \subseteq BOOLEAN /\ left \in 0 .. Frames
  /\ doubled \in 0 .. DoublesMax

(* Every allocated node is in one place, in __idle, with the player or     *)
(* with the DSP, and nothing else is: no node is freed while one of them   *)
(* still has it, none is freed twice, none is forgotten.  Except after the *)
(* DSP has refused the flac player a frame, whose node is given back twice *)
(* (media-flac.c lines 690 and 702).                                       *)
NodesOwned ==
  LET held == IF node = NoNode THEN <<>> ELSE <<node>>
      all == idle \o dsp \o held
  IN  SongTypeOK /\ (doubled = 0 => IsInjective(all) /\ ToSet(all) = heap)

(* Between two songs nothing of the last one is left, whichever way it     *)
(* ended: no node in __idle for the next one to find, none allocated, none *)
(* with the DSP, and the file is closed.  Only a heap that has refused a   *)
(* node, and a node that was given back twice, leave some behind.          *)
SongLeavesNothing ==
  at = "out" => ~stream /\ (starved \/ doubled > 0 \/ (dsp = <<>> /\ idle = <<>> /\ heap = {}))

(* A song that was started returns its status ("@return the status of the  *)
(* decode"): the wait for its nodes at the end does not last forever,      *)
(* unless the heap has refused one, or one was freed twice.                *)
SongReturns == (at # "out") ~> (at = "out" \/ starved \/ doubled > 0)
=============================================================================
