------------------------------- MODULE Database -------------------------------
(***************************************************************************)
(* src/library/database/src: the tree of artists, albums and songs, how it *)
(* is filled and purged, and how ui-t.c moves through it.  Three parts act *)
(* on it: the database task, which fills and purges it when it is asked    *)
(* to; __transition_db of radio-interface.c, which asks; and the command   *)
(* loop, which owns the pointer to the selected song.                      *)
(*                                                                         *)
(* A node is its path: <<artist>>, <<artist, album>>, <<artist, album,     *)
(* song>>, the root <<>>.  A name is a number, and the trees of            *)
(* binary-tree-avl.c keep the children of a node in that order.  A file of *)
(* the card is the song that its metadata name.  Pointers to songs are     *)
(* paths as well; the song under a pointer may have been freed.            *)
(***************************************************************************)
EXTENDS Integers, Sequences, FiniteSets, CircularBuffer

CONSTANTS
  Files,       (* the songs that files of the card may name                *)
  QueuedMax,   (* MAX_QUEUED_LINKED_LIST: how many songs are remembered    *)
  None,        (* no song: a null pointer                                  *)
  Freed,       (* a song that was freed under the pointer to it            *)
  RI_MSG_MAX   (* the messages that answers are posted in                  *)

ASSUME DatabaseAssumption ==
  /\ Files \subseteq Nat \X Nat \X Nat /\ IsFiniteSet(Files)
  /\ QueuedMax \in Nat \ {0} /\ RI_MSG_MAX \in Nat \ {0}
  /\ None \notin Files /\ Freed \notin Files \cup {None}

VARIABLES
  nodes,       (* the nodes below the root                                 *)
  dbase,       (* "purged", "adding", "ready", or "crashed"                *)
  asked,       (* the request the database task has: "none" or which       *)
  answers,     (* its answers that the BLU task has not looked at          *)
  blu,         (* where the BLU task is                                    *)
  song,        (* the song the user interface has selected                 *)
  queued,      (* queued_song_list: songs picked at random                 *)
  random       (* random_state of ui-t.c                                   *)

tree == <<nodes, dbase, queued>>
links == <<asked, answers, blu>>
vars == <<tree, links, song, random>>

Init ==
  /\ nodes = {} /\ dbase = "purged"
  /\ asked = "none" /\ answers = <<>> /\ blu = "main"
  /\ song = None
  /\ queued = cb_create_list(QueuedMax, None)
  /\ random = FALSE

-----------------------------------------------------------------------------
(* The tree.                                                               *)

Parent(n) == SubSeq(n, 1, Len(n) - 1)
Children(n) == {c \in nodes : Len(c) = Len(n) + 1 /\ Parent(c) = n}
Name(n) == n[Len(n)]
HeadOf(list) == CHOOSE n \in list : \A m \in list : Name(n) <= Name(m)
TailOf(list) == CHOOSE n \in list : \A m \in list : Name(n) >= Name(m)
Songs == {n \in nodes : Len(n) = 3}
Under(n) == {s \in Songs : SubSeq(s, 1, Len(n)) = n}

(* The first song below a node.                                            *)
Down(n) == HeadOf(Children(n))
FirstSong(n) ==
  CASE Len(n) = 0 -> Down(Down(Down(n)))
    [] Len(n) = 1 -> Down(Down(n))
    [] Len(n) = 2 -> Down(n)
    [] Len(n) = 3 -> n

-----------------------------------------------------------------------------
(* The database task.                                                      *)

(* database_purge: the pointer of the user interface stays as it is, the   *)
(* song under it is gone.  The mutant forgets the queued songs.            *)
Orphan == IF song = None THEN None ELSE Freed
PurgedTree == nodes' = {} /\ song' = Orphan /\ UNCHANGED queued
Purged == nodes' = {} /\ song' = Orphan /\ queued' = cb_clear_list(queued, None)

(* The task takes a free message for its answer before it starts.          *)
Free == Len(answers) < RI_MSG_MAX
Answer(a) == answers' = Append(answers, a) /\ asked' = "none"

(* Whatever the tree is in use for, it is purged first.                    *)
Populate ==
  /\ asked = "populate" /\ dbase # "adding" /\ Free
  /\ Purged
  /\ dbase' = "adding" /\ UNCHANGED <<links, random>>

Missing(f) == {SubSeq(f, 1, i) : i \in 1..3} \ nodes

(* add_song_to_root: artist, album and song are found or created.  When    *)
(* the song cannot be created, what was created for it is removed again;   *)
(* the mutant removes the album only.                                      *)
LeftAfterAlbum(f) ==
  IF SubSeq(f, 1, 1) \in Missing(f) THEN nodes \cup {SubSeq(f, 1, 1)} ELSE nodes
LeftAfter(f) == nodes

AddSong ==
  /\ dbase = "adding"
  /\ \E f \in Files :
       \/ nodes' = nodes \cup Missing(f)
       \/ f \in Missing(f) /\ nodes' = LeftAfter(f)
  /\ UNCHANGED <<dbase, queued, links, song, random>>

(* No memory for the artist, or for an album of an artist that was there   *)
(* before: the node that is to be removed is a null pointer.               *)
AddSongCrash ==
  /\ dbase = "adding"
  /\ \E f \in Files : SubSeq(f, 1, 2) \in Missing(f)
  /\ dbase' = "crashed"
  /\ UNCHANGED <<nodes, queued, links, song, random>>

Populated ==
  /\ dbase = "adding"
  /\ \/ dbase' = "ready" /\ Answer("POPULATED") /\ UNCHANGED <<nodes, queued, song>>
     \/ dbase' = "purged" /\ Answer("UNPOPULATED") /\ Purged
  /\ UNCHANGED <<blu, random>>

Purge ==
  /\ asked = "purge" /\ Free
  /\ Purged
  /\ dbase' = "purged" /\ Answer("PURGED") /\ UNCHANGED <<blu, random>>

-----------------------------------------------------------------------------
(* __transition_db.                                                        *)

Answers == {"POPULATED", "UNPOPULATED", "PURGED"}
Received(a) == answers # <<>> /\ a = Head(answers) /\ answers' = Tail(answers)
Goto(s) == blu' = s /\ UNCHANGED <<tree, random>>

(* The one message to the database task is waited for.                     *)
Ask(from, request, to) ==
  /\ blu = from /\ asked = "none" /\ asked' = request
  /\ Goto(to) /\ UNCHANGED <<answers, song>>

(* The loop that waits for the answer takes any that comes, one to a       *)
(* request that was abandoned included, and any other message abandons it. *)
PopulatingLoop ==
  /\ blu = "populating" /\ UNCHANGED <<asked, song>>
  /\ \/ Received("POPULATED") /\ Goto("commands")
     \/ Received("UNPOPULATED") /\ Goto("main")
     \/ Goto("main") /\ UNCHANGED answers

(* The command loop ends with a message from the card or with any answer,  *)
(* and the pointer to the song with it.  The mutant drops the answers.     *)
CommandLoopEndsByCard ==
  /\ blu = "commands" /\ UNCHANGED asked
  /\ \/ Goto("purge") /\ UNCHANGED answers /\ song' = None
     \/ (\E a \in Answers : Received(a)) /\ Goto("commands") /\ UNCHANGED song
CommandLoopEnds ==
  /\ blu = "commands" /\ UNCHANGED asked
  /\ UNCHANGED answers \/ \E a \in Answers : Received(a)
  /\ Goto("purge") /\ song' = None

(* The main loop, and the one that waits for the purge, drop the rest.     *)
Drop ==
  /\ blu \in {"main", "purging"} /\ UNCHANGED <<asked, song>>
  /\ \E a \in Answers : Received(a) /\ Goto(IF a = "PURGED" THEN "main" ELSE blu)

-----------------------------------------------------------------------------
(* Moving through it.                                                      *)

Level == [SONG |-> 3, ALBUM |-> 2, ARTIST |-> 1]

Found(s, status) == [song |-> s, status |-> status]

Neighbour(n, dir) ==
  LET list == Children(Parent(n))
      later == {m \in list : Name(m) > Name(n)}
      earlier == {m \in list : Name(m) < Name(n)}
  IN CASE dir = "NEXT" /\ later # {}       -> Found(HeadOf(later), "SUCCESS")
       [] dir = "NEXT" /\ later = {}       -> Found(HeadOf(list), "END_OF_LIST")
       [] dir = "PREVIOUS" /\ earlier # {} -> Found(TailOf(earlier), "SUCCESS")
       [] dir = "PREVIOUS" /\ earlier = {} -> Found(TailOf(list), "END_OF_LIST")

(* The random number may be one more than the last song's: none is found.  *)
next_song(current, dir, level) ==
  IF nodes = {} THEN {Found(current, "FAILURE")}
  ELSE IF current = None /\ dir = "NEXT" THEN {Found(FirstSong(<<>>), "SUCCESS")}
  ELSE LET c == IF current = None THEN FirstSong(<<>>) ELSE current
           n == SubSeq(c, 1, Level[level])
           r == Neighbour(n, dir)
       IN IF dir = "RANDOM"
          THEN {Found(s, "SUCCESS") : s \in Under(Parent(n))} \cup {Found(None, "FAILURE")}
          ELSE {Found(FirstSong(r.song), r.status)}

(* queued_next_song, with what becomes of the queue.                       *)
queued_next_song(current, dir, level) ==
  LET popped == IF dir = "PREVIOUS" THEN cb_pop(queued, None) ELSE queued
  IN IF dir = "PREVIOUS" /\ queued.head # 0 /\ popped.head # 0
     THEN {[song |-> cb_peek_tail(popped, None), queue |-> popped]}
     ELSE {[song |-> r.song,
            queue |-> IF r.status = "SUCCESS" THEN cb_push(popped, r.song) ELSE popped]
             : r \in next_song(current, "RANDOM", level)}

(* __find_song in order: at the end of the album it goes on with the next  *)
(* album, at the end of the artist with the next artist; the mutant stays  *)
(* with the artist.                                                        *)
ThenLevel(found, dir, level) ==
  UNION {IF r.status = "END_OF_LIST" THEN next_song(r.song, dir, level) ELSE {r} : r \in found}
FindInOrderOfArtist(dir, disc) ==
  LET first == next_song(song, dir, disc)
  IN IF disc = "SONG" THEN ThenLevel(first, dir, "ALBUM") ELSE first
FindInOrder(dir, disc) ==
  LET first == next_song(song, dir, disc)
  IN CASE disc = "SONG"   -> ThenLevel(ThenLevel(first, dir, "ALBUM"), dir, "ARTIST")
       [] disc = "ALBUM"  -> ThenLevel(first, dir, "ARTIST")
       [] disc = "ARTIST" -> first

InOrder(dir, disc) ==
  /\ song' \in {r.song : r \in FindInOrder(dir, disc)}
  /\ UNCHANGED queued

(* At random the status is never END_OF_LIST: one call, at the level of    *)
(* the disc.                                                               *)
AtRandom(dir, disc) ==
  \E r \in queued_next_song(song, dir, disc) : song' = r.song /\ queued' = r.queue

(* A command of the command loop.  Over a tree that is being filled it may *)
(* find what is in it by then.                                             *)
Browsing ==
  /\ blu = "commands"
  /\ dbase \in {"ready", "adding"} /\ song # Freed
  /\ UNCHANGED <<nodes, dbase, links, random>>

(* A command uses a song that was freed, a root that is a null pointer, or *)
(* a tree that the database task is changing.                              *)
Astray ==
  /\ blu = "commands"
  /\ dbase # "ready" \/ song = Freed
  /\ dbase' = "crashed"
  /\ UNCHANGED <<nodes, queued, links, song, random>>

(* A seek, or the end of a song.                                           *)
Seek(dir, disc) ==
  /\ Browsing
  /\ IF random THEN AtRandom(dir, disc) ELSE InOrder(dir, disc)

(* Fast play goes through the songs in order, whatever the setting.        *)
FastPlay(dir) == Browsing /\ InOrder(dir, "SONG")

(* The first play: the song is not remembered.                             *)
Play ==
  /\ Browsing /\ song = None
  /\ song' \in {r.song : r \in IF random THEN next_song(None, "RANDOM", "ARTIST")
                                         ELSE next_song(None, "NEXT", "SONG")}
  /\ UNCHANGED queued

SetRandom ==
  /\ blu = "commands" /\ random' = ~random
  /\ UNCHANGED <<tree, links, song>>

Directions == {"NEXT", "PREVIOUS"}
Discs == DOMAIN Level

(* After a crash nothing is said of the program.                           *)
Next ==
  /\ dbase # "crashed"
  /\ \/ Populate \/ AddSong \/ AddSongCrash \/ Populated \/ Purge
     \/ Ask("main", "populate", "populating") \/ PopulatingLoop
     \/ CommandLoopEnds \/ Ask("purge", "purge", "purging") \/ Drop
     \/ \E dir \in Directions, disc \in Discs : Seek(dir, disc)
     \/ \E dir \in Directions : FastPlay(dir)
     \/ Play \/ SetRandom \/ Astray

Spec == Init /\ [][Next]_vars

-----------------------------------------------------------------------------
TypeOK ==
  /\ dbase \in {"purged", "adding", "ready", "crashed"}
  /\ asked \in {"none", "populate", "purge"} /\ answers \in Seq(Answers)
  /\ blu \in {"main", "populating", "commands", "purge", "purging"}
  /\ song \in Files \cup {None, Freed} /\ random \in BOOLEAN
  /\ queued.head \in 0..QueuedMax /\ queued.tail \in 0..QueuedMax
  /\ queued.data \in [1..QueuedMax -> Files \cup {None}]

(* Whatever was short of memory while the tree was filled, every node      *)
(* leads to a song, which next_song takes for granted (add_song.c).        *)
SongsInTree ==
  /\ TypeOK
  /\ \A n \in nodes : Parent(n) \in nodes \cup {<<>>} /\ (Len(n) < 3 => Children(n) # {})

(* No song that is remembered outlives the tree it is in (database_purge.c *)
(* line 30), and the command loop, which owns the one selected, has ended  *)
(* when the tree is purged.  Except while an answer is due that will end   *)
(* it: the loop was entered by the answer to a request that had been       *)
(* abandoned, and the task that serves the next one purges the tree under  *)
(* it (radio-interface.c lines 575 and 612).                               *)
AnswerDue == asked # "none" \/ answers # <<>>
NoneDangling ==
  /\ {cb_peek_tail(queued, None)} \cup {queued.data[i] : i \in 1..QueuedMax}
       \subseteq Songs \cup {None}
  /\ song \in Songs \cup {None} \/ (blu = "commands" /\ AnswerDue)

(* Next on the disc of songs goes through all songs of the card, artist by *)
(* artist and album by album, and starts again (ui-t.c line 582).          *)
Before(s, t) ==
  \E i \in 1..3 : s[i] < t[i] /\ \A j \in 1..(i - 1) : s[j] = t[j]
First(list) == CHOOSE s \in list : \A t \in list : s = t \/ Before(s, t)
Successor(s) ==
  LET later == {t \in Songs : Before(s, t)}
  IN IF later = {} THEN First(Songs) ELSE First(later)
NextIsSuccessor ==
  [][song # None /\ ~random /\ Seek("NEXT", "SONG") => song' = Successor(song)]_vars

(* The queued songs are the history that queued_next_song promises.        *)
H == INSTANCE History WITH
       Songs <- Files, Max <- QueuedMax,
       now <- IF song = Freed THEN None ELSE song, picked <- Elements(queued)
KeepsHistory == H!Spec
===============================================================================
