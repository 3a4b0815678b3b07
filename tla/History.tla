------------------------------- MODULE History -------------------------------
(***************************************************************************)
(* What the queued songs promise (queued_next_song.c): of the songs that   *)
(* were picked at random the last Max are remembered, and going back leads *)
(* through them, newest first; from the last of them it goes on at random. *)
(***************************************************************************)
EXTENDS Integers, Sequences

CONSTANTS Songs, Max, None

VARIABLES
  now,        (* the song selected, or None                                *)
  picked      (* the songs remembered, oldest first                        *)

vars == <<now, picked>>

Init == now = None /\ picked = <<>>

Remember(s) == IF Len(s) > Max THEN Tail(s) ELSE s

Pick ==
  \E s \in Songs : now' = s /\ picked' = Remember(Append(picked, s))

Back ==
  /\ Len(picked) > 1
  /\ picked' = SubSeq(picked, 1, Len(picked) - 1)
  /\ now' = picked'[Len(picked')]

BackToTheFirst ==
  /\ Len(picked) = 1
  /\ \/ \E s \in Songs : now' = s /\ picked' = <<s>>
     \/ now' = None /\ picked' = <<>>

(* In order, or by a pick that finds nothing: nothing is remembered.       *)
Select == now' \in Songs \cup {None} /\ UNCHANGED picked

Forget == now' = None /\ picked' = <<>>

Next == Pick \/ Back \/ BackToTheFirst \/ Select \/ Forget

Spec == Init /\ [][Next]_vars
=============================================================================
