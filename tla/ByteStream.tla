----------------------------- MODULE ByteStream -----------------------------
(***************************************************************************)
(* What the file-stream library promises the decoder that reads through it *)
(* (library/file-stream/src/file-stream.h): one file at a time, read from  *)
(* its first byte to its last; a look at the next bytes gives as many as   *)
(* were asked for, fewer only at the end of the file or once the card has  *)
(* failed; the reader gives back what it did not use and sees it again     *)
(* next time.  What the code does not promise is here as well: a reader    *)
(* that has skipped past the end is shown some of the last bytes again.    *)
(***************************************************************************)
EXTENDS Integers, Sequences

CONSTANTS
  Files, Size, None,
  Again   (* more than the bytes shown again after a skip past the end      *)

VARIABLES
  file,   (* the open file, or None                                         *)
  pos,    (* how many of its bytes the reader has used or skipped: one more *)
          (* than there are once it has skipped past the end                *)
  view,   (* the bytes the reader is looking at, or None                    *)
  failed  (* a read of the card has failed                                 *)

vars == <<file, pos, view, failed>>

Least(a, b) == IF a < b THEN a ELSE b

(* n bytes of f after the first p; a byte is named by its file and place.  *)
Bytes(f, p, n) == [i \in 1 .. n |-> <<f, p + i>>]

Init == file = None /\ pos = 0 /\ view = None /\ failed = FALSE

Open(f) ==
  /\ file = None
  /\ file' = f /\ pos' = 0
  /\ UNCHANGED <<view, failed>>

Forward(n) == Least(pos + n, Size[file] + 1)

Look(w) ==
  /\ file # None /\ view = None /\ w > 0
  /\ \/ pos <= Size[file] /\ view' = Bytes(file, pos, Least(w, Size[file] - pos))
     \/ /\ pos > Size[file]
        /\ \E p \in 0 .. Size[file] :
             Size[file] - p < Again /\ view' = Bytes(file, p, Least(w, Size[file] - p))
     \/ /\ failed
        /\ \E p \in 0 .. Size[file] : \E n \in 0 .. Least(w, Size[file] - p) :
             p <= pos /\ view' = Bytes(file, p, n)
  /\ UNCHANGED <<file, pos, failed>>

Release(n) ==
  /\ view # None /\ n <= Len(view)
  /\ pos' = Forward(n) /\ view' = None
  /\ UNCHANGED <<file, failed>>

Skip(n) ==
  /\ file # None /\ view = None
  /\ pos' = Forward(n)
  /\ UNCHANGED <<file, view, failed>>

(* Closing, which is also how another open begins.                         *)
Close ==
  /\ file # None /\ view = None
  /\ file' = None /\ pos' = 0
  /\ UNCHANGED <<view, failed>>

(* Once and for all: no reader relies on a card that has failed.           *)
Fail == failed' = TRUE /\ UNCHANGED <<file, pos, view>>

Next ==
  \/ \E f \in Files : Open(f)
  \/ file # None /\ \E n \in 0 .. Size[file] + 1 : Look(n + 1) \/ Release(n) \/ Skip(n)
  \/ Close \/ Fail

Spec == Init /\ [][Next]_vars
=============================================================================
