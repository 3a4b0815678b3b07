---------------------------- MODULE CircularBuffer ----------------------------
(***************************************************************************)
(* src/library/circular-buffer/src/circular-buffer.c: a ring that is used  *)
(* as a stack and forgets its oldest element when it is full.  A ring is a *)
(* record of its slots and the places of head and tail in them, 0 for a    *)
(* null pointer.  A slot out of use holds what cb_clear_list puts there.   *)
(***************************************************************************)
EXTENDS Integers, Sequences

cb_create_list(num, zero) == [data |-> [i \in 1..num |-> zero], head |-> 0, tail |-> 0]

Size(cb) == Len(cb.data)
NextSlot(cb, i) == IF i = Size(cb) THEN 1 ELSE i + 1
PrevSlot(cb, i) == IF i = 1 THEN Size(cb) ELSE i - 1

cb_clear_list(cb, zero) == cb_create_list(Size(cb), zero)

cb_peek_tail(cb, zero) == IF cb.tail = 0 THEN zero ELSE cb.data[cb.tail]

cb_pop(cb, zero) ==
  IF cb.head = cb.tail THEN cb_clear_list(cb, zero)
  ELSE [cb EXCEPT !.tail = PrevSlot(cb, cb.tail), !.data[cb.tail] = zero]

(* The tail moves on, and the head before it when the ring is full; the    *)
(* mutant leaves the head.                                                 *)
cb_push_over(cb, x) ==
  LET t == IF cb.tail = 0 THEN 1 ELSE NextSlot(cb, cb.tail) IN
  [data |-> [cb.data EXCEPT ![t] = x], head |-> IF cb.head = 0 THEN 1 ELSE cb.head, tail |-> t]
cb_push(cb, x) ==
  LET t == IF cb.tail = 0 THEN 1 ELSE NextSlot(cb, cb.tail)
      h == IF cb.head = 0 THEN 1 ELSE IF cb.head = t THEN NextSlot(cb, t) ELSE cb.head
  IN [data |-> [cb.data EXCEPT ![t] = x], head |-> h, tail |-> t]

(* The elements from the oldest to the newest.                             *)
Elements(cb) ==
  IF cb.tail = 0 THEN <<>>
  ELSE LET n == IF cb.head <= cb.tail THEN cb.tail - cb.head + 1
                                      ELSE cb.tail - cb.head + 1 + Size(cb)
       IN [i \in 1..n |-> cb.data[((cb.head + i - 2) % Size(cb)) + 1]]
===============================================================================
