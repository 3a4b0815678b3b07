---------------------------- MODULE DatabaseProofs ----------------------------
(***************************************************************************)
(* Proofs about the database: the tree is made of the paths to its songs   *)
(* and every pointer is to one of them, next goes through the songs of any *)
(* card in their order, and the queued songs implement History.            *)
(*                                                                         *)
(* The lemmas go from the ring (what a push and a pop do to its elements)  *)
(* and the tree (its lists, and the first song below a node) to the songs  *)
(* that next_song, __find_song and queued_next_song find.                  *)
(***************************************************************************)
EXTENDS Database, QueueLemmas

-----------------------------------------------------------------------------
(* The ring.                                                               *)

(* A ring of values of V: its pointers are null together.                  *)
Ring(V) ==
  {cb \in [data : [1 .. QueuedMax -> V], head : 0 .. QueuedMax, tail : 0 .. QueuedMax] :
     cb.head = 0 <=> cb.tail = 0}

(* How many elements are between two pointers, and the slot of each.       *)
Count(h, t) == IF h <= t THEN t - h + 1 ELSE t - h + 1 + QueuedMax
Slot(h, i) == IF h + i - 1 <= QueuedMax THEN h + i - 1 ELSE h + i - 1 - QueuedMax
After(i) == IF i = QueuedMax THEN 1 ELSE i + 1

(* The elements are in slots, the newest at the tail.                      *)
LEMMA SlotLemma ==
  ASSUME NEW h \in 1 .. QueuedMax, NEW t \in 1 .. QueuedMax
  PROVE  /\ Count(h, t) \in 1 .. QueuedMax
         /\ \A i \in 1 .. Count(h, t) : Slot(h, i) \in 1 .. QueuedMax
         /\ Slot(h, Count(h, t)) = t
         /\ After(t) \in 1 .. QueuedMax
<1>1. PICK n \in Nat \ {0} : n = QueuedMax
  BY DatabaseAssumption
<1>2. h \in 1 .. n /\ t \in 1 .. n
  BY <1>1
<1>3. QED BY <1>1, <1>2 DEF Count, Slot, After

(* The tail moves on to a slot that was not in use.                        *)
LEMMA MoreLemma ==
  ASSUME NEW h \in 1 .. QueuedMax, NEW t \in 1 .. QueuedMax, NEW u, u = After(t), h # u
  PROVE  /\ Count(h, u) = Count(h, t) + 1
         /\ \A i \in 1 .. Count(h, t) : Slot(h, i) # u
<1>1. PICK n \in Nat \ {0} : n = QueuedMax
  BY DatabaseAssumption
<1>2. h \in 1 .. n /\ t \in 1 .. n
  BY <1>1
<1>3. QED BY <1>1, <1>2 DEF Count, Slot, After

(* The tail moves on to the oldest element.                                *)
LEMMA FullLemma ==
  ASSUME NEW h \in 1 .. QueuedMax, NEW t \in 1 .. QueuedMax, h = After(t)
  PROVE  /\ Count(h, t) = QueuedMax /\ Count(After(h), h) = QueuedMax
         /\ \A i \in 1 .. (QueuedMax - 1) :
              Slot(After(h), i) = Slot(h, i + 1) /\ Slot(h, i + 1) # h
<1>1. PICK n \in Nat \ {0} : n = QueuedMax
  BY DatabaseAssumption
<1>2. h \in 1 .. n /\ t \in 1 .. n
  BY <1>1
<1>3. QED BY <1>1, <1>2 DEF Count, Slot, After

(* A remainder of a number below twice the divisor.                        *)
LEMMA ModLemma ==
  ASSUME NEW n \in Nat \ {0}, NEW k \in 0 .. (2 * n - 1)
  PROVE  k % n = IF k < n THEN k ELSE k - n
OBVIOUS

(* A ring keeps its number of slots.                                       *)
LEMMA RingSize ==
  ASSUME NEW V, NEW cb \in Ring(V)
  PROVE  Size(cb) = QueuedMax
<1>1. cb.data \in [1 .. QueuedMax -> V] /\ QueuedMax \in Nat
  BY DatabaseAssumption DEF Ring
<1>2. QED BY <1>1 DEF Size

(* The elements of a ring that is not empty, slot by slot.                 *)
LEMMA ElementsLemma ==
  ASSUME NEW V, NEW cb \in Ring(V)
  PROVE  /\ cb.tail = 0 => Elements(cb) = <<>>
         /\ cb.tail # 0 =>
              /\ cb.head \in 1 .. QueuedMax /\ cb.tail \in 1 .. QueuedMax
              /\ Elements(cb) \in Seq(V) /\ Len(Elements(cb)) = Count(cb.head, cb.tail)
              /\ \A i \in 1 .. Count(cb.head, cb.tail) :
                   Elements(cb)[i] = cb.data[Slot(cb.head, i)]
<1>1. cb.tail = 0 => Elements(cb) = <<>>
  BY DEF Elements
<1>2. ASSUME cb.tail # 0
      PROVE  /\ cb.head \in 1 .. QueuedMax /\ cb.tail \in 1 .. QueuedMax
             /\ Elements(cb) \in Seq(V) /\ Len(Elements(cb)) = Count(cb.head, cb.tail)
             /\ \A i \in 1 .. Count(cb.head, cb.tail) :
                  Elements(cb)[i] = cb.data[Slot(cb.head, i)]
  <2>1. PICK n \in Nat \ {0} : n = QueuedMax
    BY DatabaseAssumption
  <2>2. PICK h \in 1 .. n, t \in 1 .. n : h = cb.head /\ t = cb.tail
    BY <1>2, <2>1 DEF Ring
  <2>3. PICK d \in [1 .. n -> V] : d = cb.data
    BY <2>1 DEF Ring
  <2>4. PICK c \in 1 .. n : c = Count(h, t) /\ \A i \in 1 .. c : Slot(h, i) \in 1 .. n
    BY <2>1, SlotLemma
  <2>5. Elements(cb) = [i \in 1 .. c |-> d[((h + i - 2) % n) + 1]]
    <3>1. c = IF h <= t THEN t - h + 1 ELSE t - h + 1 + n
      BY <2>1, <2>4 DEF Count
    <3>2. QED BY <1>2, <2>1, <2>2, <2>3, <3>1, RingSize DEF Elements
  <2>6. \A i \in 1 .. c : ((h + i - 2) % n) + 1 = Slot(h, i)
    <3>1. SUFFICES ASSUME NEW i \in 1 .. c PROVE ((h + i - 2) % n) + 1 = Slot(h, i)
      OBVIOUS
    <3>2. i \in 1 .. n
      OBVIOUS
    <3>3. PICK k \in 0 .. (2 * n - 1) : k = h + i - 2
      BY <2>1, <3>2
    <3>4. k % n = IF k < n THEN k ELSE k - n
      BY ModLemma
    <3>5. PICK r : r = (h + i - 2) % n
      OBVIOUS
    <3>6. r = IF h + i - 2 < n THEN h + i - 2 ELSE h + i - 2 - n
      BY <3>3, <3>4, <3>5
    <3>7. r + 1 = Slot(h, i)
      BY <2>1, <3>2, <3>6 DEF Slot
    <3>8. QED BY <3>5, <3>7
  <2>7. PICK s \in [1 .. c -> 1 .. n] : \A i \in 1 .. c : s[i] = Slot(h, i)
    <3>1. [i \in 1 .. c |-> Slot(h, i)] \in [1 .. c -> 1 .. n]
      BY <2>4
    <3>2. QED BY <3>1
  <2>8. Elements(cb) = [i \in 1 .. c |-> d[s[i]]]
    BY <2>5, <2>6, <2>7
  <2>9. Elements(cb) \in Seq(V) /\ Len(Elements(cb)) = c /\ \A i \in 1 .. c : Elements(cb)[i] = d[s[i]]
    BY <2>8
  <2>10. QED BY <2>1, <2>2, <2>3, <2>4, <2>7, <2>9
<1>3. QED BY <1>1, <1>2

(* A cleared ring is empty.                                                *)
LEMMA ClearLemma ==
  ASSUME NEW V, NEW cb \in Ring(V), NEW zero \in V
  PROVE  /\ cb_clear_list(cb, zero) \in Ring(V)
         /\ cb_clear_list(cb, zero).head = 0 /\ cb_clear_list(cb, zero).tail = 0
         /\ Elements(cb_clear_list(cb, zero)) = <<>>
         /\ cb_clear_list(cb, zero) = cb_create_list(QueuedMax, zero)
<1>1. cb_clear_list(cb, zero) = [data |-> [i \in 1 .. QueuedMax |-> zero], head |-> 0, tail |-> 0]
  BY RingSize DEF cb_clear_list, cb_create_list
<1>2. QED BY <1>1, DatabaseAssumption DEF Ring, Elements, cb_create_list

(* A push adds at the end and forgets the oldest element of a full ring.   *)
LEMMA PushLemma ==
  ASSUME NEW V, NEW cb \in Ring(V), NEW x \in V
  PROVE  /\ cb_push(cb, x) \in Ring(V) /\ cb_push(cb, x).tail # 0
         /\ Elements(cb_push(cb, x)) = H!Remember(Append(Elements(cb), x))
<1>1. PICK n \in Nat \ {0} : n = QueuedMax /\ Size(cb) = n
  BY RingSize, DatabaseAssumption
<1>2. PICK d \in [1 .. n -> V] : d = cb.data
  BY <1>1 DEF Ring
<1>3. PICK up : up = cb_push(cb, x)
  OBVIOUS
<1>4. CASE cb.tail = 0
  <2>1. up = [data |-> [d EXCEPT ![1] = x], head |-> 1, tail |-> 1]
    BY <1>2, <1>3, <1>4 DEF cb_push, Ring
  <2>2. up \in Ring(V) /\ up.tail # 0 /\ up.data[1] = x
    BY <1>1, <1>2, <2>1 DEF Ring
  <2>3. Count(1, 1) = 1 /\ Slot(1, 1) = 1
    BY <1>1 DEF Count, Slot
  <2>4. Elements(up) \in Seq(V) /\ Len(Elements(up)) = 1 /\ Elements(up)[1] = x
    <3>1. up.head = 1 /\ up.tail = 1 /\ Count(up.head, up.tail) = 1 /\ Slot(up.head, 1) = 1
      BY <2>1, <2>3
    <3>2. /\ Elements(up) \in Seq(V) /\ Len(Elements(up)) = 1
          /\ \A i \in 1 .. 1 : Elements(up)[i] = up.data[Slot(up.head, i)]
      BY <2>2, <3>1, ElementsLemma
    <3>3. QED BY <2>2, <3>1, <3>2
  <2>5. Elements(up) = <<x>>
    BY <2>4
  <2>6. Append(Elements(cb), x) = <<x>> /\ Len(<<x>>) = 1
    <3>1. Elements(cb) = <<>>
      BY <1>4, ElementsLemma
    <3>2. QED BY <3>1
  <2>7. H!Remember(Append(Elements(cb), x)) = <<x>>
    BY <1>1, <2>6 DEF H!Remember
  <2>8. QED BY <1>3, <2>2, <2>5, <2>7
<1>5. CASE cb.tail # 0
  <2>1. PICK h \in 1 .. n, t \in 1 .. n : h = cb.head /\ t = cb.tail
    BY <1>1, <1>5, ElementsLemma
  <2>2. PICK u \in 1 .. n : u = After(t)
    BY <1>1, SlotLemma
  <2>3. up = [data |-> [d EXCEPT ![u] = x], head |-> IF h = u THEN After(u) ELSE h, tail |-> u]
    <3>1. NextSlot(cb, cb.tail) = u /\ NextSlot(cb, u) = After(u)
      BY <1>1, <2>1, <2>2 DEF NextSlot, After
    <3>2. QED BY <1>2, <1>3, <1>5, <2>1, <3>1 DEF cb_push
  <2>4. After(u) \in 1 .. n
    BY <1>1, SlotLemma
  <2>5. up \in Ring(V) /\ up.tail # 0
    BY <1>1, <2>3, <2>4 DEF Ring
  <2>6. PICK c \in 1 .. n : c = Count(h, t)
    BY <1>1, SlotLemma
  <2>7. PICK e \in Seq(V) : e = Elements(cb)
    BY <1>5, ElementsLemma
  <2>8. Len(e) = c /\ \A i \in 1 .. c : e[i] = d[Slot(h, i)]
    BY <1>2, <1>5, <2>1, <2>6, <2>7, ElementsLemma
  <2>9. /\ Append(e, x) \in Seq(V) /\ Len(Append(e, x)) = c + 1
        /\ \A i \in 1 .. c : Append(e, x)[i] = e[i]
        /\ Append(e, x)[c + 1] = x
    BY <2>8
  <2>10. PICK f \in Seq(V) : f = Elements(up)
    BY <2>5, ElementsLemma
  <2>11. CASE h # u
    <3>1. /\ Count(h, u) = c + 1 /\ Slot(h, c + 1) = u
          /\ \A i \in 1 .. c : Slot(h, i) # u /\ Slot(h, i) \in 1 .. n
      <4>1. Count(h, u) = c + 1 /\ \A i \in 1 .. c : Slot(h, i) # u
        BY <1>1, <2>2, <2>6, <2>11, MoreLemma
      <4>2. Slot(h, Count(h, u)) = u
        BY <1>1, SlotLemma
      <4>3. \A i \in 1 .. c : Slot(h, i) \in 1 .. n
        BY <1>1, <2>6, SlotLemma
      <4>4. QED BY <4>1, <4>2, <4>3
    <3>2. up.head = h /\ up.tail = u /\ up.data = [d EXCEPT ![u] = x]
      BY <2>3, <2>11
    <3>3. Len(f) = c + 1 /\ \A i \in 1 .. (c + 1) : f[i] = [d EXCEPT ![u] = x][Slot(h, i)]
      <4>1. Count(up.head, up.tail) = c + 1 /\ \A i : Slot(up.head, i) = Slot(h, i)
        BY <3>1, <3>2
      <4>2. QED BY <2>5, <2>10, <3>2, <4>1, ElementsLemma, ZenonT(30)
    <3>4. \A i \in 1 .. (c + 1) : f[i] = Append(e, x)[i]
      <4>1. \A i \in 1 .. c : f[i] = Append(e, x)[i]
        <5>1. \A i \in 1 .. c : i \in 1 .. (c + 1)
          OBVIOUS
        <5>2. QED BY <2>8, <2>9, <3>1, <3>3, <5>1
      <4>2. f[c + 1] = Append(e, x)[c + 1]
        <5>1. c + 1 \in 1 .. (c + 1) /\ [d EXCEPT ![u] = x][u] = x
          OBVIOUS
        <5>2. f[c + 1] = [d EXCEPT ![u] = x][Slot(h, c + 1)]
          BY <3>3, <5>1
        <5>3. QED BY <2>9, <3>1, <5>1, <5>2
      <4>3. \A i \in 1 .. (c + 1) : i \in 1 .. c \/ i = c + 1
        OBVIOUS
      <4>4. QED BY <4>1, <4>2, <4>3, Zenon
    <3>5. f = Append(e, x)
      BY <2>9, <3>3, <3>4, SeqEqual
    <3>6. Len(Append(e, x)) <= QueuedMax
      <4>1. c + 1 \in 1 .. QueuedMax
        BY <1>1, <3>1, SlotLemma
      <4>2. QED BY <2>9, <4>1, <1>1
    <3>7. H!Remember(Append(e, x)) = Append(e, x)
      BY <1>1, <2>9, <3>6 DEF H!Remember
    <3>8. QED BY <1>3, <2>5, <2>7, <2>10, <3>5, <3>7
  <2>12. CASE h = u
    <3>1. /\ c = n /\ Count(After(u), u) = n
          /\ \A i \in 1 .. (n - 1) : Slot(After(u), i) = Slot(h, i + 1) /\ Slot(h, i + 1) # u
          /\ Slot(After(u), n) = u
          /\ \A i \in 1 .. n : Slot(h, i) \in 1 .. n
      <4>1. c = n /\ Count(After(u), u) = n /\ \A i \in 1 .. n : Slot(h, i) \in 1 .. n
        <5>1. c = n
          BY <1>1, <2>2, <2>6, <2>12, FullLemma
        <5>2. Count(After(u), u) = n
          BY <1>1, <2>2, <2>12, FullLemma
        <5>3. \A i \in 1 .. c : Slot(h, i) \in 1 .. n
          BY <1>1, <2>6, SlotLemma
        <5>4. QED BY <5>1, <5>2, <5>3
      <4>2. \A i \in 1 .. (n - 1) : Slot(After(u), i) = Slot(h, i + 1) /\ Slot(h, i + 1) # u
        BY <1>1, <2>2, <2>12, FullLemma
      <4>3. Slot(After(u), Count(After(u), u)) = u
        BY <1>1, <2>4, SlotLemma
      <4>4. QED BY <4>1, <4>2, <4>3
    <3>2. up.head = After(u) /\ up.tail = u /\ up.data = [d EXCEPT ![u] = x]
      BY <2>3, <2>12
    <3>3. Len(f) = n /\ \A i \in 1 .. n : f[i] = [d EXCEPT ![u] = x][Slot(After(u), i)]
      <4>1. Count(up.head, up.tail) = n /\ \A i : Slot(up.head, i) = Slot(After(u), i)
        BY <3>1, <3>2
      <4>2. Len(f) = n /\ \A i \in 1 .. n : f[i] = up.data[Slot(up.head, i)]
        BY <2>5, <2>10, <4>1, ElementsLemma
      <4>3. QED BY <3>2, <4>1, <4>2
    <3>4. Tail(Append(e, x)) \in Seq(V) /\ Len(Tail(Append(e, x))) = n
          /\ \A i \in 1 .. n : Tail(Append(e, x))[i] = Append(e, x)[i + 1]
      <4>1. PICK g \in Seq(V) : g = Append(e, x) /\ Len(g) = n + 1
        BY <2>9, <3>1
      <4>2. Tail(g) \in Seq(V) /\ Len(Tail(g)) = n /\ \A i \in 1 .. n : Tail(g)[i] = g[i + 1]
        BY <4>1
      <4>3. QED BY <4>1, <4>2
    <3>5. \A i \in 1 .. n : f[i] = Tail(Append(e, x))[i]
      <4>1. ASSUME NEW i \in 1 .. (n - 1) PROVE f[i] = Tail(Append(e, x))[i]
        <5>1. i \in 1 .. n /\ i + 1 \in 1 .. n /\ i + 1 \in 1 .. c
          BY <3>1
        <5>2. f[i] = d[Slot(h, i + 1)]
          BY <3>1, <3>3, <5>1
        <5>3. Tail(Append(e, x))[i] = e[i + 1]
          BY <2>9, <3>4, <5>1
        <5>4. QED BY <2>8, <5>1, <5>2, <5>3
      <4>2. f[n] = Tail(Append(e, x))[n]
        <5>1. n \in 1 .. n /\ [d EXCEPT ![u] = x][u] = x
          OBVIOUS
        <5>2. f[n] = x
          BY <3>1, <3>3, <5>1
        <5>3. Tail(Append(e, x))[n] = Append(e, x)[n + 1]
          BY <3>4, <5>1
        <5>4. Append(e, x)[n + 1] = x
          BY <2>9, <3>1
        <5>5. QED BY <5>2, <5>3, <5>4
      <4>3. \A i \in 1 .. n : i \in 1 .. (n - 1) \/ i = n
        OBVIOUS
      <4>4. QED BY <4>1, <4>2, <4>3, Zenon
    <3>6. f = Tail(Append(e, x))
      BY <3>3, <3>4, <3>5, SeqEqual
    <3>7. H!Remember(Append(e, x)) = Tail(Append(e, x))
      BY <1>1, <2>9, <3>1 DEF H!Remember
    <3>8. QED BY <1>3, <2>5, <2>7, <2>10, <3>6, <3>7
  <2>13. QED BY <2>11, <2>12
<1>6. QED BY <1>4, <1>5

(* A pop takes the newest element and shows the one before it.             *)
LEMMA PopLemma ==
  ASSUME NEW V, NEW cb \in Ring(V), NEW zero \in V
  PROVE  /\ cb_pop(cb, zero) \in Ring(V)
         /\ cb.head = cb.tail => cb_pop(cb, zero) = cb_clear_list(cb, zero)
         /\ cb.head = cb.tail /\ cb.head # 0 => Len(Elements(cb)) = 1
         /\ cb.head # cb.tail =>
              /\ cb_pop(cb, zero).head = cb.head /\ cb.head # 0
              /\ Len(Elements(cb)) > 1
              /\ Elements(cb_pop(cb, zero)) = SubSeq(Elements(cb), 1, Len(Elements(cb)) - 1)
              /\ cb_peek_tail(cb_pop(cb, zero), zero) =
                   Elements(cb_pop(cb, zero))[Len(Elements(cb_pop(cb, zero)))]
<1>1. PICK n \in Nat \ {0} : n = QueuedMax /\ Size(cb) = n
  BY RingSize, DatabaseAssumption
<1>2. PICK d \in [1 .. n -> V] : d = cb.data
  BY <1>1 DEF Ring
<1>3. PICK down : down = cb_pop(cb, zero)
  OBVIOUS
<1>4. CASE cb.head = cb.tail
  <2>1. down = cb_clear_list(cb, zero)
    BY <1>3, <1>4 DEF cb_pop
  <2>2. cb.head # 0 => Len(Elements(cb)) = 1
    <3>1. cb.head # 0 => Count(cb.head, cb.tail) = 1
      BY <1>1, <1>4 DEF Count, Ring
    <3>2. QED BY <1>4, <3>1, ElementsLemma
  <2>3. QED BY <1>3, <1>4, <2>1, <2>2, ClearLemma
<1>5. CASE cb.head # cb.tail
  <2>1. PICK h \in 1 .. n, u \in 1 .. n : h = cb.head /\ u = cb.tail
    BY <1>1, <1>5 DEF Ring
  <2>2. PICK t \in 1 .. n : t = (IF u = 1 THEN n ELSE u - 1) /\ u = After(t)
    BY <1>1 DEF After
  <2>3. down = [data |-> [d EXCEPT ![u] = zero], head |-> h, tail |-> t]
    <3>1. t = PrevSlot(cb, cb.tail)
      BY <1>1, <2>1, <2>2 DEF PrevSlot
    <3>2. cb = [data |-> d, head |-> h, tail |-> u]
      BY <1>2, <2>1 DEF Ring
    <3>3. QED BY <1>3, <1>5, <3>1, <3>2 DEF cb_pop
  <2>4. down \in Ring(V) /\ down.tail # 0 /\ down.head = h /\ down.tail = t
        /\ down.data = [d EXCEPT ![u] = zero]
    BY <1>1, <2>3 DEF Ring
  <2>5. h # u
    BY <1>5, <2>1
  <2>6. PICK c \in 1 .. n : c = Count(h, t)
    BY <1>1, SlotLemma
  <2>7. /\ Count(h, u) = c + 1 /\ Slot(h, c) = t
        /\ \A i \in 1 .. c : Slot(h, i) # u /\ Slot(h, i) \in 1 .. n
    <3>1. Count(h, u) = c + 1 /\ \A i \in 1 .. c : Slot(h, i) # u
      BY <1>1, <2>2, <2>5, <2>6, MoreLemma
    <3>2. Slot(h, c) = t /\ \A i \in 1 .. c : Slot(h, i) \in 1 .. n
      BY <1>1, <2>6, SlotLemma
    <3>3. QED BY <3>1, <3>2
  <2>8. PICK e \in Seq(V) : e = Elements(cb)
    BY <2>1, ElementsLemma
  <2>9. Len(e) = c + 1 /\ \A i \in 1 .. (c + 1) : e[i] = d[Slot(h, i)]
    BY <1>2, <2>1, <2>7, <2>8, ElementsLemma, SMTT(30)
  <2>10. PICK f \in Seq(V) : f = Elements(down)
    BY <2>4, ElementsLemma
  <2>11. Len(f) = c /\ \A i \in 1 .. c : f[i] = [d EXCEPT ![u] = zero][Slot(h, i)]
    BY <2>4, <2>6, <2>10, ElementsLemma, ZenonT(30)
  <2>12. \A i \in 1 .. c : f[i] = e[i]
    <3>1. \A i \in 1 .. c : i \in 1 .. (c + 1)
      OBVIOUS
    <3>2. QED BY <2>7, <2>9, <2>11, <3>1
  <2>13. f = SubSeq(e, 1, Len(e) - 1) /\ Len(e) > 1
    <3>1. /\ SubSeq(e, 1, c) \in Seq(V) /\ Len(SubSeq(e, 1, c)) = c
          /\ \A i \in 1 .. c : SubSeq(e, 1, c)[i] = e[i]
      BY <2>9
    <3>2. f = SubSeq(e, 1, c)
      BY <2>11, <2>12, <3>1, SeqEqual
    <3>3. Len(e) - 1 = c /\ Len(e) > 1
      BY <2>9
    <3>4. QED BY <3>2, <3>3
  <2>14. cb_peek_tail(down, zero) = f[Len(f)]
    <3>1. f[c] = down.data[t]
      BY <2>4, <2>7, <2>11
    <3>2. QED BY <2>4, <2>11, <3>1 DEF cb_peek_tail
  <2>15. QED BY <1>3, <1>5, <2>1, <2>4, <2>8, <2>10, <2>13, <2>14
<1>6. QED BY <1>4, <1>5

-----------------------------------------------------------------------------
(* The tree.                                                               *)

(* The tree is made of the paths to its songs.                             *)
Tree ==
  /\ IsFiniteSet(nodes) /\ Songs \subseteq Files
  /\ nodes = {SubSeq(s, 1, i) : s \in Songs, i \in 1 .. 3}

(* Short sequences are tuples.                                             *)
LEMMA ShortLemma ==
  ASSUME NEW S, NEW q \in Seq(S)
  PROVE  /\ Len(q) = 0 => q = <<>>
         /\ Len(q) = 1 => q = <<q[1]>>
         /\ Len(q) = 2 => q = <<q[1], q[2]>>
<1>1. Len(q) = 0 => q = <<>>
  OBVIOUS
<1>2. ASSUME Len(q) = 1 PROVE q = <<q[1]>>
  <2>1. q[1] \in S
    BY <1>2
  <2>2. <<q[1]>> \in Seq(S) /\ Len(<<q[1]>>) = 1 /\ \A i \in 1 .. 1 : q[i] = <<q[1]>>[i]
    BY <2>1
  <2>3. QED BY <1>2, <2>2, SeqEqual
<1>3. ASSUME Len(q) = 2 PROVE q = <<q[1], q[2]>>
  <2>1. q[1] \in S /\ q[2] \in S
    <3>1. 1 \in 1 .. Len(q) /\ 2 \in 1 .. Len(q)
      BY <1>3
    <3>2. QED BY <3>1
  <2>2. <<q[1], q[2]>> \in Seq(S) /\ Len(<<q[1], q[2]>>) = 2
        /\ \A i \in 1 .. 2 : q[i] = <<q[1], q[2]>>[i]
    BY <2>1
  <2>3. QED BY <1>3, <2>2, SeqEqual
<1>4. QED BY <1>1, <1>2, <1>3

(* A song and the paths to it.                                             *)
LEMMA FileLemma ==
  ASSUME NEW f \in Files
  PROVE  /\ f \in Seq(Nat) /\ Len(f) = 3
         /\ f[1] \in Nat /\ f[2] \in Nat /\ f[3] \in Nat /\ f = <<f[1], f[2], f[3]>>
         /\ SubSeq(f, 1, 0) = <<>> /\ SubSeq(f, 1, 1) = <<f[1]>>
         /\ SubSeq(f, 1, 2) = <<f[1], f[2]>> /\ SubSeq(f, 1, 3) = f
<1>1. f \in Nat \X Nat \X Nat
  BY DatabaseAssumption
<1>2. PICK a \in Nat, b \in Nat, c \in Nat : f = <<a, b, c>>
  BY <1>1
<1>3. f \in Seq(Nat) /\ Len(f) = 3 /\ f[1] = a /\ f[2] = b /\ f[3] = c
  BY <1>2
<1>4. SubSeq(f, 1, 0) = <<>>
  BY <1>3
<1>5. SubSeq(f, 1, 1) = <<a>>
  <2>1. SubSeq(f, 1, 1) \in Seq(Nat) /\ Len(SubSeq(f, 1, 1)) = 1 /\ SubSeq(f, 1, 1)[1] = a
    BY <1>3
  <2>2. QED BY <2>1, ShortLemma
<1>6. SubSeq(f, 1, 2) = <<a, b>>
  <2>1. /\ SubSeq(f, 1, 2) \in Seq(Nat) /\ Len(SubSeq(f, 1, 2)) = 2
        /\ SubSeq(f, 1, 2)[1] = a /\ SubSeq(f, 1, 2)[2] = b
    BY <1>3
  <2>2. QED BY <2>1, ShortLemma
<1>7. SubSeq(f, 1, 3) = f
  BY <1>3
<1>8. QED BY <1>2, <1>3, <1>4, <1>5, <1>6, <1>7

(* A node is an artist, an album or a song on the path to a song.          *)
LEMMA NodesLemma ==
  Tree => \A n : n \in nodes <=> \E s \in Songs : n = <<s[1]>> \/ n = <<s[1], s[2]>> \/ n = s
<1> SUFFICES ASSUME Tree, NEW n
             PROVE  n \in nodes <=> \E s \in Songs : n = <<s[1]>> \/ n = <<s[1], s[2]>> \/ n = s
  OBVIOUS
<1>1. n \in nodes <=> \E s \in Songs, i \in 1 .. 3 : n = SubSeq(s, 1, i)
  BY DEF Tree
<1>2. \A s \in Songs : /\ SubSeq(s, 1, 1) = <<s[1]>> /\ SubSeq(s, 1, 2) = <<s[1], s[2]>>
                       /\ SubSeq(s, 1, 3) = s
  BY FileLemma DEF Tree
<1>3. \A i \in 1 .. 3 : i = 1 \/ i = 2 \/ i = 3
  OBVIOUS
<1>4. QED BY <1>1, <1>2, <1>3

(* The children of the root, of an artist and of an album.                 *)
LEMMA ChildrenLemma ==
  ASSUME Tree
  PROVE  /\ Children(<<>>) = {<<s[1]>> : s \in Songs}
         /\ \A a \in Nat : Children(<<a>>) = {<<s[1], s[2]>> : s \in {x \in Songs : x[1] = a}}
         /\ \A a, b \in Nat : Children(<<a, b>>) = {s \in Songs : s[1] = a /\ s[2] = b}
<1>1. \A s \in Songs : s \in nodes /\ <<s[1]>> \in nodes /\ <<s[1], s[2]>> \in nodes
  BY NodesLemma
<1>2. \A s \in Songs : s[1] \in Nat /\ s[2] \in Nat /\ s[3] \in Nat /\ Len(s) = 3
                       /\ Parent(s) = <<s[1], s[2]>>
  <2>1. \A s \in Songs : Len(s) - 1 = 2
    BY FileLemma DEF Tree
  <2>2. QED BY <2>1, FileLemma DEF Tree, Parent
<1>3. \A x, y : /\ Len(<<x>>) = 1 /\ Len(<<x, y>>) = 2
  OBVIOUS
<1>4. \A x \in Nat, y \in Nat : Parent(<<x>>) = <<>> /\ Parent(<<x, y>>) = <<x>>
  <2>1. ASSUME NEW x \in Nat PROVE Parent(<<x>>) = <<>>
    BY DEF Parent
  <2>2. ASSUME NEW x \in Nat, NEW y \in Nat PROVE Parent(<<x, y>>) = <<x>>
    <3>1. <<x, y>> \in Seq(Nat) /\ Len(<<x, y>>) - 1 = 1
      OBVIOUS
    <3>2. PICK q \in Seq(Nat) : q = <<x, y>> /\ Len(q) = 2 /\ q[1] = x
      BY <3>1
    <3>3. SubSeq(q, 1, 1) \in Seq(Nat) /\ Len(SubSeq(q, 1, 1)) = 1 /\ SubSeq(q, 1, 1)[1] = x
      BY <3>2
    <3>4. SubSeq(q, 1, 1) = <<x>>
      BY <3>3, ShortLemma
    <3>5. QED BY <3>1, <3>2, <3>4 DEF Parent
  <2>3. QED BY <2>1, <2>2
<1>5. Len(<<>>) = 0
  OBVIOUS
<1>6. \A n \in nodes : \E s \in Songs : n = <<s[1]>> \/ n = <<s[1], s[2]>> \/ n = s
  BY NodesLemma
<1>7. Children(<<>>) = {<<s[1]>> : s \in Songs}
  <2>1. \A n \in nodes : Len(n) = 1 => \E s \in Songs : n = <<s[1]>>
    BY <1>2, <1>3, <1>6
  <2>2. ASSUME NEW s \in Songs PROVE <<s[1]>> \in Children(<<>>)
    <3>1. <<s[1]>> \in nodes /\ Len(<<s[1]>>) = 1 /\ Parent(<<s[1]>>) = <<>>
      BY <1>1, <1>2, <1>3, <1>4
    <3>2. QED BY <1>5, <3>1 DEF Children
  <2>3. \A n \in Children(<<>>) : n \in nodes /\ Len(n) = 1
    BY <1>5 DEF Children
  <2>4. QED BY <2>1, <2>2, <2>3
<1>8. ASSUME NEW a \in Nat
      PROVE  Children(<<a>>) = {<<s[1], s[2]>> : s \in {x \in Songs : x[1] = a}}
  <2>1. \A n \in nodes : Len(n) = 2 => \E s \in Songs : n = <<s[1], s[2]>>
    BY <1>2, <1>3, <1>6
  <2>2. ASSUME NEW s \in Songs, s[1] = a PROVE <<s[1], s[2]>> \in Children(<<a>>)
    <3>1. /\ <<s[1], s[2]>> \in nodes /\ Len(<<s[1], s[2]>>) = 2
          /\ Parent(<<s[1], s[2]>>) = <<a>> /\ Len(<<a>>) = 1
      BY <1>1, <1>2, <1>3, <1>4, <2>2
    <3>2. QED BY <3>1 DEF Children
  <2>3. \A n \in Children(<<a>>) : n \in nodes /\ Len(n) = 2 /\ Parent(n) = <<a>>
    BY <1>3 DEF Children
  <2>4. ASSUME NEW s \in Songs, Parent(<<s[1], s[2]>>) = <<a>> PROVE s[1] = a
    <3>1. Parent(<<s[1], s[2]>>) = <<s[1]>>
      BY <1>2, <1>4
    <3>2. <<s[1]>> = <<a>>
      BY <2>4, <3>1
    <3>3. QED BY <3>2
  <2>5. QED BY <2>1, <2>2, <2>3, <2>4
<1>9. ASSUME NEW a \in Nat, NEW b \in Nat
      PROVE  Children(<<a, b>>) = {s \in Songs : s[1] = a /\ s[2] = b}
  <2>1. \A n \in nodes : Len(n) = 3 => n \in Songs
    BY DEF Songs
  <2>2. \A n \in Children(<<a, b>>) : n \in nodes /\ Len(n) = 3 /\ Parent(n) = <<a, b>>
    BY <1>3 DEF Children
  <2>3. \A s \in Songs : Parent(s) = <<a, b>> <=> s[1] = a /\ s[2] = b
    BY <1>2
  <2>4. ASSUME NEW s \in Songs, s[1] = a, s[2] = b PROVE s \in Children(<<a, b>>)
    <3>1. s \in nodes /\ Len(s) = 3 /\ Parent(s) = <<a, b>> /\ Len(<<a, b>>) = 2
      BY <1>1, <1>2, <1>3, <2>3, <2>4
    <3>2. QED BY <3>1 DEF Children
  <2>5. QED BY <2>1, <2>2, <2>3, <2>4
<1>10. QED BY <1>7, <1>8, <1>9

(* A finite list has a first and a last node.                              *)
LEMMA ExtremesLemma ==
  ASSUME NEW S, IsFiniteSet(S), S # {}, NEW v \in [S -> Nat]
  PROVE  /\ \E x \in S : \A y \in S : v[x] <= v[y]
         /\ \E x \in S : \A y \in S : v[x] >= v[y]
<1>1. \E x \in S : \A y \in S : v[x] <= v[y]
  <2>1. PICK m \in {v[x] : x \in S} : \A k \in {v[x] : x \in S} : m <= k
    <3>1. {v[x] : x \in S} \in SUBSET Nat /\ {v[x] : x \in S} # {}
      OBVIOUS
    <3>2. QED BY <3>1, LeastLemma
  <2>2. QED BY <2>1
<1>2. \E x \in S : \A y \in S : v[x] >= v[y]
  <2>0. PICK n \in Nat : ExistsSurjection(1 .. n, S)
    BY FS_NatSurjection
  <2>1. PICK f \in [1 .. n -> S] : \A x \in S : \E i \in 1 .. n : f[i] = x
    <3>1. PICK f \in Surjection(1 .. n, S) : TRUE
      BY <2>0 DEF ExistsSurjection
    <3>2. QED BY <3>1 DEF Surjection
  <2>2. n >= 1
    BY <2>1
  <2> DEFINE G == {k \in 1 .. n : \E b \in 1 .. k : \A j \in 1 .. k : v[f[b]] >= v[f[j]]}
  <2>3. 1 \in G
    <3>1. v[f[1]] \in Nat /\ 1 \in 1 .. n
      BY <2>1, <2>2
    <3>2. QED BY <3>1
  <2>4. ASSUME NEW k \in 1 .. n, k # n, k \in G PROVE k + 1 \in G
    <3>1. PICK b \in 1 .. k : \A j \in 1 .. k : v[f[b]] >= v[f[j]]
      BY <2>4
    <3>2. \A j \in 1 .. (k + 1) : j \in 1 .. n /\ v[f[j]] \in Nat
      BY <2>1, <2>4
    <3>3. \A j \in 1 .. (k + 1) : j \in 1 .. k \/ j = k + 1
      OBVIOUS
    <3>4. k + 1 \in 1 .. (k + 1) /\ b \in 1 .. (k + 1) /\ \A j \in 1 .. k : j \in 1 .. (k + 1)
      OBVIOUS
    <3>5. CASE v[f[b]] >= v[f[k + 1]]
      <4>1. \A j \in 1 .. (k + 1) : v[f[b]] >= v[f[j]]
        BY <3>1, <3>3, <3>5
      <4>2. QED BY <3>2, <3>4, <4>1
    <3>6. CASE ~(v[f[b]] >= v[f[k + 1]])
      <4>1. \A j \in 1 .. (k + 1) : v[f[k + 1]] >= v[f[j]]
        BY <3>1, <3>2, <3>3, <3>4, <3>6
      <4>2. QED BY <3>2, <3>4, <4>1
    <3>7. QED BY <3>5, <3>6
  <2>5. n \in G
    <3>1. \A k \in 1 .. n : k # n /\ k \in G => k + 1 \in G
      BY <2>4
    <3> HIDE DEF G
    <3>2. \A i \in 1 .. n : i \in G
      BY <2>3, <3>1, ClimbLemma
    <3>3. QED BY <2>2, <3>2
  <2>6. PICK b \in 1 .. n : \A j \in 1 .. n : v[f[b]] >= v[f[j]]
    BY <2>5
  <2>7. QED BY <2>1, <2>6
<1>3. QED BY <1>1, <1>2

(* The name of a node is the last of its path.                             *)
LEMMA NameLemma ==
  ASSUME Tree
  PROVE  /\ \A n \in nodes : Name(n) \in Nat
         /\ \A x : Name(<<x>>) = x
         /\ \A x, y : Name(<<x, y>>) = y
         /\ \A s \in Songs : Name(s) = s[3]
<1>1. \A x : Name(<<x>>) = x
  BY DEF Name
<1>2. \A x, y : Name(<<x, y>>) = y
  BY DEF Name
<1>3. \A s \in Songs : /\ Name(s) = s[3]
                       /\ s[1] \in Nat /\ s[2] \in Nat /\ s[3] \in Nat
  BY FileLemma DEF Tree, Name
<1>4. \A n \in nodes : \E s \in Songs : n = <<s[1]>> \/ n = <<s[1], s[2]>> \/ n = s
  BY NodesLemma
<1>5. \A n \in nodes : Name(n) \in Nat
  BY <1>1, <1>2, <1>3, <1>4
<1>6. QED BY <1>1, <1>2, <1>3, <1>5

(* The head and the tail of a list of nodes are what they are called.      *)
LEMMA ListLemma ==
  ASSUME Tree, NEW list, list \subseteq nodes, list # {}
  PROVE  /\ HeadOf(list) \in list /\ \A m \in list : Name(HeadOf(list)) <= Name(m)
         /\ TailOf(list) \in list
<1>1. IsFiniteSet(list)
  BY FS_Subset DEF Tree
<1>2. PICK v \in [list -> Nat] : \A n \in list : v[n] = Name(n)
  <2>1. [n \in list |-> Name(n)] \in [list -> Nat]
    BY NameLemma
  <2>2. QED BY <2>1
<1>3. /\ \E x \in list : \A y \in list : v[x] <= v[y]
      /\ \E x \in list : \A y \in list : v[x] >= v[y]
  BY <1>1, ExtremesLemma
<1>4. /\ \E x \in list : \A y \in list : Name(x) <= Name(y)
      /\ \E x \in list : \A y \in list : Name(x) >= Name(y)
  BY <1>2, <1>3
<1>5. HeadOf(list) \in list /\ \A m \in list : Name(HeadOf(list)) <= Name(m)
  BY <1>4 DEF HeadOf
<1>6. TailOf(list) \in list
  BY <1>4 DEF TailOf
<1>7. QED BY <1>5, <1>6

(* A song comes before another by its artist, its album and its name.      *)
LEMMA BeforeLemma ==
  ASSUME NEW s \in Files, NEW t \in Files
  PROVE  Before(s, t) <=> \/ s[1] < t[1]
                          \/ s[1] = t[1] /\ s[2] < t[2]
                          \/ s[1] = t[1] /\ s[2] = t[2] /\ s[3] < t[3]
<1>1. \A i \in 1 .. 3 : i = 1 \/ i = 2 \/ i = 3
  OBVIOUS
<1>2. \A i \in 1 .. 3 : \A j : j \in 1 .. (i - 1) <=>
        (i = 2 /\ j = 1) \/ (i = 3 /\ (j = 1 \/ j = 2))
  OBVIOUS
<1>3. 1 \in 1 .. 3 /\ 2 \in 1 .. 3 /\ 3 \in 1 .. 3
  OBVIOUS
<1>4. ASSUME Before(s, t)
      PROVE  \/ s[1] < t[1]
             \/ s[1] = t[1] /\ s[2] < t[2]
             \/ s[1] = t[1] /\ s[2] = t[2] /\ s[3] < t[3]
  <2>1. PICK i \in 1 .. 3 : s[i] < t[i] /\ \A j \in 1 .. (i - 1) : s[j] = t[j]
    BY <1>4 DEF Before
  <2>2. QED BY <1>1, <1>2, <2>1
<1>5. ASSUME \/ s[1] < t[1]
             \/ s[1] = t[1] /\ s[2] < t[2]
             \/ s[1] = t[1] /\ s[2] = t[2] /\ s[3] < t[3]
      PROVE  Before(s, t)
  <2>1. CASE s[1] < t[1]
    BY <1>2, <1>3, <2>1 DEF Before
  <2>2. CASE s[1] = t[1] /\ s[2] < t[2]
    BY <1>2, <1>3, <2>2 DEF Before
  <2>3. CASE s[1] = t[1] /\ s[2] = t[2] /\ s[3] < t[3]
    BY <1>2, <1>3, <2>3 DEF Before
  <2>4. QED BY <1>5, <2>1, <2>2, <2>3
<1>6. QED BY <1>4, <1>5

(* The first of a set of songs is the one that CHOOSE finds.               *)
IsFirst(x, S) == x \in S /\ \A t \in S : x = t \/ Before(x, t)

(* There is one first song, the one that First chooses.                    *)
LEMMA FirstLemma ==
  ASSUME NEW S, S \subseteq Files, NEW x, IsFirst(x, S)
  PROVE  First(S) = x
<1>1. First(S) \in S /\ \A t \in S : First(S) = t \/ Before(First(S), t)
  BY DEF First, IsFirst
<1>2. x \in Files /\ First(S) \in Files
  BY <1>1 DEF IsFirst
<1>3. First(S) = x \/ (Before(First(S), x) /\ Before(x, First(S)))
  BY <1>1 DEF IsFirst
<1>4. ~(Before(First(S), x) /\ Before(x, First(S)))
  <2>1. PICK f \in Files : f = First(S)
    BY <1>2
  <2>2. /\ f[1] \in Nat /\ f[2] \in Nat /\ f[3] \in Nat
        /\ x[1] \in Nat /\ x[2] \in Nat /\ x[3] \in Nat
    BY <1>2, FileLemma
  <2>3. /\ Before(f, x) <=> \/ f[1] < x[1]
                            \/ f[1] = x[1] /\ f[2] < x[2]
                            \/ f[1] = x[1] /\ f[2] = x[2] /\ f[3] < x[3]
        /\ Before(x, f) <=> \/ x[1] < f[1]
                            \/ x[1] = f[1] /\ x[2] < f[2]
                            \/ x[1] = f[1] /\ x[2] = f[2] /\ x[3] < f[3]
    BY <1>2, BeforeLemma
  <2>4. ~(Before(f, x) /\ Before(x, f))
    BY <2>2, <2>3
  <2>5. QED BY <2>1, <2>4
<1>5. QED BY <1>3, <1>4

(* The first song below a node is the first of the songs below it.         *)
LEMMA FirstSongLemma ==
  ASSUME Tree
  PROVE  /\ Songs # {} => IsFirst(FirstSong(<<>>), Songs)
         /\ \A s \in Songs :
              /\ IsFirst(FirstSong(<<s[1]>>), {t \in Songs : t[1] = s[1]})
              /\ IsFirst(FirstSong(<<s[1], s[2]>>), {t \in Songs : t[1] = s[1] /\ t[2] = s[2]})
              /\ FirstSong(s) = s
<1>1. /\ \A x, y : Len(<<x>>) = 1 /\ Len(<<x, y>>) = 2
      /\ Len(<<>>) = 0
  OBVIOUS
<1>2. \A s \in Songs : /\ s \in Files /\ Len(s) = 3
                       /\ s[1] \in Nat /\ s[2] \in Nat /\ s[3] \in Nat /\ s = <<s[1], s[2], s[3]>>
  BY FileLemma DEF Tree
<1>3. /\ FirstSong(<<>>) = Down(Down(Down(<<>>)))
      /\ \A x : FirstSong(<<x>>) = Down(Down(<<x>>))
      /\ \A x, y : FirstSong(<<x, y>>) = Down(<<x, y>>)
      /\ \A s \in Songs : FirstSong(s) = s
  <2>1. FirstSong(<<>>) = Down(Down(Down(<<>>)))
    BY <1>1 DEF FirstSong
  <2>2. ASSUME NEW x PROVE FirstSong(<<x>>) = Down(Down(<<x>>))
    BY <1>1 DEF FirstSong
  <2>3. ASSUME NEW x, NEW y PROVE FirstSong(<<x, y>>) = Down(<<x, y>>)
    BY <1>1 DEF FirstSong
  <2>4. ASSUME NEW s \in Songs PROVE FirstSong(s) = s
    BY <1>2 DEF FirstSong
  <2>5. QED BY <2>1, <2>2, <2>3, <2>4
<1>4. \A n : Children(n) \subseteq nodes
  BY DEF Children
<1>5. ASSUME NEW s \in Songs
      PROVE  /\ Down(<<s[1], s[2]>>) \in Songs
             /\ Down(<<s[1], s[2]>>)[1] = s[1] /\ Down(<<s[1], s[2]>>)[2] = s[2]
             /\ \A t \in Songs : t[1] = s[1] /\ t[2] = s[2] => Down(<<s[1], s[2]>>)[3] <= t[3]
  <2>1. PICK d : d = Down(<<s[1], s[2]>>)
    OBVIOUS
  <2>2. Children(<<s[1], s[2]>>) = {t \in Songs : t[1] = s[1] /\ t[2] = s[2]}
    BY <1>2, ChildrenLemma
  <2>3. /\ d \in Children(<<s[1], s[2]>>)
        /\ \A m \in Children(<<s[1], s[2]>>) : Name(d) <= Name(m)
    BY <1>4, <2>1, <2>2, ListLemma DEF Down
  <2>4. QED BY <2>1, <2>2, <2>3, NameLemma
<1>6. ASSUME NEW s \in Songs
      PROVE  \E x \in Songs : /\ Down(<<s[1]>>) = <<x[1], x[2]>> /\ x[1] = s[1]
                              /\ \A t \in Songs : t[1] = s[1] => x[2] <= t[2]
  <2>1. PICK d : d = Down(<<s[1]>>)
    OBVIOUS
  <2>2. Children(<<s[1]>>) = {<<t[1], t[2]>> : t \in {x \in Songs : x[1] = s[1]}}
    BY <1>2, ChildrenLemma
  <2>3. /\ d \in Children(<<s[1]>>)
        /\ \A m \in Children(<<s[1]>>) : Name(d) <= Name(m)
    BY <1>4, <2>1, <2>2, ListLemma DEF Down
  <2>4. PICK x \in Songs : d = <<x[1], x[2]>> /\ x[1] = s[1]
    BY <2>2, <2>3
  <2>5. ASSUME NEW t \in Songs, t[1] = s[1] PROVE x[2] <= t[2]
    <3>1. <<t[1], t[2]>> \in Children(<<s[1]>>)
      BY <2>2, <2>5
    <3>2. Name(d) <= Name(<<t[1], t[2]>>)
      BY <2>3, <3>1
    <3>3. QED BY <2>4, <3>2, NameLemma
  <2>6. QED BY <2>1, <2>4, <2>5
<1>7. ASSUME Songs # {}
      PROVE  \E x \in Songs : Down(<<>>) = <<x[1]>> /\ \A t \in Songs : x[1] <= t[1]
  <2>1. PICK d : d = Down(<<>>)
    OBVIOUS
  <2>2. Children(<<>>) = {<<t[1]>> : t \in Songs}
    BY ChildrenLemma
  <2>3. d \in Children(<<>>) /\ \A m \in Children(<<>>) : Name(d) <= Name(m)
    BY <1>4, <1>7, <2>1, <2>2, ListLemma DEF Down
  <2>4. PICK x \in Songs : d = <<x[1]>>
    BY <2>2, <2>3
  <2>5. ASSUME NEW t \in Songs PROVE x[1] <= t[1]
    <3>1. <<t[1]>> \in Children(<<>>)
      BY <2>2
    <3>2. Name(d) <= Name(<<t[1]>>)
      BY <2>3, <3>1
    <3>3. QED BY <2>4, <3>2, NameLemma
  <2>6. QED BY <2>1, <2>4, <2>5
<1>8. ASSUME NEW s \in Songs
      PROVE  IsFirst(Down(<<s[1], s[2]>>), {t \in Songs : t[1] = s[1] /\ t[2] = s[2]})
  <2>1. PICK d \in Songs : d = Down(<<s[1], s[2]>>)
    BY <1>5
  <2>2. d[1] = s[1] /\ d[2] = s[2]
        /\ \A t \in Songs : t[1] = s[1] /\ t[2] = s[2] => d[3] <= t[3]
    BY <1>5, <2>1
  <2>3. ASSUME NEW t \in Songs, t[1] = s[1], t[2] = s[2] PROVE d = t \/ Before(d, t)
    <3>1. CASE d[3] = t[3]
      BY <1>2, <2>2, <2>3, <3>1
    <3>2. CASE d[3] < t[3]
      BY <1>2, <2>2, <2>3, <3>2, BeforeLemma
    <3>3. QED BY <1>2, <2>2, <2>3, <3>1, <3>2
  <2>4. QED BY <2>1, <2>2, <2>3 DEF IsFirst
<1>9. ASSUME NEW s \in Songs
      PROVE  IsFirst(Down(Down(<<s[1]>>)), {t \in Songs : t[1] = s[1]})
  <2>1. PICK x \in Songs : /\ Down(<<s[1]>>) = <<x[1], x[2]>> /\ x[1] = s[1]
                           /\ \A t \in Songs : t[1] = s[1] => x[2] <= t[2]
    BY <1>6
  <2>2. PICK d : d = Down(<<x[1], x[2]>>)
    OBVIOUS
  <2>3. IsFirst(d, {t \in Songs : t[1] = x[1] /\ t[2] = x[2]})
    BY <1>8, <2>2
  <2>4. d \in Songs /\ d[1] = s[1] /\ d[2] = x[2]
    BY <2>1, <2>3 DEF IsFirst
  <2>5. ASSUME NEW t \in Songs, t[1] = s[1] PROVE d = t \/ Before(d, t)
    <3>1. CASE t[2] = x[2]
      BY <2>1, <2>3, <2>5, <3>1 DEF IsFirst
    <3>2. CASE x[2] < t[2]
      BY <1>2, <2>4, <2>5, <3>2, BeforeLemma
    <3>3. QED BY <1>2, <2>1, <2>5, <3>1, <3>2
  <2>6. QED BY <2>1, <2>2, <2>4, <2>5 DEF IsFirst
<1>10. ASSUME Songs # {} PROVE IsFirst(Down(Down(Down(<<>>))), Songs)
  <2>1. PICK x \in Songs : Down(<<>>) = <<x[1]>> /\ \A t \in Songs : x[1] <= t[1]
    BY <1>7, <1>10
  <2>2. PICK d : d = Down(Down(<<x[1]>>))
    OBVIOUS
  <2>3. IsFirst(d, {t \in Songs : t[1] = x[1]})
    BY <1>9, <2>2
  <2>4. d \in Songs /\ d[1] = x[1]
    BY <2>3 DEF IsFirst
  <2>5. ASSUME NEW t \in Songs PROVE d = t \/ Before(d, t)
    <3>1. CASE t[1] = x[1]
      BY <2>3, <3>1 DEF IsFirst
    <3>2. CASE x[1] < t[1]
      BY <1>2, <2>4, <3>2, BeforeLemma
    <3>3. QED BY <1>2, <2>1, <3>1, <3>2
  <2>6. QED BY <2>1, <2>2, <2>4, <2>5 DEF IsFirst
<1>11. QED BY <1>3, <1>8, <1>9, <1>10

(* A record that was found has the song it was found with.                 *)
LEMMA SingleLemma ==
  ASSUME NEW a, NEW d
  PROVE  Found(a, d).song = a /\ Found(a, d).status = d
BY DEF Found

(* The nodes above a song.                                                 *)
LEMMA ParentLemma ==
  ASSUME Tree, NEW s \in Songs
  PROVE  /\ Parent(<<s[1]>>) = <<>> /\ Parent(<<s[1], s[2]>>) = <<s[1]>>
         /\ Parent(s) = <<s[1], s[2]>>
         /\ SubSeq(s, 1, Level["ARTIST"]) = <<s[1]>>
         /\ SubSeq(s, 1, Level["ALBUM"]) = <<s[1], s[2]>>
         /\ SubSeq(s, 1, Level["SONG"]) = s
<1>1. /\ s \in Files /\ s[1] \in Nat /\ s[2] \in Nat /\ s \in Seq(Nat) /\ Len(s) = 3
      /\ SubSeq(s, 1, 1) = <<s[1]>> /\ SubSeq(s, 1, 2) = <<s[1], s[2]>> /\ SubSeq(s, 1, 3) = s
  BY FileLemma DEF Tree
<1>2. Parent(<<s[1]>>) = <<>>
  BY <1>1 DEF Parent
<1>3. Parent(<<s[1], s[2]>>) = <<s[1]>>
  <2>1. PICK q \in Seq(Nat) : q = <<s[1], s[2]>> /\ Len(q) - 1 = 1 /\ q[1] = s[1] /\ Len(q) = 2
    <3>1. PICK a \in Nat, b \in Nat : a = s[1] /\ b = s[2]
      BY <1>1
    <3>2. PICK q \in Seq(Nat) : q = <<a, b>>
      <4>1. <<a, b>> \in Seq(Nat)
        OBVIOUS
      <4>2. QED BY <4>1
    <3>3. Len(q) - 1 = 1 /\ q[1] = a /\ Len(q) = 2
      BY <3>2
    <3>4. QED BY <3>1, <3>2, <3>3
  <2>2. SubSeq(q, 1, 1) \in Seq(Nat) /\ Len(SubSeq(q, 1, 1)) = 1 /\ SubSeq(q, 1, 1)[1] = s[1]
    BY <2>1
  <2>3. SubSeq(q, 1, 1) = <<s[1]>>
    BY <2>2, ShortLemma
  <2>4. QED BY <2>1, <2>3 DEF Parent
<1>4. Parent(s) = <<s[1], s[2]>>
  <2>1. Len(s) - 1 = 2
    BY <1>1
  <2>2. QED BY <1>1, <2>1 DEF Parent
<1>5. QED BY <1>1, <1>2, <1>3, <1>4 DEF Level

(* The neighbour in a list, in which the node itself is.                   *)
LEMMA NeighbourLemma ==
  ASSUME Tree, NEW n, n \in Children(Parent(n)), NEW list, list = Children(Parent(n))
  PROVE  /\ (\E m \in list : Name(m) > Name(n)) =>
              \E x \in list : /\ Neighbour(n, "NEXT") = Found(x, "SUCCESS")
                              /\ Name(x) > Name(n)
                              /\ \A m \in list : Name(m) > Name(n) => Name(x) <= Name(m)
         /\ ~(\E m \in list : Name(m) > Name(n)) =>
              \E x \in list : /\ Neighbour(n, "NEXT") = Found(x, "END_OF_LIST")
                              /\ \A m \in list : Name(x) <= Name(m)
         /\ \E x \in list : \E s \in {"SUCCESS", "END_OF_LIST"} :
              Neighbour(n, "PREVIOUS") = Found(x, s)
<1> DEFINE later == {m \in list : Name(m) > Name(n)}
           earlier == {m \in list : Name(m) < Name(n)}
<1>1. list \subseteq nodes /\ n \in list /\ list # {}
  BY DEF Children
<1>2. HeadOf(list) \in list /\ TailOf(list) \in list
      /\ \A m \in list : Name(HeadOf(list)) <= Name(m)
  BY <1>1, ListLemma
<1>3. later # {} => HeadOf(later) \in later /\ \A m \in later : Name(HeadOf(later)) <= Name(m)
  <2>1. later \subseteq nodes
    BY <1>1
  <2> HIDE DEF later
  <2>2. QED BY <2>1, ListLemma
<1>4. earlier # {} => TailOf(earlier) \in earlier
  <2>1. earlier \subseteq nodes
    BY <1>1
  <2> HIDE DEF earlier
  <2>2. QED BY <2>1, ListLemma
<1>5. /\ later # {} => Neighbour(n, "NEXT") = Found(HeadOf(later), "SUCCESS")
      /\ later = {} => Neighbour(n, "NEXT") = Found(HeadOf(list), "END_OF_LIST")
      /\ earlier # {} => Neighbour(n, "PREVIOUS") = Found(TailOf(earlier), "SUCCESS")
      /\ earlier = {} => Neighbour(n, "PREVIOUS") = Found(TailOf(list), "END_OF_LIST")
  BY DEF Neighbour
<1>6. ASSUME \E m \in list : Name(m) > Name(n)
      PROVE  \E x \in list : /\ Neighbour(n, "NEXT") = Found(x, "SUCCESS")
                             /\ Name(x) > Name(n)
                             /\ \A m \in list : Name(m) > Name(n) => Name(x) <= Name(m)
  <2>1. later # {}
    BY <1>6
  <2>2. HeadOf(later) \in list /\ Name(HeadOf(later)) > Name(n)
        /\ \A m \in list : Name(m) > Name(n) => Name(HeadOf(later)) <= Name(m)
    BY <1>3, <2>1
  <2>3. QED BY <1>5, <2>1, <2>2
<1>7. ASSUME ~(\E m \in list : Name(m) > Name(n))
      PROVE  \E x \in list : /\ Neighbour(n, "NEXT") = Found(x, "END_OF_LIST")
                             /\ \A m \in list : Name(x) <= Name(m)
  <2>1. later = {}
    BY <1>7
  <2>2. QED BY <1>2, <1>5, <2>1
<1>8. \E x \in list : \E s \in {"SUCCESS", "END_OF_LIST"} : Neighbour(n, "PREVIOUS") = Found(x, s)
  <2>1. CASE earlier = {}
    BY <1>2, <1>5, <2>1
  <2>2. CASE earlier # {}
    <3>1. TailOf(earlier) \in list
      BY <1>4, <2>2
    <3>2. QED BY <1>5, <2>2, <3>1
  <2>3. QED BY <2>1, <2>2
<1>9. QED BY <1>6, <1>7, <1>8

(* A tree without songs is empty.                                          *)
LEMMA EmptyLemma == Tree => (nodes = {} <=> Songs = {})
BY DEF Tree, Songs

(* From a song, next_song looks at the neighbour on the level asked for.   *)
LEMMA NextSongIs ==
  ASSUME Tree, None \notin Songs, NEW c \in Songs, NEW dir \in Directions, NEW level \in Discs
  PROVE  \A r : r = Neighbour(SubSeq(c, 1, Level[level]), dir) =>
           next_song(c, dir, level) = {Found(FirstSong(r.song), r.status)}
<1>1. nodes # {} /\ c # None /\ dir # "RANDOM"
  BY EmptyLemma DEF Directions
<1>2. QED BY <1>1 DEF next_song

(* Next on the level of songs, of albums, of artists: the first song after *)
(* the one given, if there is one within the album, the artist, the tree.  *)
LEMMA NextOfSongs ==
  ASSUME Tree, None \notin Songs, NEW c \in Songs, NEW A,
         A = {t \in Songs : t[1] = c[1] /\ t[2] = c[2]}
  PROVE  \E x \in A :
           \/ /\ next_song(c, "NEXT", "SONG") = {Found(x, "SUCCESS")}
              /\ IsFirst(x, {t \in A : t[3] > c[3]})
           \/ /\ next_song(c, "NEXT", "SONG") = {Found(x, "END_OF_LIST")}
              /\ ~\E t \in A : t[3] > c[3]
<1>1. /\ \A s \in Songs : /\ s \in Files /\ s[1] \in Nat /\ s[2] \in Nat /\ s[3] \in Nat
                          /\ s = <<s[1], s[2], s[3]>>
      /\ "NEXT" \in Directions /\ "SONG" \in Discs
  BY FileLemma DEF Tree, Directions, Discs, Level
<1>2. Parent(c) = <<c[1], c[2]>> /\ Children(Parent(c)) = A /\ c \in A
  <2>1. Parent(c) = <<c[1], c[2]>>
    BY ParentLemma
  <2>2. Children(<<c[1], c[2]>>) = {t \in Songs : t[1] = c[1] /\ t[2] = c[2]}
    BY <1>1, ChildrenLemma
  <2>3. QED BY <2>1, <2>2
<1>3. \A s \in A : s \in Songs /\ Name(s) = s[3] /\ FirstSong(s) = s
  BY NameLemma, FirstSongLemma
<1>4. PICK r : r = Neighbour(c, "NEXT")
  OBVIOUS
<1>5. next_song(c, "NEXT", "SONG") = {Found(FirstSong(r.song), r.status)}
  <2>1. r = Neighbour(SubSeq(c, 1, Level["SONG"]), "NEXT")
    BY <1>4, ParentLemma
  <2>2. QED BY <1>1, <2>1, NextSongIs
<1>6. CASE \E t \in A : t[3] > c[3]
  <2>1. PICK x \in A : /\ r = Found(x, "SUCCESS") /\ x[3] > c[3]
                       /\ \A t \in A : t[3] > c[3] => x[3] <= t[3]
    <3>1. \E m \in A : Name(m) > Name(c)
      BY <1>2, <1>3, <1>6
    <3>2. PICK x \in A : /\ r = Found(x, "SUCCESS") /\ Name(x) > Name(c)
                         /\ \A m \in A : Name(m) > Name(c) => Name(x) <= Name(m)
      BY <1>2, <1>4, <3>1, NeighbourLemma
    <3>3. QED BY <1>2, <1>3, <3>2
  <2>2. next_song(c, "NEXT", "SONG") = {Found(x, "SUCCESS")}
    BY <1>3, <1>5, <2>1, SingleLemma
  <2>3. ASSUME NEW t \in A, t[3] > c[3] PROVE x = t \/ Before(x, t)
    <3>1. x[3] <= t[3] /\ x[1] = t[1] /\ x[2] = t[2] /\ x \in Songs /\ t \in Songs
      BY <2>1, <2>3
    <3>2. CASE x[3] = t[3]
      BY <1>1, <3>1, <3>2
    <3>3. CASE x[3] < t[3]
      BY <1>1, <3>1, <3>3, BeforeLemma
    <3>4. QED BY <1>1, <3>1, <3>2, <3>3
  <2>4. QED BY <2>1, <2>2, <2>3 DEF IsFirst
<1>7. CASE ~\E t \in A : t[3] > c[3]
  <2>1. PICK x \in A : r = Found(x, "END_OF_LIST")
    <3>1. ~\E m \in A : Name(m) > Name(c)
      BY <1>2, <1>3, <1>7
    <3>2. QED BY <1>2, <1>4, <3>1, NeighbourLemma
  <2>2. next_song(c, "NEXT", "SONG") = {Found(x, "END_OF_LIST")}
    BY <1>3, <1>5, <2>1, SingleLemma
  <2>3. QED BY <1>7, <2>2
<1>8. QED BY <1>6, <1>7

(* Next on the level of albums: the first song of the next album of the    *)
(* artist, or of the artist's first album and the end of the list.         *)
LEMMA NextOfAlbums ==
  ASSUME Tree, None \notin Songs, NEW c \in Songs, NEW A, A = {t \in Songs : t[1] = c[1]}
  PROVE  \E x \in A :
           \/ /\ next_song(c, "NEXT", "ALBUM") = {Found(x, "SUCCESS")}
              /\ IsFirst(x, {t \in A : t[2] > c[2]})
           \/ /\ next_song(c, "NEXT", "ALBUM") = {Found(x, "END_OF_LIST")}
              /\ ~\E t \in A : t[2] > c[2]
<1>1. /\ \A s \in Songs : /\ s \in Files /\ s[1] \in Nat /\ s[2] \in Nat /\ s[3] \in Nat
                          /\ s = <<s[1], s[2], s[3]>>
      /\ "NEXT" \in Directions /\ "ALBUM" \in Discs
  BY FileLemma DEF Tree, Directions, Discs, Level
<1>2. PICK n : n = <<c[1], c[2]>>
  OBVIOUS
<1>3. PICK list : list = {<<t[1], t[2]>> : t \in A}
  OBVIOUS
<1>4. Parent(n) = <<c[1]>> /\ Children(Parent(n)) = list /\ n \in list
  BY <1>1, <1>2, <1>3, ParentLemma, ChildrenLemma
<1>5. Name(n) = c[2] /\ \A t \in A : Name(<<t[1], t[2]>>) = t[2]
  BY <1>2, NameLemma
<1>6. PICK r : r = Neighbour(n, "NEXT")
  OBVIOUS
<1>7. next_song(c, "NEXT", "ALBUM") = {Found(FirstSong(r.song), r.status)}
  <2>1. r = Neighbour(SubSeq(c, 1, Level["ALBUM"]), "NEXT")
    BY <1>2, <1>6, ParentLemma
  <2>2. QED BY <1>1, <2>1, NextSongIs
<1>8. CASE \E t \in A : t[2] > c[2]
  <2>1. \E m \in list : Name(m) > Name(n)
    BY <1>3, <1>5, <1>8
  <2>2. PICK m \in list : /\ r = Found(m, "SUCCESS") /\ Name(m) > Name(n)
                          /\ \A k \in list : Name(k) > Name(n) => Name(m) <= Name(k)
    BY <1>4, <1>6, <2>1, NeighbourLemma
  <2>3. PICK y \in A : m = <<y[1], y[2]>>
    BY <1>3
  <2>4. y[2] > c[2] /\ \A t \in A : t[2] > c[2] => y[2] <= t[2]
    <3>1. \A t \in A : <<t[1], t[2]>> \in list
      BY <1>3
    <3>2. QED BY <1>5, <2>2, <2>3, <3>1
  <2>5. PICK x : x = FirstSong(<<y[1], y[2]>>)
    OBVIOUS
  <2>6. IsFirst(x, {t \in Songs : t[1] = y[1] /\ t[2] = y[2]})
    BY <2>5, FirstSongLemma
  <2>7. next_song(c, "NEXT", "ALBUM") = {Found(x, "SUCCESS")}
    BY <1>7, <2>2, <2>3, <2>5, SingleLemma
  <2>8. x \in A /\ x[2] = y[2]
    BY <2>6 DEF IsFirst
  <2>9. ASSUME NEW t \in A, t[2] > c[2] PROVE x = t \/ Before(x, t)
    <3>1. y[2] <= t[2] /\ x[1] = t[1] /\ y[1] = t[1] /\ t \in Songs /\ x \in Songs
      BY <2>4, <2>8, <2>9
    <3>2. CASE t[2] = y[2]
      BY <2>6, <3>1, <3>2 DEF IsFirst
    <3>3. CASE y[2] < t[2]
      BY <1>1, <2>8, <3>1, <3>3, BeforeLemma
    <3>4. QED BY <1>1, <3>1, <3>2, <3>3
  <2>10. x \in {t \in A : t[2] > c[2]}
    BY <2>4, <2>8
  <2>11. IsFirst(x, {t \in A : t[2] > c[2]})
    BY <2>9, <2>10 DEF IsFirst
  <2>12. QED BY <2>7, <2>8, <2>11
<1>9. CASE ~\E t \in A : t[2] > c[2]
  <2>1. ~\E m \in list : Name(m) > Name(n)
    BY <1>3, <1>5, <1>9
  <2>2. PICK m \in list : r = Found(m, "END_OF_LIST")
    BY <1>4, <1>6, <2>1, NeighbourLemma
  <2>3. PICK y \in A : m = <<y[1], y[2]>>
    BY <1>3
  <2>4. PICK x : x = FirstSong(<<y[1], y[2]>>)
    OBVIOUS
  <2>5. IsFirst(x, {t \in Songs : t[1] = y[1] /\ t[2] = y[2]})
    BY <2>4, FirstSongLemma
  <2>6. x \in A
    BY <2>5 DEF IsFirst
  <2>7. next_song(c, "NEXT", "ALBUM") = {Found(x, "END_OF_LIST")}
    BY <1>7, <2>2, <2>3, <2>4, SingleLemma
  <2>8. QED BY <1>9, <2>6, <2>7
<1>10. QED BY <1>8, <1>9

(* Next on the level of artists: the first song of the next artist, or of  *)
(* the first artist and the end of the list.                               *)
LEMMA NextOfArtists ==
  ASSUME Tree, None \notin Songs, NEW c \in Songs
  PROVE  \E x \in Songs :
           \/ /\ next_song(c, "NEXT", "ARTIST") = {Found(x, "SUCCESS")}
              /\ IsFirst(x, {t \in Songs : t[1] > c[1]})
           \/ /\ next_song(c, "NEXT", "ARTIST") = {Found(x, "END_OF_LIST")}
              /\ ~\E t \in Songs : t[1] > c[1]
              /\ IsFirst(x, Songs)
<1>1. /\ \A s \in Songs : /\ s \in Files /\ s[1] \in Nat /\ s[2] \in Nat /\ s[3] \in Nat
                          /\ s = <<s[1], s[2], s[3]>>
      /\ "NEXT" \in Directions /\ "ARTIST" \in Discs
  BY FileLemma DEF Tree, Directions, Discs, Level
<1>2. PICK n : n = <<c[1]>>
  OBVIOUS
<1>3. PICK list : list = {<<t[1]>> : t \in Songs}
  OBVIOUS
<1>4. Parent(n) = <<>> /\ Children(Parent(n)) = list /\ n \in list
  BY <1>1, <1>2, <1>3, ParentLemma, ChildrenLemma
<1>5. Name(n) = c[1] /\ \A t \in Songs : Name(<<t[1]>>) = t[1] /\ <<t[1]>> \in list
  BY <1>2, <1>3, NameLemma
<1>6. PICK r : r = Neighbour(n, "NEXT")
  OBVIOUS
<1>7. next_song(c, "NEXT", "ARTIST") = {Found(FirstSong(r.song), r.status)}
  <2>1. r = Neighbour(SubSeq(c, 1, Level["ARTIST"]), "NEXT")
    BY <1>2, <1>6, ParentLemma
  <2>2. QED BY <1>1, <2>1, NextSongIs
<1>8. ASSUME NEW y \in Songs, NEW x, x = FirstSong(<<y[1]>>), NEW S, S \subseteq Songs,
             {t \in Songs : t[1] = y[1]} \subseteq S, \A t \in S : y[1] <= t[1]
      PROVE  x \in Songs /\ IsFirst(x, S)
  <2>1. IsFirst(x, {t \in Songs : t[1] = y[1]})
    BY <1>8, FirstSongLemma
  <2>2. x \in Songs /\ x[1] = y[1] /\ x \in S
    BY <1>8, <2>1 DEF IsFirst
  <2>3. ASSUME NEW t \in S PROVE x = t \/ Before(x, t)
    <3>1. t \in Songs /\ y[1] <= t[1]
      BY <1>8
    <3>2. CASE t[1] = y[1]
      BY <2>1, <3>1, <3>2 DEF IsFirst
    <3>3. CASE y[1] < t[1]
      BY <1>1, <2>2, <3>1, <3>3, BeforeLemma
    <3>4. QED BY <1>1, <3>1, <3>2, <3>3
  <2>4. QED BY <2>2, <2>3 DEF IsFirst
<1>9. CASE \E t \in Songs : t[1] > c[1]
  <2>1. \E m \in list : Name(m) > Name(n)
    BY <1>5, <1>9
  <2>2. PICK m \in list : /\ r = Found(m, "SUCCESS") /\ Name(m) > Name(n)
                          /\ \A k \in list : Name(k) > Name(n) => Name(m) <= Name(k)
    BY <1>4, <1>6, <2>1, NeighbourLemma
  <2>3. PICK y \in Songs : m = <<y[1]>>
    BY <1>3
  <2>4. y[1] > c[1] /\ \A t \in Songs : t[1] > c[1] => y[1] <= t[1]
    BY <1>5, <2>2, <2>3
  <2>5. PICK x : x = FirstSong(<<y[1]>>)
    OBVIOUS
  <2>6. PICK S : S = {t \in Songs : t[1] > c[1]}
    OBVIOUS
  <2>7. /\ S \subseteq Songs /\ {t \in Songs : t[1] = y[1]} \subseteq S
        /\ \A t \in S : y[1] <= t[1]
    BY <2>4, <2>6
  <2>8. x \in Songs /\ IsFirst(x, S)
    BY <1>8, <2>5, <2>7
  <2>9. next_song(c, "NEXT", "ARTIST") = {Found(x, "SUCCESS")}
    BY <1>7, <2>2, <2>3, <2>5, SingleLemma
  <2>10. QED BY <2>6, <2>8, <2>9
<1>10. CASE ~\E t \in Songs : t[1] > c[1]
  <2>1. ~\E m \in list : Name(m) > Name(n)
    BY <1>3, <1>5, <1>10
  <2>2. PICK m \in list : r = Found(m, "END_OF_LIST") /\ \A k \in list : Name(m) <= Name(k)
    BY <1>4, <1>6, <2>1, NeighbourLemma
  <2>3. PICK y \in Songs : m = <<y[1]>>
    BY <1>3
  <2>4. \A t \in Songs : y[1] <= t[1]
    BY <1>5, <2>2, <2>3
  <2>5. PICK x : x = FirstSong(<<y[1]>>)
    OBVIOUS
  <2>6. x \in Songs /\ IsFirst(x, Songs)
    BY <1>8, <2>4, <2>5
  <2>7. next_song(c, "NEXT", "ARTIST") = {Found(x, "END_OF_LIST")}
    BY <1>7, <2>2, <2>3, <2>5, SingleLemma
  <2>8. QED BY <1>10, <2>6, <2>7
<1>11. QED BY <1>9, <1>10

-----------------------------------------------------------------------------
(* Next on the disc of songs.                                              *)

(* __find_song goes to the next level at the end of a list only.           *)
LEMMA ThenLemma ==
  ASSUME NEW x, NEW dir, NEW level
  PROVE  /\ ThenLevel({Found(x, "SUCCESS")}, dir, level) = {Found(x, "SUCCESS")}
         /\ ThenLevel({Found(x, "END_OF_LIST")}, dir, level) = next_song(x, dir, level)
<1>1. ASSUME NEW r
      PROVE  ThenLevel({r}, dir, level) =
               IF r.status = "END_OF_LIST" THEN next_song(r.song, dir, level) ELSE {r}
  BY DEF ThenLevel
<1>2. ThenLevel({Found(x, "SUCCESS")}, dir, level) = {Found(x, "SUCCESS")}
  BY <1>1, SingleLemma
<1>3. ThenLevel({Found(x, "END_OF_LIST")}, dir, level) = next_song(x, dir, level)
  BY <1>1, SingleLemma
<1>4. QED BY <1>2, <1>3

(* At the end of an album the next album follows, at the end of an artist  *)
(* the next artist, and after the last artist the first.                   *)
LEMMA SuccessorFound ==
  ASSUME Tree, None \notin Songs, song \in Songs, NEW x,
         x \in {r.song : r \in FindInOrder("NEXT", "SONG")}
  PROVE  x = Successor(song)
<1> DEFINE later == {t \in Songs : Before(song, t)}
           album == {t \in Songs : t[1] = song[1] /\ t[2] = song[2]}
           artist == {t \in Songs : t[1] = song[1]}
<1>1. \A s \in Songs : /\ s \in Files /\ s[1] \in Nat /\ s[2] \in Nat /\ s[3] \in Nat
                       /\ s = <<s[1], s[2], s[3]>>
  BY FileLemma DEF Tree
<1>2. FindInOrder("NEXT", "SONG") =
        ThenLevel(ThenLevel(next_song(song, "NEXT", "SONG"), "NEXT", "ALBUM"), "NEXT", "ARTIST")
  BY DEF FindInOrder
<1>3. \A y, s : {r.song : r \in {Found(y, s)}} = {y}
  BY SingleLemma
<1>4. \A t \in Songs : t \in later <=> \/ song[1] < t[1]
                                       \/ song[1] = t[1] /\ song[2] < t[2]
                                       \/ song[1] = t[1] /\ song[2] = t[2] /\ song[3] < t[3]
  BY <1>1, BeforeLemma
<1>5. /\ later \subseteq Files /\ Songs \subseteq Files
      /\ Successor(song) = IF later = {} THEN First(Songs) ELSE First(later)
  BY <1>1 DEF Successor
<1>6. ASSUME NEW y, FindInOrder("NEXT", "SONG") = {Found(y, "SUCCESS")}, IsFirst(y, later)
      PROVE  x = Successor(song)
  <2>1. x = y
    BY <1>3, <1>6
  <2>2. later # {} /\ First(later) = y
    <3> HIDE DEF later
    <3>1. later # {}
      BY <1>6 DEF IsFirst
    <3>2. QED BY <1>5, <1>6, <3>1, FirstLemma
  <2>3. QED BY <1>5, <2>1, <2>2
<1>7. PICK a \in album :
        \/ /\ next_song(song, "NEXT", "SONG") = {Found(a, "SUCCESS")}
           /\ IsFirst(a, {t \in album : t[3] > song[3]})
        \/ /\ next_song(song, "NEXT", "SONG") = {Found(a, "END_OF_LIST")}
           /\ ~\E t \in album : t[3] > song[3]
  BY NextOfSongs
<1>8. a \in Songs /\ a[1] = song[1] /\ a[2] = song[2]
  OBVIOUS
<1>9. CASE next_song(song, "NEXT", "SONG") = {Found(a, "SUCCESS")}
           /\ IsFirst(a, {t \in album : t[3] > song[3]})
  <2>1. FindInOrder("NEXT", "SONG") = {Found(a, "SUCCESS")}
    <3>1. ThenLevel(next_song(song, "NEXT", "SONG"), "NEXT", "ALBUM") = {Found(a, "SUCCESS")}
      BY <1>9, ThenLemma, ZenonT(30)
    <3>2. QED BY <1>2, <3>1, ThenLemma
  <2>2. a[3] > song[3] /\ \A t \in album : t[3] > song[3] => a = t \/ Before(a, t)
    BY <1>9 DEF IsFirst
  <2>3. a \in later
    BY <1>1, <1>4, <1>8, <2>2
  <2>4. ASSUME NEW t \in later PROVE a = t \/ Before(a, t)
    <3>1. t \in Songs
      OBVIOUS
    <3>2. CASE t \in album
      BY <1>1, <1>4, <2>2, <3>1, <3>2
    <3>3. CASE t \notin album
      BY <1>1, <1>4, <1>8, <3>1, <3>3, BeforeLemma
    <3>4. QED BY <3>2, <3>3
  <2>5. IsFirst(a, later)
    BY <2>3, <2>4 DEF IsFirst
  <2>6. QED BY <1>6, <2>1, <2>5
<1>10. CASE next_song(song, "NEXT", "SONG") = {Found(a, "END_OF_LIST")}
            /\ ~\E t \in album : t[3] > song[3]
  <2>1. FindInOrder("NEXT", "SONG") = ThenLevel(next_song(a, "NEXT", "ALBUM"), "NEXT", "ARTIST")
    <3>1. ThenLevel(next_song(song, "NEXT", "SONG"), "NEXT", "ALBUM")
            = next_song(a, "NEXT", "ALBUM")
      BY <1>10, ThenLemma
    <3>2. QED BY <1>2, <3>1
  <2>2. artist = {t \in Songs : t[1] = a[1]}
    BY <1>8
  <2>3. PICK b \in artist :
          \/ /\ next_song(a, "NEXT", "ALBUM") = {Found(b, "SUCCESS")}
             /\ IsFirst(b, {t \in artist : t[2] > a[2]})
          \/ /\ next_song(a, "NEXT", "ALBUM") = {Found(b, "END_OF_LIST")}
             /\ ~\E t \in artist : t[2] > a[2]
    BY <1>8, <2>2, NextOfAlbums
  <2>4. b \in Songs /\ b[1] = song[1]
    OBVIOUS
  <2>5. CASE next_song(a, "NEXT", "ALBUM") = {Found(b, "SUCCESS")}
             /\ IsFirst(b, {t \in artist : t[2] > a[2]})
    <3>1. FindInOrder("NEXT", "SONG") = {Found(b, "SUCCESS")}
      BY <2>1, <2>5, ThenLemma, ZenonT(30)
    <3>2. b[2] > song[2] /\ \A t \in artist : t[2] > song[2] => b = t \/ Before(b, t)
      BY <1>8, <2>5 DEF IsFirst
    <3>3. b \in later
      BY <1>1, <1>4, <2>4, <3>2
    <3>4. ASSUME NEW t \in later PROVE b = t \/ Before(b, t)
      <4>1. t \in Songs
        OBVIOUS
      <4>2. CASE t \in artist
        <5>1. t[2] > song[2]
          BY <1>1, <1>4, <1>10, <4>1, <4>2
        <5>2. QED BY <3>2, <4>2, <5>1
      <4>3. CASE t \notin artist
        BY <1>1, <1>4, <2>4, <4>1, <4>3, BeforeLemma
      <4>4. QED BY <4>2, <4>3
    <3>5. IsFirst(b, later)
      BY <3>3, <3>4 DEF IsFirst
    <3>6. QED BY <1>6, <3>1, <3>5
  <2>6. CASE next_song(a, "NEXT", "ALBUM") = {Found(b, "END_OF_LIST")}
             /\ ~\E t \in artist : t[2] > a[2]
    <3>1. FindInOrder("NEXT", "SONG") = next_song(b, "NEXT", "ARTIST")
      BY <2>1, <2>6, ThenLemma
    <3>2. PICK c \in Songs :
            \/ /\ next_song(b, "NEXT", "ARTIST") = {Found(c, "SUCCESS")}
               /\ IsFirst(c, {t \in Songs : t[1] > b[1]})
            \/ /\ next_song(b, "NEXT", "ARTIST") = {Found(c, "END_OF_LIST")}
               /\ ~\E t \in Songs : t[1] > b[1]
               /\ IsFirst(c, Songs)
      BY <2>4, NextOfArtists
    <3>3. \A t \in Songs : t \in later <=> song[1] < t[1]
      BY <1>1, <1>4, <1>8, <1>10, <2>6
    <3>4. later = {t \in Songs : t[1] > b[1]}
      BY <1>1, <2>4, <3>3
    <3>5. CASE next_song(b, "NEXT", "ARTIST") = {Found(c, "SUCCESS")}
               /\ IsFirst(c, {t \in Songs : t[1] > b[1]})
      BY <1>6, <3>1, <3>4, <3>5
    <3>6. CASE /\ next_song(b, "NEXT", "ARTIST") = {Found(c, "END_OF_LIST")}
               /\ ~\E t \in Songs : t[1] > b[1]
               /\ IsFirst(c, Songs)
      <4>1. x = c
        BY <1>3, <3>1, <3>6
      <4>2. later = {}
        BY <3>4, <3>6
      <4>3. First(Songs) = c
        BY <1>5, <3>6, FirstLemma
      <4>4. QED BY <1>5, <4>1, <4>2, <4>3
    <3>7. QED BY <3>2, <3>5, <3>6
  <2>7. QED BY <2>3, <2>5, <2>6
<1>11. QED BY <1>7, <1>9, <1>10

-----------------------------------------------------------------------------
(* The invariant.                                                          *)

Pointers == Songs \cup {None}

(* A purge is asked for and waited for outside the command loop, and its   *)
(* answer is the last there is.                                            *)
LinksInv ==
  /\ asked \in {"none", "populate", "purge"} /\ answers \in Seq(Answers)
  /\ blu \in {"main", "populating", "commands", "purge", "purging"}
  /\ dbase = "adding" => asked = "populate"
  /\ asked = "purge" => blu = "purging"
  /\ \A i \in 1 .. Len(answers) :
       answers[i] = "PURGED" => i = Len(answers) /\ asked = "none" /\ blu = "purging"

(* The selected song is one of the tree, or it was freed by a populate     *)
(* whose answer will end the command loop.                                 *)
SongInv ==
  /\ song \in Pointers \cup {Freed}
  /\ blu # "commands" => song = None
  /\ song = Freed => AnswerDue

(* The ring remembers songs of the tree.                                   *)
DInv ==
  /\ dbase \in {"purged", "adding", "ready", "crashed"} /\ random \in BOOLEAN
  /\ Tree
  /\ queued \in Ring(Pointers)
  /\ LinksInv /\ SongInv

(* No song is the null pointer, and none in the tree was freed.            *)
LEMMA NoneLemma == Tree => None \notin Songs /\ Freed \notin Pointers
BY DatabaseAssumption DEF Tree, Pointers

(* Every node leads to a song.                                             *)
LEMMA DownLemma ==
  ASSUME Tree, NEW n \in nodes
  PROVE  /\ FirstSong(n) \in Songs
         /\ n \in Children(Parent(n)) /\ Parent(n) \in nodes \cup {<<>>}
         /\ Len(n) < 3 => Children(n) # {}
<1>1. PICK s \in Songs : n = <<s[1]>> \/ n = <<s[1], s[2]>> \/ n = s
  BY NodesLemma
<1>2. s \in Files /\ s[1] \in Nat /\ s[2] \in Nat /\ Len(s) = 3
  BY FileLemma DEF Tree
<1>3. /\ Parent(<<s[1]>>) = <<>> /\ Parent(<<s[1], s[2]>>) = <<s[1]>>
      /\ Parent(s) = <<s[1], s[2]>>
  BY ParentLemma
<1>4. /\ Children(<<>>) = {<<t[1]>> : t \in Songs}
      /\ Children(<<s[1]>>) = {<<t[1], t[2]>> : t \in {x \in Songs : x[1] = s[1]}}
      /\ Children(<<s[1], s[2]>>) = {t \in Songs : t[1] = s[1] /\ t[2] = s[2]}
  BY <1>2, ChildrenLemma
<1>5. /\ <<s[1]>> \in Children(<<>>) /\ <<s[1], s[2]>> \in Children(<<s[1]>>)
      /\ s \in Children(<<s[1], s[2]>>)
  BY <1>4
<1>6. <<s[1]>> \in nodes /\ <<s[1], s[2]>> \in nodes
  BY NodesLemma
<1>7. /\ FirstSong(<<s[1]>>) \in Songs /\ FirstSong(<<s[1], s[2]>>) \in Songs
      /\ FirstSong(s) \in Songs
  BY FirstSongLemma DEF IsFirst
<1>8. CASE n = <<s[1]>>
  BY <1>3, <1>5, <1>7, <1>8
<1>9. CASE n = <<s[1], s[2]>>
  BY <1>3, <1>5, <1>6, <1>7, <1>9
<1>10. CASE n = s
  BY <1>2, <1>3, <1>5, <1>6, <1>7, <1>10, SMTT(30)
<1>11. QED BY <1>1, <1>8, <1>9, <1>10

(* next_song finds a song of the tree, or none.                            *)
LEMMA NextSongFinds ==
  ASSUME Tree, NEW c \in Pointers, NEW dir \in {"NEXT", "PREVIOUS", "RANDOM"},
         NEW level \in Discs, NEW r \in next_song(c, dir, level)
  PROVE  /\ r.song \in Pointers
         /\ dir = "RANDOM" => \/ r.status = "SUCCESS" /\ r.song \in Songs
                              \/ r.status = "FAILURE" /\ r.song = None
<1>1. None \notin Songs
  BY NoneLemma
<1>2. CASE nodes = {}
  <2>1. r = Found(c, "FAILURE") /\ c = None
    BY <1>2, EmptyLemma DEF next_song, Pointers
  <2>2. QED BY <2>1, SingleLemma DEF Pointers
<1>3. CASE nodes # {}
  <2>1. Songs # {} /\ FirstSong(<<>>) \in Songs
    BY <1>3, EmptyLemma, FirstSongLemma DEF IsFirst
  <2>2. PICK d \in Songs : d = IF c = None THEN FirstSong(<<>>) ELSE c
    BY <2>1 DEF Pointers
  <2>3. PICK n : n = SubSeq(d, 1, Level[level])
    OBVIOUS
  <2>4. n \in nodes
    <3>1. n = <<d[1]>> \/ n = <<d[1], d[2]>> \/ n = d
      BY <2>3, ParentLemma DEF Discs, Level
    <3>2. QED BY <3>1, NodesLemma
  <2>5. CASE c = None /\ dir = "NEXT"
    <3>1. r = Found(FirstSong(<<>>), "SUCCESS")
      BY <1>3, <2>5 DEF next_song
    <3>2. QED BY <2>1, <2>5, <3>1, SingleLemma DEF Pointers
  <2>6. CASE ~(c = None /\ dir = "NEXT") /\ dir = "RANDOM"
    <3>1. \/ \E s \in Under(Parent(n)) : r = Found(s, "SUCCESS")
          \/ r = Found(None, "FAILURE")
      BY <1>3, <2>2, <2>3, <2>6 DEF next_song
    <3>2. Under(Parent(n)) \subseteq Songs
      BY DEF Under
    <3>3. QED BY <3>1, <3>2, SingleLemma DEF Pointers
  <2>7. CASE ~(c = None /\ dir = "NEXT") /\ dir # "RANDOM"
    <3>1. PICK v : v = Neighbour(n, dir)
      OBVIOUS
    <3>2. r = Found(FirstSong(v.song), v.status)
      BY <1>3, <2>2, <2>3, <2>7, <3>1 DEF next_song
    <3>3. PICK x \in Children(Parent(n)) : v.song = x
      <4>1. n \in Children(Parent(n))
        BY <2>4, DownLemma
      <4>2. \E x \in Children(Parent(n)) : \E s : v = Found(x, s)
        BY <2>7, <3>1, <4>1, NeighbourLemma
      <4>3. QED BY <4>2, SingleLemma
    <3>4. x \in nodes
      BY DEF Children
    <3>5. FirstSong(x) \in Songs
      BY <3>4, DownLemma
    <3>6. QED BY <2>7, <3>2, <3>3, <3>5, SingleLemma DEF Pointers
  <2>8. QED BY <2>5, <2>6, <2>7
<1>4. QED BY <1>2, <1>3

(* The songs found in order.                                               *)
LEMMA FindFinds ==
  ASSUME Tree, song \in Pointers, NEW dir \in Directions, NEW disc \in Discs,
         NEW r \in FindInOrder(dir, disc)
  PROVE  r.song \in Pointers
<1>1. dir \in {"NEXT", "PREVIOUS", "RANDOM"}
  BY DEF Directions
<1>2. \A q \in next_song(song, dir, disc) : q.song \in Pointers
  BY <1>1, NextSongFinds
<1>3. ASSUME NEW found, \A q \in found : q.song \in Pointers, NEW level \in Discs
      PROVE  \A q \in ThenLevel(found, dir, level) : q.song \in Pointers
  <2>1. SUFFICES ASSUME NEW q \in ThenLevel(found, dir, level) PROVE q.song \in Pointers
    OBVIOUS
  <2>2. PICK f \in found :
          q \in IF f.status = "END_OF_LIST" THEN next_song(f.song, dir, level) ELSE {f}
    BY <2>1 DEF ThenLevel
  <2>3. CASE f.status = "END_OF_LIST"
    <3>1. f.song \in Pointers /\ q \in next_song(f.song, dir, level)
      BY <1>3, <2>2, <2>3
    <3>2. QED BY <1>1, <3>1, NextSongFinds
  <2>4. CASE f.status # "END_OF_LIST"
    BY <1>3, <2>2, <2>4
  <2>5. QED BY <2>3, <2>4
<1>4. "ALBUM" \in Discs /\ "ARTIST" \in Discs /\ disc \in {"SONG", "ALBUM", "ARTIST"}
  BY DEF Discs, Level
<1>5. PICK first : first = next_song(song, dir, disc)
  OBVIOUS
<1>6. CASE disc = "SONG"
  <2>1. \A q \in ThenLevel(first, dir, "ALBUM") : q.song \in Pointers
    BY <1>2, <1>3, <1>4, <1>5
  <2>2. \A q \in ThenLevel(ThenLevel(first, dir, "ALBUM"), dir, "ARTIST") : q.song \in Pointers
    BY <1>3, <1>4, <2>1
  <2>3. r \in ThenLevel(ThenLevel(first, dir, "ALBUM"), dir, "ARTIST")
    BY <1>5, <1>6 DEF FindInOrder
  <2>4. QED BY <2>2, <2>3
<1>7. CASE disc = "ALBUM"
  <2>1. \A q \in ThenLevel(first, dir, "ARTIST") : q.song \in Pointers
    BY <1>2, <1>3, <1>4, <1>5
  <2>2. r \in ThenLevel(first, dir, "ARTIST")
    BY <1>5, <1>7 DEF FindInOrder
  <2>3. QED BY <2>1, <2>2
<1>8. CASE disc = "ARTIST"
  BY <1>2, <1>8 DEF FindInOrder
<1>9. QED BY <1>4, <1>6, <1>7, <1>8

(* What queued_next_song finds, and what becomes of the songs remembered.  *)
LEMMA QueuedLemma ==
  ASSUME Tree, song \in Pointers, queued \in Ring(Pointers),
         NEW dir \in Directions, NEW disc \in Discs, NEW r \in queued_next_song(song, dir, disc),
         NEW e, e = Elements(queued), NEW f, f = Elements(r.queue)
  PROVE  /\ r.song \in Pointers /\ r.queue \in Ring(Pointers)
         /\ \/ r.song \in Songs /\ f = H!Remember(Append(e, r.song))
            \/ Len(e) > 1 /\ f = SubSeq(e, 1, Len(e) - 1) /\ r.song = f[Len(f)]
            \/ Len(e) = 1 /\ r.song \in Songs /\ f = <<r.song>>
            \/ Len(e) = 1 /\ r.song = None /\ f = <<>>
            \/ f = e
<1>0. None \in Pointers /\ Songs \subseteq Pointers
  BY DEF Pointers
<1>1. PICK popped : popped = IF dir = "PREVIOUS" THEN cb_pop(queued, None) ELSE queued
  OBVIOUS
<1>2. popped \in Ring(Pointers)
  BY <1>0, <1>1, PopLemma
<1>3. CASE dir = "PREVIOUS" /\ queued.head # 0 /\ popped.head # 0
  <2>1. r = [song |-> cb_peek_tail(popped, None), queue |-> popped]
    BY <1>1, <1>3 DEF queued_next_song
  <2>2. queued.head # queued.tail
    <3>1. SUFFICES ASSUME queued.head = queued.tail PROVE FALSE
      OBVIOUS
    <3>2. popped = cb_clear_list(queued, None)
      BY <1>0, <1>1, <1>3, <3>1, PopLemma
    <3>3. QED BY <1>0, <1>3, <3>2, ClearLemma
  <2>3. /\ Len(e) > 1 /\ Elements(popped) = SubSeq(e, 1, Len(e) - 1)
        /\ cb_peek_tail(popped, None) = Elements(popped)[Len(Elements(popped))]
    BY <1>0, <1>1, <1>3, <2>2, PopLemma
  <2>4. cb_peek_tail(popped, None) \in Pointers
    <3>1. /\ popped.data \in [1..QueuedMax -> Pointers]
          /\ popped.tail \in Nat /\ popped.tail <= QueuedMax
      BY <1>2 DEF Ring
    <3>2. CASE popped.tail = 0
      BY <1>0, <3>2 DEF cb_peek_tail
    <3>3. CASE popped.tail # 0
      <4>1. popped.tail \in 1..QueuedMax
        BY <3>1, <3>3, DatabaseAssumption
      <4>2. QED BY <3>1, <3>3, <4>1 DEF cb_peek_tail
    <3>4. QED BY <3>2, <3>3
  <2>5. QED BY <1>2, <2>1, <2>3, <2>4
<1>4. CASE ~(dir = "PREVIOUS" /\ queued.head # 0 /\ popped.head # 0)
  <2>1. PICK q \in next_song(song, "RANDOM", disc) :
          r = [song |-> q.song,
               queue |-> IF q.status = "SUCCESS" THEN cb_push(popped, q.song) ELSE popped]
    BY <1>1, <1>4 DEF queued_next_song
  <2>2. \/ q.status = "SUCCESS" /\ q.song \in Songs
        \/ q.status = "FAILURE" /\ q.song = None
    BY NextSongFinds
  <2>a. Elements(popped) = e \/ (Elements(popped) = <<>> /\ Len(e) = 1)
    <3>1. CASE dir # "PREVIOUS"
      BY <1>1, <3>1
    <3>2. CASE dir = "PREVIOUS" /\ queued.head = 0
      <4>1. queued.tail = 0
        BY <3>2 DEF Ring
      <4>2. popped = cb_clear_list(queued, None)
        BY <1>0, <1>1, <3>2, <4>1, PopLemma
      <4>3. Elements(popped) = <<>>
        BY <1>0, <4>2, ClearLemma
      <4>4. QED BY <4>1, <4>3, ElementsLemma
    <3>3. CASE dir = "PREVIOUS" /\ queued.head # 0 /\ popped.head = 0
      <4>1. queued.head = queued.tail
        BY <1>0, <1>1, <3>3, PopLemma
      <4>2. popped = cb_clear_list(queued, None) /\ Len(e) = 1
        BY <1>0, <1>1, <3>3, <4>1, PopLemma
      <4>3. QED BY <1>0, <4>2, ClearLemma
    <3>4. QED BY <1>4, <3>1, <3>2, <3>3
  <2>3. CASE q.status = "SUCCESS" /\ q.song \in Songs
    <3>1. r.song = q.song /\ r.queue = cb_push(popped, q.song)
      BY <2>1, <2>3
    <3>2. r.queue \in Ring(Pointers) /\ f = H!Remember(Append(Elements(popped), r.song))
      BY <1>0, <1>2, <2>3, <3>1, PushLemma
    <3>3. CASE Elements(popped) = e
      BY <1>0, <2>3, <3>1, <3>2, <3>3
    <3>4. CASE Elements(popped) = <<>> /\ Len(e) = 1
      <4>1. Append(<<>>, r.song) = <<r.song>> /\ Len(<<r.song>>) = 1
        OBVIOUS
      <4>2. f = <<r.song>>
        BY <3>2, <3>4, <4>1, DatabaseAssumption DEF H!Remember
      <4>3. QED BY <1>0, <2>3, <3>1, <3>2, <3>4, <4>2
    <3>6. QED BY <2>a, <3>3, <3>4
  <2>4. CASE q.status = "FAILURE" /\ q.song = None
    <3>1. r.song = None /\ r.queue = popped /\ r.queue \in Ring(Pointers)
      BY <1>2, <2>1, <2>4
    <3>2. QED BY <1>0, <2>a, <3>1
  <2>5. QED BY <2>2, <2>3, <2>4
<1>5. QED BY <1>3, <1>4

-----------------------------------------------------------------------------
(* The steps.                                                              *)

(* A larger set of values has the rings of a smaller one.                  *)
LEMMA RingMonotone ==
  ASSUME NEW V, NEW W, V \subseteq W, NEW cb \in Ring(V)
  PROVE  cb \in Ring(W)
<1>1. cb.data \in [1 .. QueuedMax -> W]
  BY DEF Ring
<1>2. QED BY <1>1 DEF Ring

(* A song that was added has its artist and its album in the tree.         *)
LEMMA AddLemma ==
  ASSUME Tree, NEW f \in Files, nodes' = nodes \cup Missing(f)
  PROVE  Tree' /\ Songs \subseteq Songs'
<1> DEFINE added == {<<f[1]>>, <<f[1], f[2]>>, f}
<1>1. /\ SubSeq(f, 1, 1) = <<f[1]>> /\ SubSeq(f, 1, 2) = <<f[1], f[2]>>
      /\ SubSeq(f, 1, 3) = f /\ Len(f) = 3
  BY FileLemma
<1>2. Len(<<f[1]>>) = 1 /\ Len(<<f[1], f[2]>>) = 2
  OBVIOUS
<1>3. {SubSeq(f, 1, i) : i \in 1 .. 3} = added
  <2>1. \A i \in 1 .. 3 : i = 1 \/ i = 2 \/ i = 3
    OBVIOUS
  <2>2. 1 \in 1 .. 3 /\ 2 \in 1 .. 3 /\ 3 \in 1 .. 3
    OBVIOUS
  <2>3. QED BY <1>1, <2>1, <2>2
<1>4. nodes' = nodes \cup added
  BY <1>3 DEF Missing
<1>5. Songs' = Songs \cup {f}
  BY <1>1, <1>2, <1>4 DEF Songs
<1>6. IsFiniteSet(nodes')
  <2>1. IsFiniteSet(nodes)
    BY DEF Tree
  <2>2. IsFiniteSet(nodes \cup {<<f[1]>>})
    BY <2>1, FS_AddElement
  <2>3. IsFiniteSet((nodes \cup {<<f[1]>>}) \cup {<<f[1], f[2]>>})
    BY <2>2, FS_AddElement
  <2>4. IsFiniteSet(((nodes \cup {<<f[1]>>}) \cup {<<f[1], f[2]>>}) \cup {f})
    BY <2>3, FS_AddElement
  <2>5. nodes' = ((nodes \cup {<<f[1]>>}) \cup {<<f[1], f[2]>>}) \cup {f}
    BY <1>4
  <2>6. QED BY <2>4, <2>5
<1>7. Songs \subseteq Files /\ nodes = {SubSeq(s, 1, i) : s \in Songs, i \in 1 .. 3}
  BY DEF Tree
<1>8. nodes' = {SubSeq(s, 1, i) : s \in Songs', i \in 1 .. 3}
  <2>1. {SubSeq(s, 1, i) : s \in Songs \cup {f}, i \in 1 .. 3}
          = {SubSeq(s, 1, i) : s \in Songs, i \in 1 .. 3} \cup {SubSeq(f, 1, i) : i \in 1 .. 3}
    OBVIOUS
  <2>2. QED BY <1>3, <1>4, <1>5, <1>7, <2>1
<1>9. Songs' \subseteq Files
  BY <1>5, <1>7
<1>10. Tree'
  BY <1>6, <1>8, <1>9 DEF Tree
<1>11. QED BY <1>5, <1>10

(* A purge leaves neither a node nor a pointer.                            *)
LEMMA PurgeLemma ==
  ASSUME DInv, Purged
  PROVE  /\ Tree' /\ queued' \in Ring(Pointers')
         /\ Elements(queued') = <<>> /\ song' \in {None, Freed}
<1>1. /\ nodes' = {} /\ queued' = cb_clear_list(queued, None)
      /\ song' \in {None, Freed}
  BY DEF Purged, Orphan
<1>2. Songs' = {} /\ None \in Pointers /\ Pointers' = {None}
  BY <1>1 DEF Songs, Pointers
<1>3. queued \in Ring(Pointers)
  BY DEF DInv
<1>4. queued' = cb_create_list(QueuedMax, None) /\ Elements(queued') = <<>>
  BY <1>1, <1>2, <1>3, ClearLemma
<1>5. queued' \in Ring({None})
  BY <1>4, DatabaseAssumption DEF cb_create_list, Ring
<1>6. IsFiniteSet({})
  BY FS_EmptySet
<1>7. Tree'
  BY <1>1, <1>2, <1>6 DEF Tree
<1>8. QED BY <1>1, <1>2, <1>4, <1>5, <1>7

(* What a step can do to the tree, the song and the songs remembered.      *)
LEMMA StepLemma ==
  ASSUME DInv, Next
  PROVE  /\ dbase' \in {"purged", "adding", "ready", "crashed"} /\ random' \in BOOLEAN
         /\ \/ Purged
            \/ Tree' /\ Songs \subseteq Songs' /\ UNCHANGED <<song, queued>>
            \/ UNCHANGED nodes /\ song' \in Pointers /\ UNCHANGED queued
            \/ /\ UNCHANGED nodes /\ song \in Pointers
               /\ \E dir \in Directions : \E disc \in Discs : AtRandom(dir, disc)
<1>1. /\ dbase \in {"purged", "adding", "ready", "crashed"} /\ random \in BOOLEAN
      /\ Tree /\ song \in Pointers \cup {Freed} /\ None \in Pointers
  BY DEF DInv, SongInv, Pointers
<1>a. ASSUME UNCHANGED nodes PROVE Tree' /\ Songs \subseteq Songs'
  BY <1>1, <1>a DEF Tree, Songs
<1>2. CASE Populate
  BY <1>1, <1>2 DEF Populate
<1>3. CASE AddSong
  <2>1. PICK f \in Files : nodes' = nodes \cup Missing(f) \/ nodes' = nodes
    BY <1>3 DEF AddSong, LeftAfter
  <2>2. UNCHANGED <<dbase, song, queued, random>>
    BY <1>3 DEF AddSong, links
  <2>3. CASE nodes' = nodes \cup Missing(f)
    BY <1>1, <2>2, <2>3, AddLemma
  <2>4. CASE nodes' = nodes
    BY <1>1, <1>a, <2>2, <2>4
  <2>5. QED BY <2>1, <2>3, <2>4
<1>4. CASE AddSongCrash
  BY <1>1, <1>a, <1>4 DEF AddSongCrash
<1>5. CASE Populated
  BY <1>1, <1>a, <1>5 DEF Populated
<1>6. CASE Purge
  BY <1>1, <1>6 DEF Purge
<1>7. ASSUME Browsing
      PROVE  /\ dbase' \in {"ready", "adding"} /\ random' \in BOOLEAN /\ UNCHANGED nodes
             /\ song \in Pointers
  BY <1>1, <1>7 DEF Browsing
<1>8. ASSUME NEW dir \in Directions, NEW disc \in Discs, InOrder(dir, disc), song \in Pointers
      PROVE  song' \in Pointers /\ UNCHANGED queued
  <2>1. PICK r \in FindInOrder(dir, disc) : song' = r.song
    BY <1>8 DEF InOrder
  <2>2. r.song \in Pointers
    BY <1>1, <1>8, FindFinds
  <2>3. QED BY <1>8, <2>1, <2>2 DEF InOrder
<1>9. CASE \E dir \in Directions, disc \in Discs : Seek(dir, disc)
  <2>1. PICK dir \in Directions, disc \in Discs : Seek(dir, disc)
    BY <1>9
  <2>2. Browsing /\ (AtRandom(dir, disc) \/ InOrder(dir, disc))
    BY <1>1, <2>1 DEF Seek
  <2>3. QED BY <1>7, <1>8, <2>2
<1>10. CASE \E dir \in Directions : FastPlay(dir)
  <2>1. PICK dir \in Directions : Browsing /\ InOrder(dir, "SONG")
    BY <1>10 DEF FastPlay
  <2>2. "SONG" \in Discs
    BY DEF Discs, Level
  <2>3. QED BY <1>7, <1>8, <2>1, <2>2
<1>11. CASE Play
  <2>1. Browsing /\ UNCHANGED queued
    BY <1>11 DEF Play
  <2>2. PICK dir \in {"NEXT", "RANDOM"}, level \in {"SONG", "ARTIST"} :
          song' \in {r.song : r \in next_song(None, dir, level)}
    BY <1>11 DEF Play
  <2>3. PICK r \in next_song(None, dir, level) : song' = r.song
    BY <2>2
  <2>4. None \in Pointers /\ level \in Discs /\ dir \in {"NEXT", "PREVIOUS", "RANDOM"}
    BY DEF Pointers, Discs, Level
  <2>5. r.song \in Pointers
    BY <1>1, <2>4, NextSongFinds
  <2>6. QED BY <1>7, <2>1, <2>3, <2>5
<1>12. CASE SetRandom
  BY <1>1, <1>a, <1>12 DEF SetRandom, tree
<1>13. CASE Astray
  BY <1>1, <1>a, <1>13 DEF Astray
<1>14. CASE CommandLoopEnds
  BY <1>1, <1>14 DEF CommandLoopEnds, Goto, tree
<1>15. CASE \/ Ask("main", "populate", "populating") \/ Ask("purge", "purge", "purging")
            \/ PopulatingLoop \/ Drop
  <2>1. UNCHANGED <<tree, song, random>>
    BY <1>15 DEF Ask, PopulatingLoop, Drop, Goto
  <2>2. QED BY <1>1, <1>a, <2>1 DEF tree
<1>16. QED BY <1>2, <1>3, <1>4, <1>5, <1>6, <1>9, <1>10, <1>11, <1>12, <1>13, <1>14, <1>15
           DEF Next

(* The answers that are left when one was taken.                           *)
LEMMA ReceivedLemma ==
  ASSUME LinksInv, NEW a, Received(a)
  PROVE  /\ answers' \in Seq(Answers) /\ a = answers[1] /\ Len(answers) \in Nat \ {0}
         /\ Len(answers') = Len(answers) - 1
         /\ \A i \in 1 .. Len(answers') : answers'[i] = answers[i + 1]
BY DEF LinksInv, Received

(* No answer to a purge is under way outside the loop that waits for it.   *)
LEMMA NoPurged ==
  ASSUME LinksInv, asked # "none" \/ blu # "purging"
  PROVE  \A i \in 1 .. Len(answers) : answers[i] # "PURGED"
BY DEF LinksInv

(* An answer of the database task.                                         *)
LEMMA AnswerLemma ==
  ASSUME DInv, NEW a \in Answers, Answer(a), asked # "none", UNCHANGED blu,
         a = "PURGED" => blu = "purging", dbase' # "adding"
  PROVE  LinksInv' /\ AnswerDue'
<1>1. \A i \in 1 .. Len(answers) : answers[i] # "PURGED"
  BY NoPurged DEF DInv
<1>2. answers \in Seq(Answers) /\ answers' = Append(answers, a) /\ asked' = "none"
  BY DEF Answer, DInv, LinksInv
<1>3. /\ answers' \in Seq(Answers) /\ Len(answers') = Len(answers) + 1
      /\ answers'[Len(answers')] = a
      /\ \A i \in 1 .. Len(answers) : answers'[i] = answers[i]
  BY <1>2
<1>4. \A i \in 1 .. Len(answers') :
        answers'[i] = "PURGED" => i = Len(answers') /\ blu = "purging"
  BY <1>1, <1>2, <1>3
<1>5. AnswerDue'
  BY <1>2, <1>3 DEF AnswerDue
<1>6. QED BY <1>2, <1>3, <1>4, <1>5 DEF LinksInv, DInv

(* Every step keeps what is said of requests, answers and the loops, and   *)
(* frees the selected song only while an answer is due.                    *)
LEMMA LinksStep ==
  ASSUME DInv, Next
  PROVE  /\ LinksInv'
         /\ blu' # "commands" => song' = None
         /\ song' = Freed => AnswerDue'
<1>0. LinksInv /\ SongInv /\ Tree /\ None # Freed
  BY DatabaseAssumption DEF DInv
<1>1. CASE Populate
  <2>1. UNCHANGED <<asked, answers, blu>> /\ song' = Orphan /\ asked = "populate"
    BY <1>1 DEF Populate, Purged, links
  <2>2. LinksInv'
    BY <1>0, <2>1 DEF LinksInv
  <2>3. AnswerDue'
    BY <2>1 DEF AnswerDue
  <2>4. blu' # "commands" => song' = None
    BY <1>0, <2>1 DEF Orphan, SongInv
  <2>5. QED BY <2>2, <2>3, <2>4
<1>2. CASE AddSong \/ AddSongCrash \/ SetRandom \/ Astray
  <2>1. UNCHANGED <<asked, answers, blu, song>> /\ (dbase' = "adding" => dbase = "adding")
    BY <1>2 DEF AddSong, AddSongCrash, SetRandom, Astray, links, tree
  <2>2. QED BY <1>0, <2>1 DEF LinksInv, SongInv, AnswerDue
<1>3. CASE Populated
  <2>1. PICK a \in {"POPULATED", "UNPOPULATED"} : Answer(a)
    BY <1>3 DEF Populated
  <2>2. /\ UNCHANGED blu /\ dbase' # "adding" /\ asked # "none"
        /\ song' = song \/ song' = Orphan
    BY <1>0, <1>3 DEF Populated, Purged, LinksInv
  <2>3. LinksInv' /\ AnswerDue'
    BY <2>1, <2>2, AnswerLemma DEF Answers
  <2>4. QED BY <1>0, <2>2, <2>3 DEF Orphan, SongInv
<1>4. CASE Purge
  <2>1. /\ Answer("PURGED") /\ UNCHANGED blu /\ dbase' # "adding" /\ asked # "none"
        /\ blu = "purging" /\ song' = Orphan
    BY <1>0, <1>4 DEF Purge, Purged, LinksInv
  <2>2. LinksInv' /\ AnswerDue'
    BY <2>1, AnswerLemma DEF Answers
  <2>3. QED BY <1>0, <2>1, <2>2 DEF Orphan, SongInv
<1>5. CASE Ask("main", "populate", "populating") \/ Ask("purge", "purge", "purging")
  <2>1. PICK r \in {"populate", "purge"} :
          IF r = "populate" THEN Ask("main", r, "populating") ELSE Ask("purge", r, "purging")
    BY <1>5
  <2>2. /\ UNCHANGED <<answers, song, dbase>> /\ asked = "none" /\ asked' = r
        /\ blu \in {"main", "purge"}
        /\ blu' = IF r = "populate" THEN "populating" ELSE "purging"
    BY <2>1 DEF Ask, Goto, tree
  <2>3. \A i \in 1 .. Len(answers) : answers[i] # "PURGED"
    BY <1>0, <2>2, NoPurged
  <2>4. LinksInv'
    BY <1>0, <2>2, <2>3 DEF LinksInv
  <2>5. song' = None
    BY <1>0, <2>2 DEF SongInv
  <2>6. QED BY <1>0, <2>4, <2>5
<1>6. CASE PopulatingLoop \/ CommandLoopEnds
  <2>1. /\ UNCHANGED <<asked, dbase>> /\ blu \in {"populating", "commands"}
        /\ blu' \in {"main", "commands", "purge"}
        /\ UNCHANGED answers \/ \E a \in Answers : Received(a)
    BY <1>6 DEF PopulatingLoop, CommandLoopEnds, Goto, tree, Answers
  <2>2. \A i \in 1 .. Len(answers) : answers[i] # "PURGED"
    BY <1>0, <2>1, NoPurged
  <2>3. answers' \in Seq(Answers) /\ \A i \in 1 .. Len(answers') : answers'[i] # "PURGED"
    <3>1. CASE UNCHANGED answers
      BY <1>0, <2>2, <3>1 DEF LinksInv
    <3>2. CASE \E a \in Answers : Received(a)
      <4>1. PICK a \in Answers : Received(a)
        BY <3>2
      <4>2. /\ answers' \in Seq(Answers) /\ Len(answers) \in Nat \ {0}
            /\ Len(answers') = Len(answers) - 1
            /\ \A i \in 1 .. Len(answers') : answers'[i] = answers[i + 1]
        BY <1>0, <4>1, ReceivedLemma
      <4>3. QED BY <2>2, <4>2
    <3>3. QED BY <2>1, <3>1, <3>2
  <2>4. LinksInv'
    BY <1>0, <2>1, <2>3 DEF LinksInv
  <2>5. song' = None
    BY <1>0, <1>6 DEF SongInv, PopulatingLoop, CommandLoopEnds
  <2>6. QED BY <1>0, <2>4, <2>5
<1>7. CASE Drop
  <2>1. PICK a \in Answers : Received(a) /\ Goto(IF a = "PURGED" THEN "main" ELSE blu)
    BY <1>7 DEF Drop
  <2>2. /\ UNCHANGED <<asked, song, dbase>> /\ blu \in {"main", "purging"}
        /\ blu' = IF a = "PURGED" THEN "main" ELSE blu
    BY <1>7, <2>1 DEF Drop, Goto, tree
  <2>3. /\ answers' \in Seq(Answers) /\ a = answers[1] /\ Len(answers) \in Nat \ {0}
        /\ Len(answers') = Len(answers) - 1
        /\ \A i \in 1 .. Len(answers') : answers'[i] = answers[i + 1]
    BY <1>0, <2>1, ReceivedLemma
  <2>4. song' = None
    BY <1>0, <2>2 DEF SongInv
  <2>5. CASE a = "PURGED"
    <3>1. Len(answers) = 1 /\ asked = "none" /\ blu = "purging"
      <4>1. 1 \in 1 .. Len(answers) /\ answers[1] = "PURGED"
        BY <2>3, <2>5
      <4>2. QED BY <1>0, <4>1 DEF LinksInv
    <3>2. LinksInv'
      <4>1. Len(answers') = 0 /\ blu' = "main"
        BY <2>2, <2>3, <2>5, <3>1
      <4>2. \A i \in 1 .. Len(answers') : FALSE
        BY <4>1
      <4>3. QED BY <1>0, <2>2, <2>3, <3>1, <4>1, <4>2 DEF LinksInv
    <3>3. QED BY <1>0, <2>4, <3>2
  <2>6. CASE a # "PURGED"
    <3>1. \A i \in 1 .. Len(answers') :
            answers'[i] = "PURGED" => i = Len(answers') /\ asked = "none" /\ blu = "purging"
      BY <1>0, <2>3 DEF LinksInv
    <3>2. LinksInv'
      BY <1>0, <2>2, <2>3, <2>6, <3>1 DEF LinksInv
    <3>3. QED BY <1>0, <2>4, <3>2
  <2>7. QED BY <2>5, <2>6
<1>8. CASE \/ \E dir \in Directions, disc \in Discs : Seek(dir, disc)
           \/ \E dir \in Directions : FastPlay(dir)
           \/ Play
  <2>1. Browsing
    BY <1>8 DEF Seek, FastPlay, Play
  <2>2. UNCHANGED <<asked, answers, blu, dbase>> /\ blu = "commands"
    BY <2>1 DEF Browsing, links
  <2>3. LinksInv'
    BY <1>0, <2>2 DEF LinksInv
  <2>4. song' = Freed => AnswerDue'
    <3>1. SUFFICES song' # Freed
      OBVIOUS
    <3>2. song \in Pointers /\ Freed \notin Pointers /\ None \in Pointers
      BY <1>0, <2>1, NoneLemma DEF SongInv, Browsing, Pointers
    <3>3. song' \in Pointers
      <4>1. ASSUME NEW dir \in Directions, NEW disc \in Discs, InOrder(dir, disc)
            PROVE  song' \in Pointers
        BY <1>0, <3>2, <4>1, FindFinds DEF InOrder
      <4>2. ASSUME NEW dir \in Directions, NEW disc \in Discs, AtRandom(dir, disc)
            PROVE  song' \in Pointers
        <5>1. PICK r \in queued_next_song(song, dir, disc) : song' = r.song
          BY <4>2 DEF AtRandom
        <5>2. queued \in Ring(Pointers)
          BY DEF DInv
        <5>3. r.song \in Pointers
          BY <1>0, <3>2, <5>2, QueuedLemma
        <5>4. QED BY <5>1, <5>3
      <4>3. ASSUME Play PROVE song' \in Pointers
        <5>1. PICK dir \in {"NEXT", "RANDOM"}, level \in {"SONG", "ARTIST"} :
                song' \in {r.song : r \in next_song(None, dir, level)}
          BY <4>3 DEF Play
        <5>2. PICK r \in next_song(None, dir, level) : song' = r.song
          BY <5>1
        <5>3. level \in Discs /\ dir \in {"NEXT", "PREVIOUS", "RANDOM"}
          BY DEF Discs, Level
        <5>4. QED BY <1>0, <3>2, <5>2, <5>3, NextSongFinds
      <4>4. "SONG" \in Discs
        BY DEF Discs, Level
      <4>5. QED BY <1>8, <4>1, <4>2, <4>3, <4>4 DEF Seek, FastPlay
    <3>4. QED BY <3>2, <3>3
  <2>5. QED BY <2>2, <2>3, <2>4
<1>9. QED BY <1>1, <1>2, <1>3, <1>4, <1>5, <1>6, <1>7, <1>8 DEF Next

(* The invariant holds at the start.                                       *)
LEMMA DInit == Init => DInv
<1> SUFFICES ASSUME Init PROVE DInv
  OBVIOUS
<1>1. nodes = {} /\ song = None /\ queued = cb_create_list(QueuedMax, None)
  BY DEF Init
<1>2. Songs = {} /\ Pointers = {None}
  BY <1>1 DEF Songs, Pointers
<1>3. queued \in Ring(Pointers)
  BY <1>1, <1>2, DatabaseAssumption DEF cb_create_list, Ring
<1>4. IsFiniteSet({})
  BY FS_EmptySet
<1>5. Tree
  BY <1>1, <1>2, <1>4 DEF Tree
<1>6. LinksInv /\ SongInv
  <2>1. <<>> \in Seq(Answers) /\ Len(<<>>) = 0
    OBVIOUS
  <2>2. LinksInv
    BY <2>1 DEF Init, LinksInv
  <2>3. None # Freed /\ None \in Pointers
    BY <1>2, DatabaseAssumption
  <2>4. QED BY <1>1, <2>2, <2>3 DEF SongInv
<1>7. QED BY <1>3, <1>5, <1>6 DEF Init, DInv

(* Every step keeps it.                                                    *)
LEMMA DNext == DInv /\ [Next]_vars => DInv'
<1> SUFFICES ASSUME DInv, [Next]_vars PROVE DInv'
  OBVIOUS
<1>1. Tree /\ song \in Pointers \cup {Freed} /\ queued \in Ring(Pointers)
  BY DEF DInv, SongInv
<1>2. CASE UNCHANGED vars
  <2>1. LinksInv'
    BY <1>2 DEF DInv, LinksInv, vars, tree, links
  <2>2. SongInv'
    BY <1>2 DEF DInv, SongInv, AnswerDue, Pointers, Songs, vars, tree, links
  <2>3. Tree' /\ Pointers' = Pointers
    BY <1>2 DEF DInv, Tree, Songs, Pointers, vars, tree
  <2>4. QED BY <1>2, <2>1, <2>2, <2>3 DEF DInv, vars, tree
<1>3. CASE Next
  <2>1. SUFFICES Tree' /\ song' \in Pointers' \cup {Freed} /\ queued' \in Ring(Pointers')
    <3>1. LinksInv' /\ (blu' # "commands" => song' = None) /\ (song' = Freed => AnswerDue')
      BY <1>3, LinksStep
    <3>2. dbase' \in {"purged", "adding", "ready", "crashed"} /\ random' \in BOOLEAN
      BY <1>3, StepLemma
    <3>3. QED BY <3>1, <3>2 DEF DInv, SongInv
  <2>2. CASE Purged
    BY <2>2, PurgeLemma DEF Pointers
  <2>3. CASE Tree' /\ Songs \subseteq Songs' /\ UNCHANGED <<song, queued>>
    <3>1. Pointers \subseteq Pointers'
      BY <2>3 DEF Pointers
    <3>2. QED BY <1>1, <2>3, <3>1, RingMonotone
  <2>4. ASSUME UNCHANGED nodes PROVE Tree' /\ Pointers' = Pointers
    BY <1>1, <2>4 DEF Tree, Songs, Pointers
  <2>5. CASE UNCHANGED nodes /\ song' \in Pointers /\ UNCHANGED queued
    BY <1>1, <2>4, <2>5
  <2>6. CASE /\ UNCHANGED nodes /\ song \in Pointers
             /\ \E dir \in Directions : \E disc \in Discs : AtRandom(dir, disc)
    <3>1. PICK dir \in Directions : \E disc \in Discs : AtRandom(dir, disc)
      BY <2>6
    <3>2. PICK disc \in Discs : AtRandom(dir, disc)
      BY <3>1
    <3>3. PICK r \in queued_next_song(song, dir, disc) : song' = r.song /\ queued' = r.queue
      BY <3>2 DEF AtRandom
    <3>4. r.song \in Pointers /\ r.queue \in Ring(Pointers)
      BY <1>1, <2>6, QueuedLemma
    <3>5. QED BY <2>4, <2>6, <3>3, <3>4
  <2>7. QED BY <1>3, <2>2, <2>3, <2>5, <2>6, StepLemma
<1>4. QED BY <1>2, <1>3

(* The invariant of every behaviour.                                       *)
LEMMA DSafe == Spec => []DInv
BY DInit, DNext, PTL DEF Spec

(* What the invariant says of the pointers.                                *)
LEMMA PointersLemma ==
  ASSUME DInv
  PROVE  /\ NoneDangling
         /\ queued.data \in [1 .. QueuedMax -> Pointers]
         /\ queued.head \in 0 .. QueuedMax /\ queued.tail \in 0 .. QueuedMax
<1>1. /\ queued.data \in [1 .. QueuedMax -> Pointers]
      /\ queued.head \in 0 .. QueuedMax /\ queued.tail \in 0 .. QueuedMax
  BY DEF DInv, Ring
<1>2. None \in Pointers
  BY DEF Pointers
<1>3. cb_peek_tail(queued, None) \in Pointers
  <2>1. CASE queued.tail = 0
    BY <1>2, <2>1 DEF cb_peek_tail
  <2>2. CASE queued.tail # 0
    <3>1. queued.tail \in 1 .. QueuedMax
      BY <1>1, <2>2, DatabaseAssumption
    <3>2. QED BY <1>1, <2>2, <3>1 DEF cb_peek_tail
  <2>3. QED BY <2>1, <2>2
<1>4. song \in Pointers \/ (blu = "commands" /\ AnswerDue)
  BY <1>2 DEF DInv, SongInv
<1>5. NoneDangling
  BY <1>1, <1>3, <1>4 DEF NoneDangling, Pointers
<1>6. QED BY <1>1, <1>5

(* Whatever files the card has, and wherever memory ran out while they     *)
(* were added, every artist has an album and every album a song            *)
(* (add_song.c), so that next_song always gets to a song.                  *)
THEOREM NodesLeadToSongs == Spec => []SongsInTree
<1>1. ASSUME DInv PROVE SongsInTree
  <2>1. Tree /\ Songs \subseteq Files
    BY <1>1 DEF DInv, Tree
  <2>2. queued.data \in [1 .. QueuedMax -> Files \cup {None}]
    <3>1. Pointers \subseteq Files \cup {None}
      BY <2>1 DEF Pointers
    <3>2. QED BY <1>1, <3>1, PointersLemma
  <2>3. TypeOK
    <3>1. song \in Files \cup {None, Freed}
      BY <1>1, <2>1 DEF DInv, SongInv, Pointers
    <3>2. QED BY <1>1, <2>2, <3>1, PointersLemma DEF DInv, LinksInv, TypeOK
  <2>4. \A n \in nodes : Parent(n) \in nodes \cup {<<>>} /\ (Len(n) < 3 => Children(n) # {})
    BY <2>1, DownLemma
  <2>5. QED BY <2>3, <2>4 DEF SongsInTree
<1>2. QED BY <1>1, DSafe, PTL

(* No song that is remembered outlives the tree it is in, across any fills *)
(* and purges; nor does the one the command loop has selected, except      *)
(* while an answer that will end the loop is due (database_purge.c,        *)
(* radio-interface.c).                                                     *)
THEOREM PointersLive == Spec => []NoneDangling
<1>1. DInv => NoneDangling
  BY PointersLemma
<1>2. QED BY <1>1, DSafe, PTL

(* On any card next goes to the next song of the album, to the first song  *)
(* of the next album, or to that of the next artist, and from the last     *)
(* song of the card to the first (next_song.c, ui-t.c).                    *)
THEOREM NextGoesOn == Spec => NextIsSuccessor
<1>1. ASSUME DInv, song # None, ~random, Seek("NEXT", "SONG")
      PROVE  song' = Successor(song)
  <2>1. Tree /\ song \in Songs /\ None \notin Songs
    BY <1>1, NoneLemma DEF DInv, SongInv, Pointers, Seek, Browsing
  <2>2. song' \in {r.song : r \in FindInOrder("NEXT", "SONG")}
    BY <1>1 DEF Seek, InOrder
  <2>3. QED BY <2>1, <2>2, SuccessorFound
<1>2. DInv /\ [Next]_vars =>
        [song # None /\ ~random /\ Seek("NEXT", "SONG") => song' = Successor(song)]_vars
  BY <1>1
<1>3. QED BY <1>2, DSafe, PTL DEF Spec, NextIsSuccessor

(* Going back among the songs picked at random leads through the last      *)
(* QueuedMax of them, newest first, whatever is played in order in between *)
(* (queued_next_song.c, circular-buffer.c).                                *)
THEOREM HistoryKept == Spec => KeepsHistory
<1>1. Init => H!Init
  <2>1. ASSUME Init PROVE song = None /\ queued.tail = 0
    BY <2>1 DEF Init, cb_create_list
  <2>2. QED BY <2>1 DEF H!Init, Elements
<1>2. ASSUME DInv, [Next]_vars PROVE [H!Next]_(H!vars)
  <2>1. Tree /\ queued \in Ring(Pointers) /\ Songs \subseteq Files /\ Freed \notin Pointers
    BY <1>2, NoneLemma DEF DInv, Tree
  <2>2. CASE UNCHANGED vars
    <3>1. UNCHANGED <<song, queued>>
      BY <2>2 DEF vars, tree
    <3>2. QED BY <3>1 DEF H!vars, Elements, Size
  <2>3. CASE Next
    <3>1. CASE Purged
      BY <1>2, <3>1, PurgeLemma DEF H!Next, H!Forget
    <3>2. CASE UNCHANGED <<song, queued>>
      BY <3>2 DEF H!vars, Elements, Size
    <3>3. CASE song' \in Pointers /\ UNCHANGED queued
      <4>1. Elements(queued)' = Elements(queued)
        BY <3>3 DEF Elements, Size
      <4>2. song' \in Files \cup {None}
        BY <2>1, <3>3 DEF Pointers
      <4>3. QED BY <2>1, <3>3, <4>1, <4>2 DEF H!Next, H!Select
    <3>4. CASE /\ song \in Pointers
               /\ \E dir \in Directions : \E disc \in Discs : AtRandom(dir, disc)
      <4>1. PICK dir \in Directions : \E disc \in Discs : AtRandom(dir, disc)
        BY <3>4
      <4>2. PICK disc \in Discs : AtRandom(dir, disc)
        BY <4>1
      <4>3. PICK r \in queued_next_song(song, dir, disc) : song' = r.song /\ queued' = r.queue
        BY <4>2 DEF AtRandom
      <4>4. PICK e : e = Elements(queued)
        OBVIOUS
      <4>5. PICK f : f = Elements(r.queue)
        OBVIOUS
      <4>6. Elements(queued)' = f
        BY <4>3, <4>5
      <4>7. /\ r.song \in Pointers
            /\ \/ r.song \in Songs /\ f = H!Remember(Append(e, r.song))
               \/ Len(e) > 1 /\ f = SubSeq(e, 1, Len(e) - 1) /\ r.song = f[Len(f)]
               \/ Len(e) = 1 /\ r.song \in Songs /\ f = <<r.song>>
               \/ Len(e) = 1 /\ r.song = None /\ f = <<>>
               \/ f = e
        BY <2>1, <3>4, <4>4, <4>5, QueuedLemma
      <4>a. (IF song = Freed THEN None ELSE song)' = r.song
        BY <2>1, <4>3, <4>7
      <4>8. CASE r.song \in Songs /\ f = H!Remember(Append(e, r.song))
        BY <2>1, <4>3, <4>4, <4>6, <4>a, <4>8 DEF H!Next, H!Pick
      <4>9. CASE Len(e) > 1 /\ f = SubSeq(e, 1, Len(e) - 1) /\ r.song = f[Len(f)]
        BY <4>3, <4>4, <4>6, <4>a, <4>9 DEF H!Next, H!Back
      <4>10. CASE Len(e) = 1 /\ r.song \in Songs /\ f = <<r.song>>
        BY <2>1, <4>3, <4>4, <4>6, <4>a, <4>10 DEF H!Next, H!BackToTheFirst
      <4>11. CASE Len(e) = 1 /\ r.song = None /\ f = <<>>
        BY <4>3, <4>4, <4>6, <4>a, <4>11 DEF H!Next, H!BackToTheFirst
      <4>12. CASE f = e
        <5>1. r.song \in Files \cup {None}
          BY <2>1, <4>7 DEF Pointers
        <5>2. QED BY <4>4, <4>6, <4>12, <4>a, <5>1 DEF H!Next, H!Select
      <4>13. QED BY <4>7, <4>8, <4>9, <4>10, <4>11, <4>12
    <3>5. QED BY <1>2, <2>3, <3>1, <3>2, <3>3, <3>4, StepLemma
  <2>4. QED BY <1>2, <2>2, <2>3
<1>3. QED BY <1>1, <1>2, DSafe, PTL DEF Spec, KeepsHistory, H!Spec
===============================================================================
