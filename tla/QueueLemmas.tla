---------------------------- MODULE QueueLemmas ----------------------------
(***************************************************************************)
(* Facts about queues of distinct pointers, for the components that keep   *)
(* a fixed pool of messages in os_queue_t queues: what a receive and a     *)
(* send do to the set of queued messages, and how long a queue can get;    *)
(* where they move what waits; and about the pieces of a stream in a       *)
(* queue, joined in order.                                                 *)
(***************************************************************************)
EXTENDS Integers, Sequences, FiniteSets, SequencesExt, SequenceTheorems, FiniteSetTheorems,
        WellFoundedInduction, TLAPS

(* A message at the head of a queue is one of the pool, and after the      *)
(* receive the queue holds the others, still without duplicates.           *)
LEMMA ReceiveLemma ==
  ASSUME NEW S, NEW q \in Seq(S), q # <<>>
  PROVE  /\ Head(q) \in S
         /\ Head(q) \in ToSet(q)
         /\ Tail(q) \in Seq(S)
         /\ ToSet(q) = ToSet(Tail(q)) \cup {Head(q)}
         /\ IsInjective(q) => IsInjective(Tail(q)) /\ Head(q) \notin ToSet(Tail(q))
<1>1. Head(q) = q[1] /\ Len(q) \in Nat /\ Len(q) > 0 /\ DOMAIN q = 1 .. Len(q)
  BY EmptySeq
<1>2. /\ Tail(q) \in Seq(S)
      /\ Len(Tail(q)) = Len(q) - 1
      /\ \A i \in 1 .. Len(q) - 1 : Tail(q)[i] = q[i + 1]
  BY HeadTailProperties
<1>3. DOMAIN Tail(q) = 1 .. Len(q) - 1
  BY <1>2
<1>4. Head(q) \in S /\ Head(q) \in ToSet(q)
  BY <1>1 DEF ToSet
<1>5. ToSet(q) = ToSet(Tail(q)) \cup {Head(q)}
  <2>1. ASSUME NEW x \in ToSet(q) PROVE x \in ToSet(Tail(q)) \cup {Head(q)}
    <3>1. PICK i \in 1 .. Len(q) : x = q[i]
      BY <1>1, <2>1 DEF ToSet
    <3>2. CASE i = 1
      BY <3>1, <3>2, <1>1
    <3>3. CASE i # 1
      <4>1. i - 1 \in 1 .. Len(q) - 1 /\ Tail(q)[i - 1] = x
        BY <3>1, <3>3, <1>1, <1>2
      <4>2. QED BY <4>1, <1>3 DEF ToSet
    <3>4. QED BY <3>2, <3>3
  <2>2. ASSUME NEW x \in ToSet(Tail(q)) PROVE x \in ToSet(q)
    <3>1. PICK i \in 1 .. Len(q) - 1 : x = Tail(q)[i]
      BY <1>3, <2>2 DEF ToSet
    <3>2. i + 1 \in 1 .. Len(q) /\ x = q[i + 1]
      BY <3>1, <1>1, <1>2
    <3>3. QED BY <3>2, <1>1 DEF ToSet
  <2>3. QED BY <2>1, <2>2, <1>4
<1>6. ASSUME IsInjective(q)
      PROVE  IsInjective(Tail(q)) /\ Head(q) \notin ToSet(Tail(q))
  <2>1. \A a, b \in 1 .. Len(q) : q[a] = q[b] => a = b
    BY <1>1, <1>6 DEF IsInjective
  <2>2. IsInjective(Tail(q))
    <3>1. SUFFICES ASSUME NEW a \in 1 .. Len(q) - 1, NEW b \in 1 .. Len(q) - 1,
                          Tail(q)[a] = Tail(q)[b]
                   PROVE  a = b
      BY <1>3 DEF IsInjective
    <3>2. q[a + 1] = q[b + 1] /\ a + 1 \in 1 .. Len(q) /\ b + 1 \in 1 .. Len(q)
      BY <3>1, <1>1, <1>2
    <3>3. QED BY <3>2, <2>1
  <2>3. ASSUME NEW i \in 1 .. Len(q) - 1, Tail(q)[i] = Head(q) PROVE FALSE
    <3>1. i + 1 \in 1 .. Len(q) /\ q[i + 1] = q[1] /\ 1 \in 1 .. Len(q)
      BY <2>3, <1>1, <1>2
    <3>2. QED BY <3>1, <2>1
  <2>4. QED BY <2>2, <2>3, <1>3 DEF ToSet
<1>7. QED BY <1>2, <1>4, <1>5, <1>6

(* A send adds the message and, if it was not queued, keeps the messages   *)
(* distinct.                                                               *)
LEMMA SendLemma ==
  ASSUME NEW S, NEW q \in Seq(S), NEW e \in S
  PROVE  /\ Append(q, e) \in Seq(S)
         /\ ToSet(Append(q, e)) = ToSet(q) \cup {e}
         /\ IsInjective(q) /\ e \notin ToSet(q) => IsInjective(Append(q, e))
<1> DEFINE r == Append(q, e)
<1>1. Len(q) \in Nat /\ DOMAIN q = 1 .. Len(q)
  OBVIOUS
<1>2. /\ r \in Seq(S) /\ Len(r) = Len(q) + 1
      /\ \A i \in 1 .. Len(q) : r[i] = q[i]
      /\ r[Len(q) + 1] = e
  BY AppendProperties
<1>3. DOMAIN r = 1 .. Len(q) + 1
  BY <1>2
<1> HIDE DEF r
<1>4. ToSet(r) = ToSet(q) \cup {e}
  <2>1. ASSUME NEW x \in ToSet(r) PROVE x \in ToSet(q) \cup {e}
    <3>1. PICK i \in 1 .. Len(q) + 1 : x = r[i]
      BY <1>3, <2>1 DEF ToSet
    <3>2. CASE i = Len(q) + 1
      BY <3>1, <3>2, <1>2
    <3>3. CASE i \in 1 .. Len(q)
      BY <3>1, <3>3, <1>1, <1>2 DEF ToSet
    <3>4. QED BY <1>1, <3>2, <3>3
  <2>2. ASSUME NEW x \in ToSet(q) PROVE x \in ToSet(r)
    <3>1. PICK i \in 1 .. Len(q) : x = q[i]
      BY <1>1, <2>2 DEF ToSet
    <3>2. i \in DOMAIN r /\ r[i] = x
      BY <3>1, <1>1, <1>2, <1>3
    <3>3. QED BY <3>2 DEF ToSet
  <2>3. e \in ToSet(r)
    <3>1. Len(q) + 1 \in DOMAIN r /\ r[Len(q) + 1] = e
      BY <1>1, <1>2, <1>3
    <3>2. QED BY <3>1 DEF ToSet
  <2>4. QED BY <2>1, <2>2, <2>3
<1>5. ASSUME IsInjective(q), e \notin ToSet(q) PROVE IsInjective(r)
  <2>1. \A a, b \in 1 .. Len(q) : q[a] = q[b] => a = b
    BY <1>1, <1>5 DEF IsInjective
  <2>2. \A a \in 1 .. Len(q) : q[a] # e
    BY <1>1, <1>5 DEF ToSet
  <2>3. QED BY <2>1, <2>2, <1>1, <1>2, <1>3 DEF IsInjective
<1>6. QED BY <1>2, <1>4, <1>5 DEF r

(* A queue of distinct messages of a finite pool is no longer than the     *)
(* pool, and shorter if some message of the pool is not in it.             *)
LEMMA RoomLemma ==
  ASSUME NEW S, IsFiniteSet(S), NEW q \in Seq(S), IsInjective(q)
  PROVE  /\ Len(q) \in Nat /\ Cardinality(S) \in Nat
         /\ Len(q) <= Cardinality(S)
         /\ \A e \in S : e \notin ToSet(q) => Len(q) < Cardinality(S)
<1>1. Len(q) \in Nat /\ DOMAIN q = 1 .. Len(q) /\ q \in [1 .. Len(q) -> S]
  OBVIOUS
<1>2. q \in Injection(1 .. Len(q), S)
  BY <1>1 DEF Injection
<1>3. Cardinality(1 .. Len(q)) = Len(q)
  BY <1>1, FS_Interval
<1>4. /\ Len(q) <= Cardinality(S)
      /\ Len(q) = Cardinality(S) => q \in Surjection(1 .. Len(q), S)
  BY <1>2, <1>3, FS_Injection
<1>5. Cardinality(S) \in Nat
  BY FS_CardinalityType
<1>6. ASSUME NEW e \in S, e \notin ToSet(q), Len(q) = Cardinality(S) PROVE FALSE
  BY <1>1, <1>4, <1>6 DEF Surjection, ToSet
<1>7. QED BY <1>1, <1>4, <1>5, <1>6

(* An enumeration of a finite set, as the init functions fill their idle   *)
(* queues, holds every element of the set once.                            *)
LEMMA EnumerationLemma ==
  ASSUME NEW S, IsFiniteSet(S), NEW q \in SetToSeqs(S)
  PROVE  q \in Seq(S) /\ IsInjective(q) /\ ToSet(q) = S
<1> DEFINE n == Cardinality(S)
<1>1. n \in Nat
  BY FS_CardinalityType
<1>2. q \in [1 .. n -> S] /\ \A i, j \in 1 .. n : i # j => q[i] # q[j]
  BY DEF SetToSeqs
<1>3. q \in Seq(S) /\ IsInjective(q)
  BY <1>1, <1>2, SeqDef DEF IsInjective
<1>4. Cardinality(1 .. n) = n
  BY <1>1, FS_Interval
<1>5. q \in Surjection(1 .. n, S)
  <2>1. q \in Injection(1 .. n, S)
    BY <1>2, <1>3 DEF Injection
  <2>2. QED BY <2>1, <1>4, FS_Injection
<1>6. ToSet(q) = S
  BY <1>2, <1>5 DEF ToSet, Surjection
<1>7. QED BY <1>3, <1>6

(* Two queues, one behind the other, hold the messages of both; each       *)
(* message is there once if it is once in one of them.                     *)
LEMMA ConcatLemma ==
  ASSUME NEW S, NEW a \in Seq(S), NEW b \in Seq(S)
  PROVE  /\ a \o b \in Seq(S)
         /\ ToSet(a \o b) = ToSet(a) \cup ToSet(b)
         /\ IsInjective(a \o b) <=>
              IsInjective(a) /\ IsInjective(b) /\ ToSet(a) \cap ToSet(b) = {}
<1> DEFINE r == a \o b
<1>1. /\ Len(a) \in Nat /\ Len(b) \in Nat
      /\ DOMAIN a = 1 .. Len(a) /\ DOMAIN b = 1 .. Len(b)
  OBVIOUS
<1>2. /\ r \in Seq(S) /\ Len(r) = Len(a) + Len(b)
      /\ \A i \in 1 .. Len(a) + Len(b) :
           r[i] = IF i <= Len(a) THEN a[i] ELSE b[i - Len(a)]
  BY ConcatProperties
<1>3. DOMAIN r = 1 .. Len(a) + Len(b)
  BY <1>1, <1>2
<1> HIDE DEF r
<1>4. \A i \in 1 .. Len(a) : i \in DOMAIN r /\ r[i] = a[i]
  BY <1>1, <1>2, <1>3
<1>5. \A i \in 1 .. Len(b) : i + Len(a) \in DOMAIN r /\ r[i + Len(a)] = b[i]
  <2>1. SUFFICES ASSUME NEW i \in 1 .. Len(b)
                 PROVE  i + Len(a) \in DOMAIN r /\ r[i + Len(a)] = b[i]
    OBVIOUS
  <2>2. i + Len(a) \in 1 .. Len(a) + Len(b) /\ ~(i + Len(a) <= Len(a))
        /\ i + Len(a) - Len(a) = i
    BY <1>1
  <2>3. QED BY <2>2, <1>2, <1>3
<1>6. \A i \in DOMAIN r :
        \/ i \in 1 .. Len(a) /\ r[i] = a[i]
        \/ i - Len(a) \in 1 .. Len(b) /\ r[i] = b[i - Len(a)]
  BY <1>1, <1>2, <1>3
<1>7. ToSet(r) = ToSet(a) \cup ToSet(b)
  <2>1. ToSet(r) \subseteq ToSet(a) \cup ToSet(b)
    BY <1>1, <1>6 DEF ToSet
  <2>2. ToSet(a) \subseteq ToSet(r)
    BY <1>1, <1>4 DEF ToSet
  <2>3. ToSet(b) \subseteq ToSet(r)
    <3>1. SUFFICES ASSUME NEW i \in 1 .. Len(b) PROVE b[i] \in ToSet(r)
      BY <1>1 DEF ToSet
    <3>2. i + Len(a) \in DOMAIN r /\ r[i + Len(a)] = b[i]
      BY <1>5
    <3>3. QED BY <3>2 DEF ToSet
  <2>4. QED BY <2>1, <2>2, <2>3
<1>8. ASSUME IsInjective(r)
      PROVE  IsInjective(a) /\ IsInjective(b) /\ ToSet(a) \cap ToSet(b) = {}
  <2>1. \A i, j \in DOMAIN r : r[i] = r[j] => i = j
    BY <1>8 DEF IsInjective
  <2>2. IsInjective(a)
    BY <2>1, <1>1, <1>4 DEF IsInjective
  <2>3. IsInjective(b)
    <3>1. SUFFICES ASSUME NEW i \in 1 .. Len(b), NEW j \in 1 .. Len(b), b[i] = b[j]
                   PROVE  i = j
      BY <1>1 DEF IsInjective
    <3>2. i + Len(a) = j + Len(a)
      BY <3>1, <1>5, <2>1
    <3>3. QED BY <3>2, <1>1
  <2>4. ASSUME NEW i \in 1 .. Len(a), NEW j \in 1 .. Len(b), a[i] = b[j] PROVE FALSE
    <3>1. i = j + Len(a)
      BY <2>4, <1>4, <1>5, <2>1
    <3>2. QED BY <3>1, <1>1
  <2>5. QED BY <2>2, <2>3, <2>4, <1>1 DEF ToSet
<1>9. ASSUME IsInjective(a), IsInjective(b), ToSet(a) \cap ToSet(b) = {}
      PROVE  IsInjective(r)
  <2>1. \A i, j \in 1 .. Len(a) : a[i] = a[j] => i = j
    BY <1>1, <1>9 DEF IsInjective
  <2>2. \A i, j \in 1 .. Len(b) : b[i] = b[j] => i = j
    BY <1>1, <1>9 DEF IsInjective
  <2>3. \A i \in 1 .. Len(a), j \in 1 .. Len(b) : a[i] # b[j]
    BY <1>1, <1>9 DEF ToSet
  <2>4. SUFFICES ASSUME NEW i \in DOMAIN r, NEW j \in DOMAIN r, r[i] = r[j]
                 PROVE  i = j
    BY DEF IsInjective
  <2>5. CASE i \in 1 .. Len(a) /\ r[i] = a[i] /\ j \in 1 .. Len(a) /\ r[j] = a[j]
    BY <2>1, <2>4, <2>5
  <2>6. CASE /\ i - Len(a) \in 1 .. Len(b) /\ r[i] = b[i - Len(a)]
             /\ j - Len(a) \in 1 .. Len(b) /\ r[j] = b[j - Len(a)]
    <3>1. i - Len(a) = j - Len(a)
      BY <2>2, <2>4, <2>6
    <3>2. QED BY <3>1, <1>1, <1>3
  <2>7. QED BY <1>6, <2>3, <2>4, <2>5, <2>6
<1>10. QED BY <1>2, <1>7, <1>8, <1>9 DEF r

(* A message put in front of a queue is its head.                          *)
LEMMA PrependLemma ==
  ASSUME NEW S, NEW q \in Seq(S), NEW e \in S
  PROVE  /\ <<e>> \o q \in Seq(S)
         /\ ToSet(<<e>> \o q) = ToSet(q) \cup {e}
         /\ IsInjective(q) /\ e \notin ToSet(q) => IsInjective(<<e>> \o q)
         /\ <<e>> \o q # <<>> /\ Head(<<e>> \o q) = e /\ Tail(<<e>> \o q) = q
<1>1. <<e>> \in Seq(S) /\ ToSet(<<e>>) = {e} /\ IsInjective(<<e>>)
  BY DEF ToSet, IsInjective
<1>2. /\ <<e>> \o q \in Seq(S)
      /\ ToSet(<<e>> \o q) = ToSet(q) \cup {e}
      /\ IsInjective(q) /\ e \notin ToSet(q) => IsInjective(<<e>> \o q)
  <2> DEFINE h == <<e>>
  <2> HIDE DEF h
  <2>1. h \in Seq(S) /\ ToSet(h) = {e} /\ IsInjective(h)
    BY <1>1 DEF h
  <2>2. /\ h \o q \in Seq(S)
        /\ ToSet(h \o q) = ToSet(h) \cup ToSet(q)
        /\ IsInjective(h \o q) <=>
             IsInjective(h) /\ IsInjective(q) /\ ToSet(h) \cap ToSet(q) = {}
    BY <2>1, ConcatLemma
  <2>3. QED BY <2>1, <2>2 DEF h
<1>3. <<e>> \o q # <<>> /\ Head(<<e>> \o q) = e
  BY <1>1
<1>4. Tail(<<e>> \o q) = q
  <2> DEFINE r == <<e>> \o q
  <2>1. Len(q) \in Nat /\ Len(r) = Len(q) + 1 /\ r \in Seq(S)
        /\ \A i \in 1 .. Len(q) : r[i + 1] = q[i]
    OBVIOUS
  <2>2. Len(Tail(r)) = Len(q) /\ Tail(r) \in Seq(S)
        /\ \A i \in 1 .. Len(q) : Tail(r)[i] = r[i + 1]
    BY <2>1, HeadTailProperties
  <2>3. \A i \in 1 .. Len(q) : Tail(r)[i] = q[i]
    BY <2>1, <2>2
  <2>4. QED BY <2>1, <2>2, <2>3, SeqEqual
<1>5. QED BY <1>2, <1>3, <1>4

(* What the messages of a queue carry, when f says it of each.             *)
Carried(q, f) == [i \in DOMAIN q |-> f[q[i]]]

(* A send to a queue adds what its message carries, a receive takes what   *)
(* the head carries, and what other messages carry makes no difference.    *)
LEMMA CarriedLemma ==
  ASSUME NEW S, NEW f, NEW q \in Seq(S)
  PROVE  /\ Len(Carried(q, f)) = Len(q)
         /\ \A e \in S : Carried(Append(q, e), f) = Append(Carried(q, f), f[e])
         /\ q # <<>> => /\ Carried(q, f) # <<>>
                        /\ Head(Carried(q, f)) = f[Head(q)]
                        /\ Carried(Tail(q), f) = Tail(Carried(q, f))
         /\ \A g : (\A x \in ToSet(q) : g[x] = f[x]) => Carried(q, g) = Carried(q, f)
<1> DEFINE T == {f[x] : x \in S}
<1> USE DEF Carried
<1>1. /\ Len(q) \in Nat /\ DOMAIN q = 1 .. Len(q)
      /\ \A i \in 1 .. Len(q) : q[i] \in S
  OBVIOUS
<1>2. Carried(q, f) \in [1 .. Len(q) -> T]
  BY <1>1
<1>3. /\ Carried(q, f) \in Seq(T) /\ Len(Carried(q, f)) = Len(q)
      /\ \A i \in 1 .. Len(q) : Carried(q, f)[i] = f[q[i]]
  BY <1>1, <1>2
<1>4. ASSUME NEW e \in S PROVE Carried(Append(q, e), f) = Append(Carried(q, f), f[e])
  <2>1. /\ Append(q, e) \in Seq(S) /\ Len(Append(q, e)) = Len(q) + 1
        /\ DOMAIN Append(q, e) = 1 .. Len(q) + 1
        /\ \A i \in 1 .. Len(q) : Append(q, e)[i] = q[i]
        /\ Append(q, e)[Len(q) + 1] = e
    BY <1>1, AppendProperties
  <2>2. /\ Append(Carried(q, f), f[e]) \in Seq(T)
        /\ Len(Append(Carried(q, f), f[e])) = Len(q) + 1
        /\ DOMAIN Append(Carried(q, f), f[e]) = 1 .. Len(q) + 1
        /\ \A i \in 1 .. Len(q) : Append(Carried(q, f), f[e])[i] = f[q[i]]
        /\ Append(Carried(q, f), f[e])[Len(q) + 1] = f[e]
    <3> DEFINE o == Carried(q, f)
    <3> HIDE DEF o
    <3>1. o \in Seq(T) /\ Len(o) = Len(q) /\ f[e] \in T
          /\ \A i \in 1 .. Len(q) : o[i] = f[q[i]]
      BY <1>3 DEF o
    <3>2. /\ Append(o, f[e]) \in Seq(T)
          /\ Len(Append(o, f[e])) = Len(q) + 1
          /\ DOMAIN Append(o, f[e]) = 1 .. Len(q) + 1
          /\ \A i \in 1 .. Len(q) : Append(o, f[e])[i] = o[i]
          /\ Append(o, f[e])[Len(q) + 1] = f[e]
      BY <3>1, <1>1, AppendProperties
    <3>3. QED BY <3>1, <3>2 DEF o
  <2>3. \A i \in 1 .. Len(q) + 1 :
          Carried(Append(q, e), f)[i] = Append(Carried(q, f), f[e])[i]
    <3>1. TAKE i \in 1 .. Len(q) + 1
    <3>2. Carried(Append(q, e), f)[i] = f[Append(q, e)[i]]
      BY <2>1
    <3>3. CASE i \in 1 .. Len(q)
      BY <2>1, <2>2, <3>2, <3>3
    <3>4. CASE i = Len(q) + 1
      BY <2>1, <2>2, <3>2, <3>4
    <3>5. QED BY <1>1, <3>3, <3>4
  <2>4. DOMAIN Carried(Append(q, e), f) = 1 .. Len(q) + 1
    BY <2>1
  <2>5. Carried(Append(q, e), f) \in Seq(T)
    <3>1. Carried(Append(q, e), f) \in [1 .. Len(q) + 1 -> T]
      BY <2>1
    <3>2. QED BY <3>1, <1>1
  <2>6. Len(Carried(Append(q, e), f)) = Len(q) + 1
    BY <2>4, <2>5, <1>1
  <2> HIDE DEF Carried
  <2>7. QED BY <2>2, <2>3, <2>5, <2>6, SeqEqual
<1>5. ASSUME q # <<>>
      PROVE  /\ Carried(q, f) # <<>> /\ Head(Carried(q, f)) = f[Head(q)]
             /\ Carried(Tail(q), f) = Tail(Carried(q, f))
  <2>1. Len(q) > 0 /\ Head(q) = q[1] /\ 1 \in 1 .. Len(q)
    BY <1>1, <1>5, EmptySeq
  <2>2. /\ Tail(q) \in Seq(S) /\ Len(Tail(q)) = Len(q) - 1
        /\ DOMAIN Tail(q) = 1 .. Len(q) - 1
        /\ \A i \in 1 .. Len(q) - 1 : Tail(q)[i] = q[i + 1]
    BY <1>5, HeadTailProperties
  <2>3. /\ Carried(q, f) # <<>> /\ Head(Carried(q, f)) = f[Head(q)]
        /\ Tail(Carried(q, f)) \in Seq(T) /\ Len(Tail(Carried(q, f))) = Len(q) - 1
        /\ \A i \in 1 .. Len(q) - 1 : Tail(Carried(q, f))[i] = f[q[i + 1]]
    <3> DEFINE o == Carried(q, f)
    <3> HIDE DEF o
    <3>1. o \in Seq(T) /\ Len(o) = Len(q) /\ \A i \in 1 .. Len(q) : o[i] = f[q[i]]
      BY <1>3 DEF o
    <3>2. o # <<>> /\ Head(o) = o[1]
      BY <3>1, <2>1
    <3>3. /\ Tail(o) \in Seq(T) /\ Len(Tail(o)) = Len(q) - 1
          /\ \A i \in 1 .. Len(q) - 1 : Tail(o)[i] = o[i + 1]
      BY <3>1, <3>2, HeadTailProperties
    <3>4. \A i \in 1 .. Len(q) - 1 : i + 1 \in 1 .. Len(q)
      BY <1>1
    <3>5. QED BY <3>1, <3>2, <3>3, <3>4, <2>1 DEF o
  <2>4. Carried(Tail(q), f) \in [1 .. Len(q) - 1 -> T]
    BY <2>2
  <2>5. /\ Carried(Tail(q), f) \in Seq(T) /\ Len(Carried(Tail(q), f)) = Len(q) - 1
        /\ \A i \in 1 .. Len(q) - 1 : Carried(Tail(q), f)[i] = f[q[i + 1]]
    BY <1>1, <2>1, <2>2, <2>4
  <2> HIDE DEF Carried
  <2>6. QED BY <2>3, <2>5, SeqEqual
<1>6. ASSUME NEW g, \A x \in ToSet(q) : g[x] = f[x] PROVE Carried(q, g) = Carried(q, f)
  BY <1>1, <1>6 DEF ToSet
<1>7. QED BY <1>3, <1>4, <1>5, <1>6

(* What a queue of messages carries is a sequence of what they carry.      *)
LEMMA CarriedType ==
  ASSUME NEW S, NEW T, NEW f \in [S -> T], NEW q \in Seq(S)
  PROVE  Carried(q, f) \in Seq(T)
<1>1. Len(q) \in Nat /\ DOMAIN q = 1 .. Len(q) /\ \A i \in 1 .. Len(q) : q[i] \in S
  OBVIOUS
<1>2. Carried(q, f) \in [1 .. Len(q) -> T]
  BY <1>1 DEF Carried
<1>3. QED BY <1>1, <1>2

(* A set of naturals that is not empty has a least element: induction over *)
(* the length of a queue is the least length for which a claim fails.      *)
LEMMA LeastLemma ==
  ASSUME NEW T \in SUBSET Nat, T # {}
  PROVE  \E x \in T : \A y \in T : x <= y
<1> DEFINE R == OpToRel(<, Nat)
<1>1. IsWellFoundedOn(R, Nat)
  BY NatLessThanWellFounded
<1>2. ASSUME NEW x \in Nat, NEW y \in Nat, y < x PROVE <<y, x>> \in R
  BY <1>2 DEF OpToRel
<1> HIDE DEF R
<1>3. PICK x \in T : \A y \in T : <<y, x>> \notin R
  BY <1>1, WFMin
<1>4. ASSUME NEW y \in T PROVE x <= y
  <2>1. x \in Nat /\ y \in Nat
    OBVIOUS
  <2>2. ~ (y < x)
    BY <1>2, <1>3, <2>1, Zenon
  <2>3. QED BY <2>1, <2>2
<1>5. QED BY <1>4

(* The function that a fold defines by recursion exists.                   *)
LEMMA JoinsExist ==
  ASSUME NEW ss, NEW n \in Nat
  PROVE  \E g : g = [i \in 1 .. n |-> IF i = 1 THEN ss[i] ELSE g[i - 1] \o ss[i]]
<1> DEFINE F(g, i) == IF i = 1 THEN ss[i] ELSE g[i - 1] \o ss[i]
           Joined(k) == \E g : g = [i \in 1 .. k |-> F(g, i)]
           Bad == {k \in Nat : ~ Joined(k)}
<1>1. ASSUME NEW k \in Nat, k = 0 \/ Joined(k - 1) PROVE Joined(k)
  <2>1. CASE k = 0
    <3>1. PICK g : g = [i \in {} |-> 0]
      OBVIOUS
    <3>2. g = [i \in 1 .. k |-> F(g, i)]
      BY <2>1, <3>1
    <3>3. QED BY <3>2
  <2>2. CASE k # 0
    <3>1. PICK g : g = [i \in 1 .. k - 1 |-> F(g, i)]
      BY <1>1, <2>2
    <3> DEFINE h == [i \in 1 .. k |-> IF i = k THEN F(g, k) ELSE g[i]]
    <3>2. \A i \in 1 .. k - 1 : g[i] = F(g, i)
      <4>1. DOMAIN g = 1 .. k - 1
        BY <3>1
      <4>2. TAKE i \in 1 .. k - 1
      <4>3. [j \in 1 .. k - 1 |-> F(g, j)][i] = F(g, i)
        OBVIOUS
      <4>4. QED BY <3>1, <4>3, Zenon
    <3>3. \A i \in 1 .. k : h[i] = F(h, i)
      <4>1. TAKE i \in 1 .. k
      <4>2. i # 1 => h[i - 1] = g[i - 1]
        BY <2>2
      <4>3. F(h, i) = F(g, i)
        BY <4>2
      <4>4. i # k => i \in 1 .. k - 1
        OBVIOUS
      <4>5. QED BY <3>2, <4>3, <4>4
    <3>4. h = [i \in 1 .. k |-> F(h, i)]
      BY <3>3
    <3>5. QED BY <3>4
  <2>3. QED BY <2>1, <2>2
<1>2. ASSUME Bad # {} PROVE FALSE
  <2> HIDE DEF Joined
  <2>1. PICK k \in Bad : \A y \in Bad : k <= y
    BY <1>2, LeastLemma
  <2>2. k = 0 \/ k - 1 \in Nat
    OBVIOUS
  <2>3. k - 1 \in Nat => k - 1 \notin Bad
    BY <2>1
  <2>4. QED BY <1>1, <2>2, <2>3
<1>3. QED
  <2>1. Joined(n)
    <3> HIDE DEF Joined
    <3>1. QED BY <1>2
  <2>2. QED BY <2>1

(* A set with 1 and, but for n, the next of each of its numbers is all of  *)
(* 1 .. n.                                                                 *)
LEMMA ClimbLemma ==
  ASSUME NEW n \in Nat, NEW G, 1 \in G, \A i \in 1 .. n : i # n /\ i \in G => i + 1 \in G
  PROVE  \A i \in 1 .. n : i \in G
<1> DEFINE Bad == (1 .. n) \ G
<1>1. SUFFICES ASSUME Bad # {} PROVE FALSE
  OBVIOUS
<1>2. Bad \in SUBSET Nat
  OBVIOUS
<1>3. PICK k \in Bad : \A y \in Bad : k <= y
  <2> HIDE DEF Bad
  <2>1. QED BY <1>1, <1>2, LeastLemma
<1>4. k \in 1 .. n /\ k \notin G /\ k # 1
  OBVIOUS
<1>5. k - 1 \in 1 .. n /\ k - 1 # n /\ k - 1 + 1 = k /\ ~ (k <= k - 1)
  BY <1>4
<1>6. k - 1 \in G
  BY <1>3, <1>5
<1>7. QED BY <1>4, <1>5, <1>6

(* The joins of the pieces of ss, as FlattenSeq makes them.                *)
IsJoin(g, ss, n) ==
  /\ DOMAIN g = 1 .. n
  /\ n >= 1 => g[1] = ss[1]
  /\ \A i \in 1 .. n : i # n => g[i + 1] = g[i] \o ss[i + 1]

(* The recursion of FlattenSeq, and what it says from one piece to the next.*)
Recurs(f, ss, n) == \A k \in 1 .. n : f[k] = IF k = 1 THEN ss[k] ELSE f[k - 1] \o ss[k]

(* What the recursion says of the next piece.                              *)
LEMMA JoinStep ==
  ASSUME NEW f, NEW ss, NEW n \in Nat, Recurs(f, ss, n)
  PROVE  \A i \in 1 .. n : i # n => f[i + 1] = f[i] \o ss[i + 1]
<1> SUFFICES ASSUME NEW i \in 1 .. n, i # n PROVE f[i + 1] = f[i] \o ss[i + 1]
  OBVIOUS
<1> DEFINE j == i + 1
<1>1. j \in 1 .. n /\ j # 1 /\ j - 1 = i
  OBVIOUS
<1> HIDE DEF j
<1>2. f[j] = IF j = 1 THEN ss[j] ELSE f[j - 1] \o ss[j]
  BY <1>1 DEF Recurs
<1>3. f[j] = f[j - 1] \o ss[j]
  BY <1>1, <1>2, Zenon
<1>4. f[j] = f[i] \o ss[j]
  BY <1>1, <1>3, Zenon
<1>5. QED BY <1>4 DEF j

(* Joining three pieces, the order of the joins is no matter.              *)
LEMMA AssociativeLemma ==
  ASSUME NEW S
  PROVE  \A a, b, c \in Seq(S) : (a \o b) \o c = a \o (b \o c)
BY ConcatAssociative

(* FlattenSeq is the last of the joins; each of them is a sequence.        *)
LEMMA JoinLemma ==
  ASSUME NEW S, NEW ss \in Seq(Seq(S)), ss # <<>>
  PROVE  \E g \in [1 .. Len(ss) -> Seq(S)] :
           IsJoin(g, ss, Len(ss)) /\ FlattenSeq(ss) = g[Len(ss)]
<1>1. PICK n \in Nat : n = Len(ss) /\ n >= 1
  BY EmptySeq
<1>2. \A i \in 1 .. n : ss[i] \in Seq(S)
  BY <1>1
<1> DEFINE F(g, i) == IF i = 1 THEN ss[i] ELSE g[i - 1] \o ss[i]
           f == CHOOSE g : g = [i \in 1 .. n |-> F(g, i)]
<1>3. f = [i \in 1 .. n |-> F(f, i)]
  <2>1. \E g : g = [i \in 1 .. n |-> F(g, i)]
    BY JoinsExist
  <2>2. QED BY <2>1
<1>4. FlattenSeq(ss) = f[n]
  BY <1>1 DEF FlattenSeq
<1> HIDE DEF f
<1>5. DOMAIN f = 1 .. n /\ \A i \in 1 .. n : f[i] = F(f, i)
  BY <1>3
<1>6. f[1] = ss[1] /\ \A i \in 1 .. n : i # n => f[i + 1] = f[i] \o ss[i + 1]
  <2>1. \A k \in 1 .. n : f[k] = IF k = 1 THEN ss[k] ELSE f[k - 1] \o ss[k]
    BY <1>5
  <2>2. 1 \in 1 .. n
    BY <1>1
  <2>3. f[1] = ss[1]
    BY <2>1, <2>2, Zenon
  <2>4. \A i \in 1 .. n : i # n => f[i + 1] = f[i] \o ss[i + 1]
    <3>1. Recurs(f, ss, n)
      BY <2>1 DEF Recurs
    <3>2. QED BY <3>1, JoinStep, Zenon
  <2>5. QED BY <2>3, <2>4
<1>7. \A i \in 1 .. n : f[i] \in Seq(S)
  <2> DEFINE G == {k \in 1 .. n : f[k] \in Seq(S)}
  <2>1. 1 \in G
    BY <1>1, <1>2, <1>6
  <2>2. ASSUME NEW i \in 1 .. n, i # n, i \in G PROVE i + 1 \in G
    <3>1. i + 1 \in 1 .. n /\ f[i] \in Seq(S) /\ ss[i + 1] \in Seq(S)
      BY <1>2, <2>2
    <3>2. f[i] \o ss[i + 1] \in Seq(S)
      BY <3>1, ConcatProperties
    <3>3. QED BY <1>6, <2>2, <3>1, <3>2
  <2> HIDE DEF G
  <2>3. \A i \in 1 .. n : i \in G
    BY <2>1, <2>2, ClimbLemma
  <2>4. QED BY <2>3 DEF G
<1>8. f \in [1 .. n -> Seq(S)]
  <2>1. f = [i \in 1 .. n |-> f[i]]
    BY <1>3
  <2>2. QED BY <1>7, <2>1
<1>9. QED BY <1>1, <1>4, <1>5, <1>6, <1>8 DEF IsJoin

(* FlattenSeq of one piece more at the end ...                             *)
LEMMA FlattenAppend ==
  ASSUME NEW S, NEW ss \in Seq(Seq(S)), NEW e \in Seq(S)
  PROVE  FlattenSeq(Append(ss, e)) = FlattenSeq(ss) \o e
<1> DEFINE t == Append(ss, e)
<1>1. PICK n \in Nat : n = Len(ss)
  OBVIOUS
<1>2. /\ t \in Seq(Seq(S)) /\ t # <<>> /\ Len(t) = n + 1
      /\ \A i \in 1 .. n : t[i] = ss[i]
      /\ t[n + 1] = e
  BY <1>1, AppendProperties
<1> HIDE DEF t
<1>3. PICK g \in [1 .. n + 1 -> Seq(S)] : IsJoin(g, t, n + 1) /\ FlattenSeq(t) = g[n + 1]
  BY <1>2, JoinLemma
<1>4. g[1] = t[1] /\ \A i \in 1 .. n : g[i + 1] = g[i] \o t[i + 1]
  <2>1. n + 1 >= 1 /\ \A i \in 1 .. n : i \in 1 .. n + 1 /\ i # n + 1
    OBVIOUS
  <2>2. /\ n + 1 >= 1 => g[1] = t[1]
        /\ \A i \in 1 .. n + 1 : i # n + 1 => g[i + 1] = g[i] \o t[i + 1]
    BY <1>3, Zenon DEF IsJoin
  <2>3. QED BY <2>1, <2>2, Zenon
<1>5. CASE ss = <<>>
  <2>1. n = 0 /\ g[1] = e
    BY <1>1, <1>2, <1>4, <1>5
  <2>2. FlattenSeq(ss) = <<>>
    BY <1>5 DEF FlattenSeq
  <2>3. <<>> \o e = e
    BY ConcatEmptySeq
  <2>4. QED BY <1>3, <2>1, <2>2, <2>3 DEF t
<1>6. CASE ss # <<>>
  <2>1. n >= 1
    BY <1>1, <1>6, EmptySeq
  <2>2. PICK h \in [1 .. n -> Seq(S)] : IsJoin(h, ss, n) /\ FlattenSeq(ss) = h[n]
    BY <1>1, <1>6, JoinLemma
  <2> DEFINE G == {k \in 1 .. n : g[k] = h[k]}
  <2>3. 1 \in G
    BY <1>2, <1>4, <2>1, <2>2 DEF IsJoin
  <2>4. ASSUME NEW i \in 1 .. n, i # n, i \in G PROVE i + 1 \in G
    <3>1. i + 1 \in 1 .. n /\ t[i + 1] = ss[i + 1] /\ g[i] = h[i]
      BY <1>2, <2>4
    <3>2. g[i + 1] = g[i] \o t[i + 1] /\ h[i + 1] = h[i] \o ss[i + 1]
      BY <1>4, <2>2, <2>4 DEF IsJoin
    <3>3. QED BY <3>1, <3>2
  <2> HIDE DEF G
  <2>5. n \in 1 .. n /\ n \in G
    <3>1. \A i \in 1 .. n : i \in G
      BY <2>3, <2>4, ClimbLemma
    <3>2. QED BY <2>1, <3>1
  <2>6. g[n] = h[n] /\ g[n + 1] = g[n] \o t[n + 1]
    BY <1>4, <2>5 DEF G
  <2>7. QED BY <1>2, <1>3, <2>2, <2>6 DEF t
<1>7. QED BY <1>5, <1>6

(* ... and of the pieces without the first.                                *)
LEMMA FlattenTail ==
  ASSUME NEW S, NEW ss \in Seq(Seq(S)), ss # <<>>
  PROVE  FlattenSeq(ss) = Head(ss) \o FlattenSeq(Tail(ss))
<1>0. \A a, b, c \in Seq(S) : (a \o b) \o c = a \o (b \o c)
  BY AssociativeLemma, SMTT(30)
<1> DEFINE t == Tail(ss)
<1>1. PICK n \in Nat : n + 1 = Len(ss)
  <2>1. Len(ss) - 1 \in Nat /\ Len(ss) - 1 + 1 = Len(ss)
    BY EmptySeq
  <2>2. QED BY <2>1
<1>2. /\ t \in Seq(Seq(S)) /\ Len(t) = n
      /\ \A i \in 1 .. n : t[i] = ss[i + 1] /\ t[i] \in Seq(S)
      /\ Head(ss) = ss[1] /\ ss[1] \in Seq(S)
  BY <1>1, HeadTailProperties
<1> HIDE DEF t
<1>3. PICK g \in [1 .. n + 1 -> Seq(S)] : IsJoin(g, ss, n + 1) /\ FlattenSeq(ss) = g[n + 1]
  BY <1>1, JoinLemma
<1>4. g[1] = ss[1] /\ \A i \in 1 .. n : g[i + 1] = g[i] \o ss[i + 1]
  <2>1. n + 1 >= 1 /\ \A i \in 1 .. n : i \in 1 .. n + 1 /\ i # n + 1
    OBVIOUS
  <2>2. /\ n + 1 >= 1 => g[1] = ss[1]
        /\ \A i \in 1 .. n + 1 : i # n + 1 => g[i + 1] = g[i] \o ss[i + 1]
    BY <1>3, Zenon DEF IsJoin
  <2>3. QED BY <2>1, <2>2, Zenon
<1>5. CASE n = 0
  <2>1. FlattenSeq(t) = <<>>
    <3>1. t = <<>>
      BY <1>2, <1>5, EmptySeq
    <3>2. QED BY <3>1 DEF FlattenSeq
  <2>2. ss[1] \o <<>> = ss[1]
    BY <1>2, ConcatEmptySeq
  <2>3. QED BY <1>2, <1>3, <1>4, <1>5, <2>1, <2>2 DEF t
<1>6. CASE n # 0
  <2>1. n >= 1 /\ t # <<>>
    BY <1>2, <1>6
  <2>2. PICK h \in [1 .. n -> Seq(S)] : IsJoin(h, t, n) /\ FlattenSeq(t) = h[n]
    BY <1>2, <2>1, JoinLemma
  <2>3. h[1] = t[1] /\ \A i \in 1 .. n : i # n => h[i + 1] = h[i] \o t[i + 1]
    BY <2>1, <2>2 DEF IsJoin
  <2> DEFINE G == {k \in 1 .. n : g[k + 1] = ss[1] \o h[k]}
  <2>4. 1 \in G
    <3>1. 1 \in 1 .. n
      BY <2>1
    <3>2. g[1 + 1] = g[1] \o ss[1 + 1] /\ t[1] = ss[1 + 1]
      BY <1>2, <1>4, <3>1
    <3>3. QED BY <1>4, <2>3, <3>1, <3>2
  <2>5. ASSUME NEW i \in 1 .. n, i # n, i \in G PROVE i + 1 \in G
    <3>1. i + 1 \in 1 .. n
      BY <2>5
    <3>2. /\ g[i + 1 + 1] = g[i + 1] \o ss[i + 1 + 1] /\ t[i + 1] = ss[i + 1 + 1]
          /\ h[i + 1] = h[i] \o t[i + 1] /\ g[i + 1] = ss[1] \o h[i]
      BY <1>2, <1>4, <2>3, <2>5, <3>1
    <3>3. h[i] \in Seq(S) /\ t[i + 1] \in Seq(S) /\ ss[1] \in Seq(S)
      BY <1>2, <3>1
    <3>4. g[i + 1 + 1] = ss[1] \o (h[i] \o t[i + 1])
      <4>1. g[i + 1 + 1] = g[i + 1] \o t[i + 1]
        BY <3>2, Zenon
      <4>2. (ss[1] \o h[i]) \o t[i + 1] = ss[1] \o (h[i] \o t[i + 1])
        BY <1>0, <3>3, Zenon
      <4>3. QED BY <3>2, <4>1, <4>2, Zenon
    <3>5. g[i + 1 + 1] = ss[1] \o h[i + 1]
      BY <3>2, <3>4, Zenon
    <3>6. QED BY <3>1, <3>5
  <2> HIDE DEF G
  <2>6. n \in 1 .. n /\ n \in G
    <3>1. \A i \in 1 .. n : i \in G
      BY <2>4, <2>5, ClimbLemma
    <3>2. QED BY <2>1, <3>1
  <2>7. g[n + 1] = ss[1] \o h[n]
    BY <2>6 DEF G
  <2>8. QED BY <1>2, <1>3, <2>2, <2>7 DEF t
<1>7. QED BY <1>5, <1>6

(* FlattenSeq of no piece, and that it is a sequence.                      *)
LEMMA FlattenType ==
  ASSUME NEW S, NEW ss \in Seq(Seq(S))
  PROVE  FlattenSeq(ss) \in Seq(S) /\ (ss = <<>> => FlattenSeq(ss) = <<>>)
<1>1. ASSUME ss = <<>> PROVE FlattenSeq(ss) = <<>>
  BY <1>1 DEF FlattenSeq
<1>2. ASSUME ss # <<>> PROVE FlattenSeq(ss) \in Seq(S)
  <2>1. PICK g \in [1 .. Len(ss) -> Seq(S)] : FlattenSeq(ss) = g[Len(ss)]
    BY <1>2, JoinLemma
  <2>2. Len(ss) \in 1 .. Len(ss)
    BY <1>2, EmptySeq
  <2>3. QED BY <2>1, <2>2
<1>3. <<>> \in Seq(S)
  OBVIOUS
<1>4. QED BY <1>1, <1>2, <1>3

(* What the messages of a queue hold, one after the other, when f says     *)
(* what each of them holds.                                                *)
Joined(q, f) == FlattenSeq(Carried(q, f))

(* A send puts what the message holds behind the rest, a receive takes     *)
(* what its message holds from the front, and what other messages hold     *)
(* makes no difference.                                                    *)
LEMMA JoinedLemma ==
  ASSUME NEW S, NEW T, NEW f \in [S -> Seq(T)]
  PROVE  /\ \A q \in Seq(S) :
              /\ Joined(q, f) \in Seq(T)
              /\ \A e \in S : Joined(Append(q, e), f) = Joined(q, f) \o f[e]
              /\ q # <<>> => Joined(q, f) = f[Head(q)] \o Joined(Tail(q), f)
              /\ \A g : (\A x \in ToSet(q) : g[x] = f[x]) => Joined(q, g) = Joined(q, f)
         /\ Joined(<<>>, f) = <<>>
<1>0. Joined(<<>>, f) = <<>>
  <2>1. Carried(<<>>, f) = <<>>
    <3>1. <<>> \in Seq(S) /\ <<>> \in Seq(Seq(T))
      OBVIOUS
    <3>2. DOMAIN <<>> = {} /\ DOMAIN Carried(<<>>, f) = {}
      BY DEF Carried
    <3>3. Carried(<<>>, f) \in Seq(Seq(T))
      BY <3>1, CarriedType
    <3>4. \A s \in Seq(Seq(T)) : DOMAIN s = {} => s = <<>>
      BY EmptySeq
    <3>5. QED BY <3>2, <3>3, <3>4
  <2>2. QED BY <2>1 DEF Joined, FlattenSeq
<1>a. \A q \in Seq(S) :
        /\ \A e \in S : Carried(Append(q, e), f) = Append(Carried(q, f), f[e])
        /\ q # <<>> => /\ Carried(q, f) # <<>>
                       /\ Head(Carried(q, f)) = f[Head(q)]
                       /\ Carried(Tail(q), f) = Tail(Carried(q, f))
        /\ \A g : (\A x \in ToSet(q) : g[x] = f[x]) => Carried(q, g) = Carried(q, f)
  <2>1. ASSUME NEW q \in Seq(S), NEW e \in S
        PROVE  Carried(Append(q, e), f) = Append(Carried(q, f), f[e])
    BY CarriedLemma
  <2>2. ASSUME NEW q \in Seq(S), q # <<>>
        PROVE  /\ Carried(q, f) # <<>> /\ Head(Carried(q, f)) = f[Head(q)]
               /\ Carried(Tail(q), f) = Tail(Carried(q, f))
    BY <2>2, CarriedLemma
  <2>3. ASSUME NEW q \in Seq(S), NEW g, \A x \in ToSet(q) : g[x] = f[x]
        PROVE  Carried(q, g) = Carried(q, f)
    BY <2>3, CarriedLemma
  <2>4. QED BY <2>1, <2>2, <2>3, Zenon
<1> SUFFICES ASSUME NEW q \in Seq(S)
             PROVE  /\ Joined(q, f) \in Seq(T)
                    /\ \A e \in S : Joined(Append(q, e), f) = Joined(q, f) \o f[e]
                    /\ q # <<>> => Joined(q, f) = f[Head(q)] \o Joined(Tail(q), f)
                    /\ \A g : (\A x \in ToSet(q) : g[x] = f[x]) => Joined(q, g) = Joined(q, f)
  BY <1>0
<1> DEFINE c == Carried(q, f)
<1>1. c \in Seq(Seq(T))
  BY CarriedType
<1>2. /\ \A e \in S : Carried(Append(q, e), f) = Append(c, f[e])
      /\ q # <<>> => c # <<>> /\ Head(c) = f[Head(q)] /\ Carried(Tail(q), f) = Tail(c)
      /\ \A g : (\A x \in ToSet(q) : g[x] = f[x]) => Carried(q, g) = c
  BY <1>a
<1> HIDE DEF c
<1>3. FlattenSeq(c) \in Seq(T)
  BY <1>1, FlattenType
<1>5. ASSUME NEW e \in S PROVE FlattenSeq(Append(c, f[e])) = FlattenSeq(c) \o f[e]
  BY <1>1, FlattenAppend
<1>6. ASSUME q # <<>> PROVE FlattenSeq(c) = f[Head(q)] \o FlattenSeq(Tail(c))
  <2>1. FlattenSeq(c) = Head(c) \o FlattenSeq(Tail(c))
    BY <1>1, <1>2, <1>6, FlattenTail
  <2>2. QED BY <1>2, <1>6, <2>1
<1>7. QED BY <1>2, <1>3, <1>5, <1>6, Zenon DEF Joined, c

(* The first messages of a queue and the one after them.                   *)
LEMMA PrefixLemma ==
  ASSUME NEW S, NEW q \in Seq(S), NEW k \in 1 .. Len(q)
  PROVE  /\ SubSeq(q, 1, k) = Append(SubSeq(q, 1, k - 1), q[k])
         /\ SubSeq(q, 1, k - 1) \in Seq(S) /\ q[k] \in S
<1>1. SubSeq(q, 1, k) = SubSeq(q, 1, k - 1) \o <<q[k]>>
  BY SubSeqRecursiveSecond
<1>2. q[k] \in S /\ \A i \in 1 .. k - 1 : q[i] \in S
  OBVIOUS
<1>3. PICK p \in Seq(S) : p = SubSeq(q, 1, k - 1)
  <2>1. k - 1 \in Int /\ 1 \in Int
    OBVIOUS
  <2>2. SubSeq(q, 1, k - 1) \in Seq(S)
    BY <1>2, <2>1, SubSeqProperties
  <2>3. QED BY <2>2
<1>4. PICK e \in S : e = q[k]
  BY <1>2
<1>5. p \o <<e>> = Append(p, e)
  OBVIOUS
<1>6. QED BY <1>1, <1>3, <1>4, <1>5

(* Two queues, one behind the other.                                       *)
LEMMA JoinedConcat ==
  ASSUME NEW S, NEW T, NEW f \in [S -> Seq(T)]
  PROVE  \A a, b \in Seq(S) : Joined(a \o b, f) = Joined(a, f) \o Joined(b, f)
<1>a. \A x, y, z \in Seq(S) : (x \o y) \o z = x \o (y \o z)
  BY AssociativeLemma, SMTT(30)
<1>b. \A x, y, z \in Seq(T) : (x \o y) \o z = x \o (y \o z)
  BY AssociativeLemma, SMTT(30)
<1>c. \A q \in Seq(S) : /\ Joined(q, f) \in Seq(T)
                       /\ \A e \in S : Joined(Append(q, e), f) = Joined(q, f) \o f[e]
  BY JoinedLemma
<1> TAKE a, b \in Seq(S)
<1> DEFINE p(k) == SubSeq(b, 1, k - 1)
           G == {k \in 1 .. Len(b) + 1 : p(k) \in Seq(S)
                   /\ Joined(a \o p(k), f) = Joined(a, f) \o Joined(p(k), f)}
<1>1. Joined(a, f) \in Seq(T)
  BY JoinedLemma
<1>2. 1 \in G
  <2>1. p(1) = <<>> /\ p(1) \in Seq(S)
    <3>1. 0 \in Int /\ 1 \in Int /\ 0 < 1 /\ 1 - 1 = 0 /\ <<>> \in Seq(S)
      OBVIOUS
    <3>2. SubSeq(b, 1, 0) = <<>>
      BY <3>1, SubSeqEmpty
    <3>3. QED BY <3>1, <3>2
  <2>2. Joined(<<>>, f) = <<>>
    BY JoinedLemma
  <2>3. a \o <<>> = a /\ Joined(a, f) \o <<>> = Joined(a, f)
    BY <1>1, ConcatEmptySeq
  <2>4. 1 \in 1 .. Len(b) + 1
    OBVIOUS
  <2> HIDE DEF p
  <2>5. QED BY <2>1, <2>2, <2>3, <2>4
<1>3. ASSUME NEW k \in 1 .. Len(b) + 1, k # Len(b) + 1, k \in G PROVE k + 1 \in G
  <2>1. k \in 1 .. Len(b) /\ k + 1 \in 1 .. Len(b) + 1 /\ k + 1 - 1 = k
    BY <1>3
  <2>2. PICK c \in Seq(S) : c = p(k) /\ Joined(a \o c, f) = Joined(a, f) \o Joined(c, f)
    BY <1>3
  <2>3. PICK e \in S : p(k + 1) = Append(c, e)
    BY <2>1, <2>2, PrefixLemma
  <2>4. a \o Append(c, e) = Append(a \o c, e) /\ a \o c \in Seq(S) /\ Append(c, e) \in Seq(S)
    <3>1. Append(c, e) = c \o <<e>> /\ <<e>> \in Seq(S)
      OBVIOUS
    <3>2. PICK u \in Seq(S) : u = <<e>>
      BY <3>1
    <3>3. a \o (c \o u) = (a \o c) \o u /\ a \o c \in Seq(S)
      <4>1. a \o (c \o u) = (a \o c) \o u
        BY <1>a, Zenon
      <4>2. QED BY <4>1, ConcatProperties
    <3>4. PICK d \in Seq(S) : d = a \o c
      BY <3>3
    <3>5. Append(d, e) = d \o <<e>>
      OBVIOUS
    <3>6. QED BY <3>1, <3>2, <3>3, <3>4, <3>5, SMTT(30)
  <2>5. /\ Joined(Append(a \o c, e), f) = Joined(a \o c, f) \o f[e]
        /\ Joined(Append(c, e), f) = Joined(c, f) \o f[e]
    BY <2>4, <1>c, Zenon
  <2>6. (Joined(a, f) \o Joined(c, f)) \o f[e] = Joined(a, f) \o (Joined(c, f) \o f[e])
    <3>1. f[e] \in Seq(T) /\ Joined(c, f) \in Seq(T)
      BY JoinedLemma
    <3>2. QED BY <1>1, <3>1, <1>b, Zenon
  <2>7. Joined(a \o Append(c, e), f) = Joined(a, f) \o Joined(Append(c, e), f)
    BY <2>2, <2>4, <2>5, <2>6, Zenon
  <2> HIDE DEF p
  <2>8. QED BY <2>1, <2>3, <2>4, <2>7
<1> HIDE DEF G
<1>4. Len(b) + 1 \in Nat /\ Len(b) + 1 \in 1 .. Len(b) + 1 /\ Len(b) + 1 - 1 = Len(b)
  OBVIOUS
<1>5. Len(b) + 1 \in G
  <2>1. \A k \in 1 .. Len(b) + 1 : k \in G
    BY <1>2, <1>3, <1>4, ClimbLemma
  <2>2. QED BY <2>1, <1>4
<1>6. p(Len(b) + 1) = b
  BY <1>4, SubSeqFull
<1>7. QED BY <1>5, <1>6 DEF G

(* Messages that hold nothing.                                             *)
LEMMA JoinedQuiet ==
  ASSUME NEW S, NEW T, NEW f \in [S -> Seq(T)]
  PROVE  \A q \in Seq(S) : (\A x \in ToSet(q) : f[x] = <<>>) => Joined(q, f) = <<>>
<1>a. \A s \in Seq(S), e \in S : Joined(Append(s, e), f) = Joined(s, f) \o f[e]
  BY JoinedLemma, SMTT(30)
<1> TAKE q \in Seq(S)
<1> HAVE \A x \in ToSet(q) : f[x] = <<>>
<1> DEFINE p(k) == SubSeq(q, 1, k - 1)
           G == {k \in 1 .. Len(q) + 1 : p(k) \in Seq(S) /\ Joined(p(k), f) = <<>>}
<1>1. 1 \in G
  <2>1. p(1) = <<>> /\ p(1) \in Seq(S)
    <3>1. 0 \in Int /\ 1 \in Int /\ 0 < 1 /\ 1 - 1 = 0 /\ <<>> \in Seq(S)
      OBVIOUS
    <3>2. SubSeq(q, 1, 0) = <<>>
      BY <3>1, SubSeqEmpty
    <3>3. QED BY <3>1, <3>2
  <2>2. Joined(<<>>, f) = <<>>
    BY JoinedLemma
  <2>3. 1 \in 1 .. Len(q) + 1
    OBVIOUS
  <2> HIDE DEF p
  <2>4. QED BY <2>1, <2>2, <2>3
<1>2. ASSUME NEW k \in 1 .. Len(q) + 1, k # Len(q) + 1, k \in G PROVE k + 1 \in G
  <2>1. k \in 1 .. Len(q) /\ k + 1 \in 1 .. Len(q) + 1 /\ k + 1 - 1 = k
    BY <1>2
  <2>2. PICK c \in Seq(S) : c = p(k) /\ Joined(c, f) = <<>>
    BY <1>2
  <2>3. PICK e \in S : p(k + 1) = Append(c, e) /\ e = q[k]
    BY <2>1, <2>2, PrefixLemma
  <2>4. f[e] = <<>>
    BY <2>1, <2>3 DEF ToSet
  <2>5. Joined(Append(c, e), f) = Joined(c, f) \o f[e]
    BY <1>a, Zenon
  <2>6. Joined(Append(c, e), f) = <<>> /\ Append(c, e) \in Seq(S)
    BY <2>2, <2>4, <2>5
  <2> HIDE DEF p
  <2>7. QED BY <2>1, <2>3, <2>6
<1> HIDE DEF G
<1>3. Len(q) + 1 \in Nat /\ Len(q) + 1 \in 1 .. Len(q) + 1 /\ Len(q) + 1 - 1 = Len(q)
  OBVIOUS
<1>4. Len(q) + 1 \in G
  <2>1. \A k \in 1 .. Len(q) + 1 : k \in G
    BY <1>1, <1>2, <1>3, ClimbLemma
  <2>2. QED BY <2>1, <1>3
<1>5. p(Len(q) + 1) = q
  BY <1>3, SubSeqFull
<1>6. QED BY <1>4, <1>5 DEF G

(* The first n messages of a queue and the others.                         *)
LEMMA SplitLemma ==
  ASSUME NEW S, NEW q \in Seq(S), NEW n \in 0 .. Len(q)
  PROVE  /\ SubSeq(q, 1, n) \in Seq(S) /\ SubSeq(q, n + 1, Len(q)) \in Seq(S)
         /\ SubSeq(q, 1, n) \o SubSeq(q, n + 1, Len(q)) = q
         /\ Len(SubSeq(q, 1, n)) = n /\ Len(SubSeq(q, n + 1, Len(q))) = Len(q) - n
<1>1. Len(q) \in Nat /\ \A i \in 1 .. Len(q) : q[i] \in S
  OBVIOUS
<1>2. SubSeq(q, 1, n) \in Seq(S) /\ Len(SubSeq(q, 1, n)) = n
  <2>1. \A i \in 1 .. n : q[i] \in S
    BY <1>1
  <2>2. QED BY <1>1, <2>1, SubSeqProperties
<1>3. SubSeq(q, n + 1, Len(q)) \in Seq(S) /\ Len(SubSeq(q, n + 1, Len(q))) = Len(q) - n
  <2>1. \A i \in n + 1 .. Len(q) : q[i] \in S
    BY <1>1
  <2>2. n + 1 \in Int /\ Len(q) \in Int
    BY <1>1
  <2>3. QED BY <1>1, <2>1, <2>2, SubSeqProperties
<1>4. SubSeq(q, 1, n) \o SubSeq(q, n + 1, Len(q)) = SubSeq(q, 1, Len(q))
  <2>1. 1 \in 1 .. Len(q) + 1 /\ n \in 1 - 1 .. Len(q) /\ Len(q) \in n .. Len(q)
    BY <1>1
  <2>2. QED BY <2>1, ConcatAdjacentSubSeq
<1>5. QED BY <1>2, <1>3, <1>4, SubSeqFull

(* The same of all queues, for the messages that carry what f says.        *)
Joins(S, T, f) ==
  \A q \in Seq(S) :
    /\ Joined(q, f) \in Seq(T)
    /\ \A e \in S : Joined(Append(q, e), f) = Joined(q, f) \o f[e]
    /\ q # <<>> => Joined(q, f) = f[Head(q)] \o Joined(Tail(q), f)
    /\ \A g : (\A x \in ToSet(q) : g[x] = f[x]) => Joined(q, g) = Joined(q, f)

(* All of this holds of messages whose contents are sequences.             *)
LEMMA JoinsLemma ==
  ASSUME NEW S, NEW T, NEW f \in [S -> Seq(T)]
  PROVE  Joins(S, T, f)
BY JoinedLemma, Zenon DEF Joins

(* Two ways to divide a queue at the same place are the same.              *)
LEMMA CancelLemma ==
  ASSUME NEW S
  PROVE  \A x, y, v, w \in Seq(S) :
           x \o v = y \o w /\ Len(x) = Len(y) /\ Len(v) = Len(w) => x = y /\ v = w
<1> SUFFICES ASSUME NEW x \in Seq(S), NEW y \in Seq(S), NEW v \in Seq(S), NEW w \in Seq(S),
                    x \o v = y \o w, Len(x) = Len(y), Len(v) = Len(w)
             PROVE  x = y /\ v = w
  OBVIOUS
<1>1. PICK M \in Nat, N \in Nat : M = Len(x) /\ N = Len(v)
  OBVIOUS
<1>2. /\ \A k \in 1 .. M + N : (x \o v)[k] = IF k <= M THEN x[k] ELSE v[k - M]
      /\ \A k \in 1 .. M + N : (y \o w)[k] = IF k <= M THEN y[k] ELSE w[k - M]
  BY <1>1, ConcatProperties
<1>3. x = y
  <2>1. ASSUME NEW k \in 1 .. M PROVE x[k] = y[k]
    <3>1. k \in 1 .. M + N /\ k <= M
      OBVIOUS
    <3>2. QED BY <1>2, <3>1
  <2>2. QED BY <1>1, <2>1, SeqEqual
<1>4. v = w
  <2>1. ASSUME NEW k \in 1 .. N PROVE v[k] = w[k]
    <3>1. M + k \in 1 .. M + N /\ ~(M + k <= M) /\ (M + k) - M = k
      OBVIOUS
    <3>2. QED BY <1>2, <3>1
  <2>2. QED BY <1>1, <2>1, SeqEqual
<1>5. QED BY <1>3, <1>4
-----------------------------------------------------------------------------
(* The places before and after a step of what is in a queue both times;    *)
(* q is the queue before it and r the queue after it.                      *)
Moves(q, r) == {p \in (DOMAIN q) \X (DOMAIN r) : q[p[1]] = r[p[2]]}

(* A send leaves what waits where it is, and a receive brings it forward.  *)
LEMMA MovesLemma ==
  ASSUME NEW S, NEW q \in Seq(S), IsInjective(q)
  PROVE  /\ \A p \in Moves(q, q) : p[1] \in Nat /\ p[2] = p[1]
         /\ \A e \in S : e \notin ToSet(q) =>
              \A p \in Moves(q, Append(q, e)) : p[1] \in Nat /\ p[2] = p[1]
         /\ q # <<>> => \A p \in Moves(q, Tail(q)) : p[1] \in Nat /\ p[2] = p[1] - 1
<1>1. Len(q) \in Nat /\ DOMAIN q = 1 .. Len(q)
  OBVIOUS
<1>2. ASSUME NEW r, NEW p \in Moves(q, r)
      PROVE  \E k \in DOMAIN q, l \in DOMAIN r :
               p = <<k, l>> /\ p[1] = k /\ p[2] = l /\ q[k] = r[l]
  BY DEF Moves
<1>3. ASSUME NEW p \in Moves(q, q) PROVE p[1] \in Nat /\ p[2] = p[1]
  <2>1. PICK k \in DOMAIN q, l \in DOMAIN q : p[1] = k /\ p[2] = l /\ q[k] = q[l]
    BY <1>2
  <2>2. QED BY <1>1, <2>1 DEF IsInjective
<1>4. ASSUME NEW e \in S, e \notin ToSet(q), NEW p \in Moves(q, Append(q, e))
      PROVE  p[1] \in Nat /\ p[2] = p[1]
  <2>1. PICK r \in Seq(S) : r = Append(q, e)
    BY AppendProperties
  <2>2. /\ Len(r) = Len(q) + 1
        /\ \A j \in 1 .. Len(q) : r[j] = q[j]
        /\ r[Len(q) + 1] = e
    BY <2>1, AppendProperties
  <2>3. PICK k \in DOMAIN q, l \in DOMAIN r : p[1] = k /\ p[2] = l /\ q[k] = r[l]
    <3>1. p \in Moves(q, r)
      BY <1>4, <2>1
    <3>2. QED BY <1>2, <3>1
  <2>4. DOMAIN r = 1 .. Len(r)
    BY <2>1
  <2>5. q[k] \in ToSet(q)
    BY <2>3 DEF ToSet
  <2>6. l \in 1 .. Len(q)
    BY <1>1, <1>4, <2>2, <2>3, <2>4, <2>5
  <2>7. QED BY <1>1, <2>2, <2>3, <2>6 DEF IsInjective
<1>5. ASSUME q # <<>>, NEW p \in Moves(q, Tail(q)) PROVE p[1] \in Nat /\ p[2] = p[1] - 1
  <2>1. PICK k \in DOMAIN q, l \in DOMAIN Tail(q) : p[1] = k /\ p[2] = l /\ q[k] = Tail(q)[l]
    BY <1>2
  <2>2. /\ DOMAIN Tail(q) = 1 .. (Len(q) - 1)
        /\ \A j \in 1 .. (Len(q) - 1) : Tail(q)[j] = q[j + 1]
    BY <1>1, <1>5
  <2>3. l + 1 \in DOMAIN q /\ q[k] = q[l + 1]
    BY <1>1, <2>1, <2>2
  <2>4. k = l + 1
    BY <1>1, <2>1, <2>3 DEF IsInjective
  <2>5. QED BY <1>1, <2>1, <2>2, <2>4
<1>6. QED BY <1>3, <1>4, <1>5
=============================================================================
