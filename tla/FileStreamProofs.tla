-------------------------- MODULE FileStreamProofs --------------------------
(***************************************************************************)
(* Proofs about FileStream.  For any files, sizes, pool, requests and      *)
(* skips, and with reads that fail or not: no node leaks but those of the  *)
(* sessions that a failed read ended, the big buffer never overflows, a    *)
(* close leaves nothing behind, the caller sees the bytes of its file in   *)
(* order with none missing or repeated, and the service is that of a plain *)
(* file (ByteStream).  A call can go on until a read fails, and each step  *)
(* brings its end nearer.  Only that it can go on rests on the priorities  *)
(* of the tasks: elsewhere the caller may run at any step.                 *)
(***************************************************************************)
EXTENDS FileStream, QueueLemmas

-----------------------------------------------------------------------------
(* The bytes of a file and of the nodes.                                   *)

Octets == Files \X Nat
Nodes == [data : {d \in Seq(Octets) : Len(d) <= Small}, last : BOOLEAN]

(* The data of queued nodes, and all of it that is queued, in order.       *)
Datas(q) == [i \in DOMAIN q |-> q[i].data]
Rest == FlattenSeq(Datas(data_active))

(* n bytes of a file are a sequence of n bytes.                            *)
LEMMA BytesLemma ==
  ASSUME NEW f \in Files, NEW p \in Nat, NEW n \in Nat
  PROVE  /\ Bytes(f, p, n) \in Seq(Octets) /\ Len(Bytes(f, p, n)) = n
         /\ \A i \in 1 .. n : Bytes(f, p, n)[i] = <<f, p + i>>
<1>1. Bytes(f, p, n) \in [1 .. n -> Octets]
  <2>1. \A i \in 1 .. n : p + i \in Nat
    OBVIOUS
  <2>2. QED BY <2>1 DEF Bytes, Octets
<1>2. QED BY <1>1 DEF Bytes

(* Bytes of a file and the bytes behind them are bytes of that file ...    *)
LEMMA BytesJoin ==
  ASSUME NEW f \in Files, NEW p \in Nat, NEW m \in Nat, NEW n \in Nat
  PROVE  Bytes(f, p, m) \o Bytes(f, p + m, n) = Bytes(f, p, m + n)
<1> DEFINE x == Bytes(f, p, m)
           y == Bytes(f, p + m, n)
           z == Bytes(f, p, m + n)
<1>1. x \in Seq(Octets) /\ Len(x) = m /\ \A i \in 1 .. m : x[i] = <<f, p + i>>
  BY BytesLemma
<1>2. y \in Seq(Octets) /\ Len(y) = n /\ \A i \in 1 .. n : y[i] = <<f, p + m + i>>
  <2>1. p + m \in Nat
    OBVIOUS
  <2>2. QED BY <2>1, BytesLemma
<1>3. z \in Seq(Octets) /\ Len(z) = m + n /\ \A i \in 1 .. m + n : z[i] = <<f, p + i>>
  <2>1. m + n \in Nat
    OBVIOUS
  <2>2. QED BY <2>1, BytesLemma
<1> HIDE DEF x, y, z
<1>4. x \o y \in Seq(Octets) /\ Len(x \o y) = m + n
      /\ \A i \in 1 .. m + n : (x \o y)[i] = IF i <= m THEN x[i] ELSE y[i - m]
  BY <1>1, <1>2, ConcatProperties
<1>5. ASSUME NEW i \in 1 .. m + n PROVE (x \o y)[i] = z[i]
  <2>1. CASE i <= m
    <3>1. i \in 1 .. m
      BY <2>1
    <3>2. (x \o y)[i] = x[i]
      BY <1>4, <2>1
    <3>3. x[i] = <<f, p + i>>
      BY <1>1, <3>1
    <3>4. QED BY <1>3, <3>2, <3>3
  <2>2. CASE ~(i <= m)
    <3>1. i - m \in 1 .. n /\ p + m + (i - m) = p + i
      BY <2>2
    <3>2. PICK j \in 1 .. n : j = i - m /\ p + m + j = p + i
      BY <3>1
    <3>3. (x \o y)[i] = y[j]
      BY <1>4, <2>2, <3>2
    <3>4. y[j] = <<f, p + i>>
      BY <1>2, <3>2
    <3>5. QED BY <1>3, <3>3, <3>4
  <2>3. QED BY <2>1, <2>2
<1>6. x \o y = z
  BY <1>3, <1>4, <1>5, SeqEqual
<1>7. QED BY <1>6 DEF x, y, z

(* ... and so are the parts, wherever they are cut in two.                 *)
LEMMA BytesSplit ==
  ASSUME NEW f \in Files, NEW p \in Nat, NEW x \in Seq(Octets), NEW y \in Seq(Octets),
         x \o y = Bytes(f, p, Len(x) + Len(y))
  PROVE  x = Bytes(f, p, Len(x)) /\ y = Bytes(f, p + Len(x), Len(y))
<1>1. PICK m \in Nat, n \in Nat : m = Len(x) /\ n = Len(y)
  OBVIOUS
<1> DEFINE z == Bytes(f, p, m + n)
           u == Bytes(f, p, m)
           v == Bytes(f, p + m, n)
<1>2. z \in Seq(Octets) /\ Len(z) = m + n /\ \A i \in 1 .. m + n : z[i] = <<f, p + i>>
  <2>1. m + n \in Nat
    OBVIOUS
  <2>2. QED BY <2>1, BytesLemma
<1>3. u \in Seq(Octets) /\ Len(u) = m /\ \A i \in 1 .. m : u[i] = <<f, p + i>>
  BY BytesLemma
<1>4. v \in Seq(Octets) /\ Len(v) = n /\ \A i \in 1 .. n : v[i] = <<f, p + m + i>>
  <2>1. p + m \in Nat
    OBVIOUS
  <2>2. QED BY <2>1, BytesLemma
<1>5. x \o y = z
  BY <1>1
<1> HIDE DEF z, u, v
<1>6. \A i \in 1 .. m + n : z[i] = IF i <= m THEN x[i] ELSE y[i - m]
  <2>1. \A i \in 1 .. Len(x) + Len(y) :
          (x \o y)[i] = IF i <= Len(x) THEN x[i] ELSE y[i - Len(x)]
    BY ConcatProperties
  <2>2. QED BY <1>1, <1>5, <2>1
<1>7. ASSUME NEW i \in 1 .. m PROVE x[i] = u[i]
  <2>1. i \in 1 .. m + n /\ i <= m
    OBVIOUS
  <2>2. z[i] = x[i] /\ z[i] = <<f, p + i>>
    BY <1>2, <1>6, <2>1
  <2>3. QED BY <1>3, <2>2
<1>8. ASSUME NEW i \in 1 .. n PROVE y[i] = v[i]
  <2>1. i + m \in 1 .. m + n /\ ~(i + m <= m) /\ i + m - m = i /\ p + m + i = p + (i + m)
    OBVIOUS
  <2>2. z[i + m] = y[i]
    BY <1>6, <2>1, SMTT(30)
  <2>3. z[i + m] = <<f, p + (i + m)>>
    BY <1>2, <2>1
  <2>4. QED BY <1>4, <2>1, <2>2, <2>3
<1>9. x = u /\ y = v
  <2>1. x = u
    BY <1>1, <1>3, <1>7, SeqEqual
  <2>2. y = v
    BY <1>1, <1>4, <1>8, SeqEqual
  <2>3. QED BY <2>1, <2>2
<1>10. QED BY <1>1, <1>9 DEF u, v

(* The first k of n bytes, and the n - k behind them.                      *)
LEMMA BytesCut ==
  ASSUME NEW f \in Files, NEW p \in Nat, NEW n \in Nat, NEW k \in 0 .. n
  PROVE  /\ SubSeq(Bytes(f, p, n), k + 1, n) = Bytes(f, p + k, n - k)
         /\ SubSeq(Bytes(f, p, n), 1, k) = Bytes(f, p, k)
<1>1. k \in Nat /\ p + k \in Nat /\ n - k \in Nat /\ k + (n - k) = n
  OBVIOUS
<1>2. SubSeq(Bytes(f, p, n), 1, k) = Bytes(f, p, k)
  BY <1>1, \A i \in 1 .. k : i \in 1 .. n, BytesLemma DEF Bytes
<1>3. SubSeq(Bytes(f, p, n), k + 1, n) = Bytes(f, p + k, n - k)
  <2>1. \A i \in 1 .. n - k : k + 1 + i - 1 \in 1 .. n /\ p + (k + 1 + i - 1) = p + k + i
    BY <1>1
  <2>2. QED BY <1>1, <2>1, BytesLemma DEF Bytes
<1>4. QED BY <1>2, <1>3

(* A node more and a node less, in what is queued.                         *)
LEMMA DatasLemma ==
  ASSUME NEW q \in Seq(Nodes)
  PROVE  /\ Datas(q) \in Seq(Seq(Octets))
         /\ FlattenSeq(Datas(q)) \in Seq(Octets)
         /\ q = <<>> => FlattenSeq(Datas(q)) = <<>>
         /\ \A e \in Nodes :
              FlattenSeq(Datas(Append(q, e))) = FlattenSeq(Datas(q)) \o e.data
         /\ q # <<>> => FlattenSeq(Datas(q)) = Head(q).data \o FlattenSeq(Datas(Tail(q)))
<1>1. \A e \in Nodes : e.data \in Seq(Octets)
  BY DEF Nodes
<1>2. Len(q) \in Nat /\ DOMAIN q = 1 .. Len(q) /\ \A i \in 1 .. Len(q) : q[i] \in Nodes
  OBVIOUS
<1>3. Datas(q) \in [1 .. Len(q) -> Seq(Octets)]
  BY <1>1, <1>2 DEF Datas
<1>4. /\ Datas(q) \in Seq(Seq(Octets)) /\ Len(Datas(q)) = Len(q)
      /\ \A i \in 1 .. Len(q) : Datas(q)[i] = q[i].data
  BY <1>2, <1>3 DEF Datas
<1>5. FlattenSeq(Datas(q)) \in Seq(Octets)
  BY <1>4, FlattenType
<1>6. q = <<>> => FlattenSeq(Datas(q)) = <<>>
  <2>1. q = <<>> => Datas(q) = <<>>
    BY <1>4, EmptySeq
  <2>2. QED BY <1>4, <2>1, FlattenType
<1>7. ASSUME NEW e \in Nodes
      PROVE  FlattenSeq(Datas(Append(q, e))) = FlattenSeq(Datas(q)) \o e.data
  <2> DEFINE r == Append(q, e)
             d == e.data
  <2>1. /\ r \in Seq(Nodes) /\ Len(r) = Len(q) + 1 /\ DOMAIN r = 1 .. Len(q) + 1
        /\ \A i \in 1 .. Len(q) : r[i] = q[i]
        /\ r[Len(q) + 1] = e
    BY <1>2, AppendProperties
  <2> HIDE DEF r
  <2>2. d \in Seq(Octets)
    BY <1>1
  <2>3. /\ Datas(r) \in Seq(Seq(Octets)) /\ Len(Datas(r)) = Len(q) + 1
        /\ \A i \in 1 .. Len(q) + 1 : Datas(r)[i] = r[i].data
    <3>1. \A i \in 1 .. Len(q) + 1 : r[i] \in Nodes
      BY <2>1, <1>2
    <3>2. Datas(r) \in [1 .. Len(q) + 1 -> Seq(Octets)]
      BY <1>1, <2>1, <3>1 DEF Datas
    <3>3. QED BY <1>2, <2>1, <3>2 DEF Datas
  <2>4. /\ Append(Datas(q), d) \in Seq(Seq(Octets)) /\ Len(Append(Datas(q), d)) = Len(q) + 1
        /\ \A i \in 1 .. Len(q) : Append(Datas(q), d)[i] = Datas(q)[i]
        /\ Append(Datas(q), d)[Len(q) + 1] = d
    BY <1>4, <2>2, AppendProperties
  <2>5. ASSUME NEW i \in 1 .. Len(q) + 1 PROVE Datas(r)[i] = Append(Datas(q), d)[i]
    <3>1. Datas(r)[i] = r[i].data
      BY <2>3
    <3>2. CASE i \in 1 .. Len(q)
      BY <1>4, <2>1, <2>4, <3>1, <3>2
    <3>3. CASE i = Len(q) + 1
      BY <2>1, <2>4, <3>1, <3>3
    <3>4. i \in 1 .. Len(q) \/ i = Len(q) + 1
      BY <1>2
    <3>5. QED BY <3>2, <3>3, <3>4, Zenon
  <2>6. Datas(r) = Append(Datas(q), d)
    <3> HIDE DEF d
    <3>1. QED BY <2>3, <2>4, <2>5, SeqEqual
  <2>7. FlattenSeq(Append(Datas(q), d)) = FlattenSeq(Datas(q)) \o d
    BY <1>4, <2>2, FlattenAppend
  <2>8. QED BY <2>6, <2>7 DEF r
<1>8. ASSUME q # <<>>
      PROVE  FlattenSeq(Datas(q)) = Head(q).data \o FlattenSeq(Datas(Tail(q)))
  <2>1. /\ Tail(q) \in Seq(Nodes) /\ Len(Tail(q)) = Len(q) - 1
        /\ DOMAIN Tail(q) = 1 .. Len(q) - 1 /\ Len(q) > 0 /\ Head(q) = q[1]
        /\ \A i \in 1 .. Len(q) - 1 : Tail(q)[i] = q[i + 1]
    BY <1>2, <1>8, HeadTailProperties, EmptySeq
  <2>2. /\ Datas(q) # <<>> /\ Head(Datas(q)) = Head(q).data
        /\ Tail(Datas(q)) \in Seq(Seq(Octets)) /\ Len(Tail(Datas(q))) = Len(q) - 1
        /\ \A i \in 1 .. Len(q) - 1 : Tail(Datas(q))[i] = Datas(q)[i + 1]
    BY <1>4, <2>1, HeadTailProperties
  <2>3. /\ Datas(Tail(q)) \in Seq(Seq(Octets)) /\ Len(Datas(Tail(q))) = Len(q) - 1
        /\ \A i \in 1 .. Len(q) - 1 : Datas(Tail(q))[i] = Tail(q)[i].data
    <3>1. Len(q) - 1 \in Nat /\ \A i \in 1 .. Len(q) - 1 : Tail(q)[i] \in Nodes
      BY <2>1, <1>2
    <3>2. Datas(Tail(q)) \in [1 .. Len(q) - 1 -> Seq(Octets)]
      BY <1>1, <2>1, <3>1 DEF Datas
    <3>3. QED BY <2>1, <3>1, <3>2 DEF Datas
  <2>4. \A i \in 1 .. Len(q) - 1 : Datas(Tail(q))[i] = Tail(Datas(q))[i]
    BY <1>2, <1>4, <2>1, <2>2, <2>3
  <2>5. Datas(Tail(q)) = Tail(Datas(q))
    BY <2>2, <2>3, <2>4, SeqEqual
  <2>6. QED BY <1>4, <2>2, <2>5, FlattenTail
<1>9. QED BY <1>4, <1>5, <1>6, <1>7, <1>8

-----------------------------------------------------------------------------
(* The inductive invariant.                                                *)

(* Every node is somewhere.                                                *)
Counted == data_idle + Len(data_active) + (IF pc = "read" THEN 1 ELSE 0) + lost = NodeCount

(* The types, the nodes of the pool counted: NodesKept, with what is in    *)
(* the nodes and the big buffer.                                           *)
Types ==
  /\ command \in Commands /\ state \in {"IDLE", "STREAMING"}
  /\ data_active \in Seq(Nodes) /\ data_idle \in Nat /\ big \in Seq(Octets)
  /\ pc \in {"command", "open", "loop", "node", "read", "done"}
  /\ fd \in Files \cup {None} /\ bytes_left \in Nat
  /\ cpc \in {"out", "close", "drain", "ack", "flush", "open", "wait", "look", "take",
              "give", "holding"}
  /\ want \in 0 .. Big /\ skip \in Nat /\ wait \in BOOLEAN
  /\ opened \in Files \cup {None} /\ due \in Nat /\ got \in 0 .. Big /\ lost \in Nat
  /\ Counted

(* The invariant of the runs that Types stands for.                        *)
LEMMA TypesKeepNodes == Types => NodesKept
<1>1. SUFFICES ASSUME Types PROVE NodesKept
  OBVIOUS
<1>2. \A i \in DOMAIN data_active : data_active[i].last \in BOOLEAN
  <2>1. data_active \in Seq(Nodes)
    BY <1>1 DEF Types
  <2>2. \A i \in DOMAIN data_active : data_active[i] \in Nodes
    BY <2>1
  <2>3. QED BY <2>2 DEF Nodes
<1>3. data_idle \in 0 .. NodeCount
  BY <1>1, BufferAssumption DEF Types, Counted
<1>4. QED BY <1>1, <1>2, <1>3 DEF Types, Counted, NodesKept, TypeOK

(* The task: what the place it is at says of its file and of __state.      *)
TaskStage ==
  /\ pc \in {"command", "open"} <=> state = "IDLE"
  /\ pc \in {"node", "read"} => bytes_left > 0
  /\ pc \in {"command", "open", "done"} => bytes_left = 0
  /\ fd = None <=> pc = "command"
  /\ pc # "command" => bytes_left <= Size[fd]

(* A name has been sent and the task has not yet opened it.                *)
Sending == cpc = "wait" /\ ~(command.at = "idle" /\ command.cmd = "STREAMING")

(* The command message, by the stage of the caller's open or close: where  *)
(* it is, what it says, and what the task may then be doing.               *)
CallStage ==
  /\ cpc \in {"out", "close", "look", "take", "give", "holding"} =>
       command.at = "idle" /\ pc # "open"
  /\ cpc \in {"drain", "ack"} =>
       \/ command.at = "active" /\ command.cmd = "IDLE" /\ pc # "open"
       \/ command.at = "task" /\ pc = "done"
       \/ command.at = "idle" /\ pc = "command"
  /\ cpc \in {"flush", "open"} \/ (cpc = "out" /\ opened = None) =>
       command.at = "idle" /\ pc = "command"
  /\ cpc = "wait" =>
       \/ /\ command.at = "active" /\ command.cmd = "STREAMING"
          /\ command.name = opened /\ pc = "command"
       \/ command.at = "task" /\ pc = "open" /\ fd = opened
       \/ command.at = "idle" /\ command.cmd = "STREAMING" /\ pc # "open"
       \/ command.at = "idle" /\ command.cmd = "IDLE" /\ pc = "command"
  /\ cpc \in {"open", "wait", "look", "take", "give", "holding"} => opened # None
  /\ cpc = "open" \/ (cpc = "out" /\ opened = None) \/ Sending =>
       data_active = <<>> /\ big = <<>>

(* What a call waits for and what it has promised.                         *)
Wanted ==
  /\ cpc \in {"open", "wait"} => due = 0
  /\ cpc \notin {"look", "take", "give"} => skip = 0
  /\ cpc \in {"look", "take", "give"} => want > 0
  /\ skip > 0 => want <= skip
  /\ cpc \in {"look", "take"} => Len(big) < want
  /\ cpc = "holding" => got <= Len(big) /\ got <= want

(* Behind the node that says it is the last there is nothing, queued or    *)
(* unread; a call that has less than it waits for has all there is.        *)
LastOnes ==
  /\ \A i \in DOMAIN data_active :
       data_active[i].last => i = Len(data_active) /\ bytes_left = 0
  /\ cpc = "take" /\ ~wait => state = "IDLE"
  /\ cpc = "give" => Len(big) >= want \/ (data_active = <<>> /\ bytes_left = 0)

(* The task has opened the caller's file and not been told to stop.        *)
Live == opened # None /\ cpc \notin {"close", "drain", "ack", "flush", "open"} /\ ~Sending

(* The byte p is where the caller has got to; once it has skipped past the *)
(* end, less than a big buffer before the end, unless the skip is still on *)
(* its way there.                                                          *)
Reached(p) ==
  /\ due <= Size[opened] => p + skip <= due /\ (lost = 0 => p + skip = due)
  /\ due > Size[opened] /\ lost = 0 => p + skip > Size[opened] \/ Size[opened] - p < Big

(* The big buffer, the queued nodes and what the task has yet to read are  *)
(* the file from its byte p on.                                            *)
At(p) ==
  /\ big = Bytes(opened, p, Len(big))
  /\ Rest = Bytes(opened, p + Len(big), Len(Rest))
  /\ p + Len(big) + Len(Rest) + bytes_left <= Size[opened]
  /\ lost = 0 \/ bytes_left > 0 => p + Len(big) + Len(Rest) + bytes_left = Size[opened]
  /\ Reached(p)

Placed ==
  Live =>
    /\ pc # "command" => fd = opened
    /\ \E p \in Nat : At(p)

IInv == Types /\ TaskStage /\ CallStage /\ Wanted /\ LastOnes /\ Placed

(* fstream_init starts there.                                              *)
LEMMA InitHolds == Init => IInv
<1>1. SUFFICES ASSUME Init PROVE IInv
  OBVIOUS
<1>2. Types
  <2>1. command \in Commands
    BY <1>1 DEF Init, Commands
  <2>2. data_active \in Seq(Nodes) /\ big \in Seq(Octets) /\ Len(data_active) = 0
    BY <1>1 DEF Init
  <2>3. Counted
    BY <1>1, <2>2, BufferAssumption DEF Init, Counted
  <2>4. wait \in BOOLEAN
    BY <1>1, Zenon DEF Init
  <2>5. /\ state \in {"IDLE", "STREAMING"} /\ data_idle \in Nat /\ pc = "command"
        /\ fd \in Files \cup {None} /\ bytes_left \in Nat /\ cpc = "out"
        /\ want \in 0 .. Big /\ skip \in Nat /\ opened \in Files \cup {None}
        /\ due \in Nat /\ got \in 0 .. Big /\ lost \in Nat
    BY <1>1, BufferAssumption DEF Init
  <2>6. QED BY <2>1, <2>2, <2>3, <2>4, <2>5 DEF Types
<1>3. TaskStage /\ CallStage /\ Wanted /\ LastOnes /\ Placed
  BY <1>1 DEF Init, TaskStage, CallStage, Sending, Wanted, LastOnes, Placed, Live
<1>4. QED BY <1>2, <1>3 DEF IInv

(* Of what a release leaves of the big buffer.                             *)
LEMMA ReleasedLemma ==
  ASSUME Types, NEW n \in Nat
  PROVE  /\ Released(n) \in Seq(Octets)
         /\ Len(Released(n)) = IF n <= Len(big) THEN Len(big) - n ELSE Len(big)
<1>1. big \in Seq(Octets) /\ Len(big) \in Nat
  BY DEF Types
<1>2. CASE n <= Len(big)
  <2>1. /\ SubSeq(big, n + 1, Len(big)) \in Seq(Octets)
        /\ Len(SubSeq(big, n + 1, Len(big))) = Len(big) - n
    <3>1. PICK m \in 1 .. Len(big) + 1 : m = n + 1 /\ Len(big) \in m - 1 .. Len(big)
      BY <1>1, <1>2
    <3>2. /\ SubSeq(big, m, Len(big)) \in Seq(Octets)
          /\ Len(SubSeq(big, m, Len(big))) = IF m <= Len(big) THEN Len(big) - m + 1 ELSE 0
      BY <1>1, <3>1, SubSeqProperties
    <3>3. QED BY <1>1, <1>2, <3>1, <3>2
  <2>2. QED BY <1>2, <2>1 DEF Released
<1>3. CASE ~(n <= Len(big))
  BY <1>1, <1>3 DEF Released
<1>4. QED BY <1>2, <1>3

(* A node goes from the queue to the pool.                                 *)
LEMMA GivenBack ==
  ASSUME Counted, data_idle \in Nat, Len(data_active) \in Nat, lost \in Nat,
         data_idle' = data_idle + 1, Len(data_active') = Len(data_active) - 1,
         pc' = pc, lost' = lost
  PROVE  Counted'
BY DEF Counted

(* The task keeps the types and the nodes.                                 *)
LEMMA TaskTypes ==
  ASSUME IInv, Task
  PROVE  Types'
<1>1. /\ Types /\ TaskStage /\ command \in Commands
      /\ data_active \in Seq(Nodes) /\ big \in Seq(Octets) /\ lost \in Nat
      /\ Len(data_active) \in Nat
  BY DEF IInv, Types
<1> USE FileAssumption, BufferAssumption
<1>2. CASE TaskCommand
  <2>1. command' \in Commands /\ command.name \in Files \cup {None}
    BY <1>1, <1>2 DEF TaskCommand, Acknowledge, Commands
  <2>2. /\ fd' \in Files \cup {None} /\ pc = "command" /\ pc' \in {"command", "open"}
        /\ UNCHANGED <<state, dataVars, bytes_left, callVars, userVars, lost>>
    BY <1>1, <1>2, <2>1 DEF TaskCommand, Types
  <2>3. QED BY <1>1, <2>1, <2>2 DEF Types, Counted, dataVars, callVars, userVars
<1>3. CASE OpenFile
  <2>1. command' \in Commands
    BY <1>1, <1>3 DEF OpenFile, Acknowledge, Commands
  <2>2. /\ bytes_left' \in Nat /\ big' \in Seq(Octets) /\ state' \in {"IDLE", "STREAMING"}
        /\ pc = "open" /\ pc' \in {"command", "loop"} /\ fd' \in Files \cup {None}
    <3>1. pc = "open" /\ pc' \in {"command", "loop"} /\ fd \in Files /\ Size[fd] \in Nat
      BY <1>1, <1>3 DEF Types, OpenFile, TaskStage
    <3>2. state \in {"IDLE", "STREAMING"} /\ bytes_left \in Nat
      BY <1>1 DEF Types
    <3>3. CASE fd' = None /\ UNCHANGED <<state, big, bytes_left>>
      BY <1>1, <3>1, <3>2, <3>3
    <3>4. CASE bytes_left' = Size[fd] /\ big' = <<>> /\ state' = "STREAMING" /\ fd' = fd
      <4>1. big' \in Seq(Octets)
        BY <3>4
      <4>2. QED BY <3>1, <3>4, <4>1
    <3>5. QED BY <1>3, <3>3, <3>4 DEF OpenFile
  <2>3. UNCHANGED <<data_active, data_idle, callVars, userVars, lost>>
    BY <1>3 DEF Types, Counted, OpenFile
  <2>4. QED BY <1>1, <2>1, <2>2, <2>3 DEF Types, Counted, callVars, userVars
<1>4. CASE LoopHead
  <2>1. command' \in Commands
    BY <1>1, <1>4 DEF LoopHead, Commands
  <2>2. bytes_left' \in Nat /\ pc = "loop" /\ pc' \in {"done", "node"}
    BY <1>1, <1>4, SMTT(30) DEF Types, Counted, LoopHead
  <2>3. UNCHANGED <<state, dataVars, fd, callVars, userVars, lost>>
    BY <1>4 DEF Types, Counted, LoopHead
  <2>4. QED BY <1>1, <2>1, <2>2, <2>3 DEF Types, Counted, dataVars, callVars, userVars
<1>5. CASE TakeNode
  BY <1>1, <1>5 DEF Types, Counted, TakeNode, commandVars, callVars, userVars
<1>6. CASE ReadNode
  <2>1. UNCHANGED <<command, state, data_idle, big, fd, cpc, want, skip, wait, opened, due, got>>
    BY <1>6 DEF Types, Counted, ReadNode, commandVars, callVars, userVars
  <2>2. CASE bytes_left' = 0 /\ lost' = lost + 1 /\ UNCHANGED data_active
    BY <1>1, <1>6, <2>1, <2>2 DEF Types, Counted, ReadNode
  <2>3. CASE LET n == Requested IN
        /\ data_active' = Append(data_active,
             [data |-> Bytes(fd, Size[fd] - bytes_left, n), last |-> n = bytes_left])
        /\ bytes_left' = bytes_left - n
        /\ UNCHANGED lost
    <3> DEFINE n == Requested
               d == Bytes(fd, Size[fd] - bytes_left, n)
               e == [data |-> d, last |-> n = bytes_left]
    <3>1. n \in Nat /\ n <= Small /\ n <= bytes_left
      BY <1>1 DEF Types, Counted, Requested, Least
    <3>2. fd \in Files /\ Size[fd] \in Nat /\ Size[fd] - bytes_left \in Nat
      BY <1>1, <1>6 DEF Types, Counted, ReadNode, TaskStage
    <3>3. d \in Seq(Octets) /\ Len(d) = n
      BY <3>1, <3>2, BytesLemma
    <3>4. e \in Nodes
      <4> HIDE DEF Types, Counted, d, n
      <4>1. QED BY <3>1, <3>3 DEF Types, Counted, Nodes
    <3>5. data_active' = Append(data_active, e) /\ bytes_left' = bytes_left - n /\ lost' = lost
      BY <2>3
    <3> HIDE DEF Types, Counted, e, d, n
    <3>6. data_active' \in Seq(Nodes) /\ Len(data_active') = Len(data_active) + 1
      BY <1>1, <3>4, <3>5, AppendProperties
    <3>7. QED BY <1>1, <1>6, <2>1, <3>1, <3>5, <3>6 DEF Types, Counted, ReadNode
  <2>4. QED BY <1>6, <2>2, <2>3 DEF Types, Counted, ReadNode
<1>7. CASE EndStream
  BY <1>1, <1>7 DEF Types, Counted, EndStream, Acknowledge, Commands, dataVars, callVars, userVars
<1>8. QED BY <1>2, <1>3, <1>4, <1>5, <1>6, <1>7 DEF Types, Counted, Task

(* So do the caller's calls ...                                            *)
LEMMA CallTypes ==
  ASSUME IInv, Call
  PROVE  Types'
<1>1. /\ Types /\ Wanted /\ CallStage
      /\ data_active \in Seq(Nodes) /\ big \in Seq(Octets) /\ lost \in Nat
      /\ Len(data_active) \in Nat /\ Len(big) \in Nat
  BY DEF IInv, Types
<1> USE FileAssumption, BufferAssumption, AskedAssumption
<1>2. CASE CallClose
  BY <1>1, <1>2 DEF Types, Counted, CallClose, commandVars, dataVars, taskVars
<1>3. ASSUME NEW f \in Files, CallOpen(f) PROVE Types'
  BY <1>1, <1>3 DEF Types, Counted, CallOpen, commandVars, dataVars, taskVars
<1>4. ASSUME NEW n \in Asked, CallGet(n) PROVE Types'
  BY <1>1, <1>4 DEF Types, Counted, CallGet, Acceptable, commandVars, dataVars, taskVars, userVars
<1>5. ASSUME NEW n \in Skipped, CallSkip(n) PROVE Types'
  <2>1. n \in Nat /\ Size[opened] \in Nat /\ Forward(n) \in Nat
    BY <1>1, <1>5 DEF Types, Counted, CallSkip, Forward, Least
  <2>2. Released(n) \in Seq(Octets)
    BY <1>1, <2>1, ReleasedLemma
  <2>3. UNCHANGED <<command, state, data_active, data_idle, pc, fd, bytes_left, wait, opened, got, lost>>
        /\ due' = Forward(n)
    BY <1>5 DEF Types, Counted, CallSkip, commandVars, taskVars
  <2>4. CASE n < Len(big)
    <3>1. big' = Released(n) /\ UNCHANGED <<cpc, want, skip>>
      BY <1>5, <2>4 DEF Types, Counted, CallSkip
    <3>2. QED BY <1>1, <2>1, <2>2, <2>3, <3>1 DEF Types, Counted
  <2>5. CASE ~(n < Len(big))
    <3>1. PICK left \in Nat : /\ left = n - Len(big) /\ big' = <<>> /\ skip' = left
                              /\ want' = Least(left, Big)
                              /\ cpc' = IF left = 0 THEN "out" ELSE "look"
      BY <1>1, <1>5, <2>1, <2>5 DEF Types, Counted, CallSkip
    <3>2. want' \in 0 .. Big
      BY <3>1 DEF Types, Counted, Least
    <3>3. QED BY <1>1, <2>1, <2>3, <3>1, <3>2 DEF Types, Counted
  <2>6. QED BY <2>4, <2>5
<1>6. ASSUME NEW n \in 0 .. Big, CallRelease(n) PROVE Types'
  <2>1. Released(n) \in Seq(Octets)
    BY <1>1, ReleasedLemma
  <2>2. Forward(n) \in Nat
    <3>1. opened # None
      BY <1>1, <1>6 DEF CallRelease, CallStage
    <3>2. Size[opened] \in Nat
      BY <1>1, <3>1 DEF Types
    <3>3. QED BY <1>1, <3>2 DEF Types, Forward, Least
  <2>3. QED BY <1>1, <1>6, <2>1, <2>2 DEF Types, Counted, CallRelease, commandVars, taskVars
<1>7. QED BY <1>2, <1>3, <1>4, <1>5, <1>6 DEF Types, Counted, Call

(* ... and what a call does after that.                                    *)
LEMMA InCallTypes ==
  ASSUME IInv, InCall
  PROVE  Types'
<1>1. /\ Types /\ Wanted /\ CallStage
      /\ data_active \in Seq(Nodes) /\ big \in Seq(Octets) /\ lost \in Nat
      /\ Len(data_active) \in Nat /\ Len(big) \in Nat
  BY DEF IInv, Types
<1>2. data_active # <<>> =>
        /\ Head(data_active) \in Nodes /\ Tail(data_active) \in Seq(Nodes)
        /\ Len(Tail(data_active)) = Len(data_active) - 1 /\ Len(data_active) >= 1
  BY <1>1, HeadTailProperties, EmptySeq
<1> USE FileAssumption, BufferAssumption
<1>3. CASE CloseSend
  BY <1>1, <1>3 DEF Types, Counted, CloseSend, Commands, dataVars, taskVars, userVars
<1>4. CASE Drain
  <2>1. /\ data_active' \in Seq(Nodes) /\ Len(data_active') = Len(data_active) - 1
        /\ data_idle' = data_idle + 1
    BY <1>2, <1>4 DEF Types, Counted, Drain
  <2>2. UNCHANGED <<commandVars, big, taskVars, callVars, userVars, lost>>
    BY <1>4 DEF Types, Counted, Drain
  <2>3. Counted'
    <3>1. data_idle \in Nat /\ Counted
      BY <1>1 DEF Types
    <3>2. pc' = pc /\ lost' = lost
      BY <2>2 DEF taskVars
    <3>3. QED BY <1>1, <2>1, <3>1, <3>2, GivenBack, Zenon
  <2>4. QED BY <1>1, <2>1, <2>2, <2>3 DEF Types, Counted, commandVars, taskVars, callVars, userVars
<1>5. CASE Drained
  BY <1>1, <1>5 DEF Types, Counted, Drained, commandVars, dataVars, taskVars, userVars
<1>6. CASE CloseAck
  BY <1>1, <1>6 DEF Types, Counted, CloseAck, AfterAck, commandVars, dataVars, taskVars, userVars
<1>7. CASE Flushed
  BY <1>1, <1>7 DEF Types, Counted, Flushed, commandVars, taskVars
<1>8. CASE OpenSend
  BY <1>1, <1>8 DEF Types, Counted, OpenSend, Commands, dataVars, taskVars
<1>9. CASE OpenAck
  BY <1>1, <1>9 DEF Types, Counted, OpenAck, commandVars, dataVars, taskVars
<1>10. CASE LookAtState
  BY <1>1, <1>10 DEF Types, Counted, LookAtState, commandVars, dataVars, taskVars, userVars
<1>11. CASE Take
  <2>1. Head(data_active).data \in Seq(Octets)
    BY <1>2, <1>11 DEF Types, Counted, Take, Nodes
  <2>2. big' \in Seq(Octets)
    BY <1>1, <1>11, <2>1, ConcatProperties DEF Types, Counted, Take
  <2>3. cpc' \in {"look", "give"}
    BY <1>11 DEF Types, Counted, Take
  <2>4. /\ data_active' \in Seq(Nodes) /\ Len(data_active') = Len(data_active) - 1
        /\ data_idle' = data_idle + 1
    BY <1>2, <1>11 DEF Types, Counted, Take
  <2>5. UNCHANGED <<commandVars, taskVars, want, skip, wait, userVars, lost>>
    BY <1>11 DEF Types, Counted, Take
  <2>6. Counted'
    <3>1. data_idle \in Nat /\ Counted
      BY <1>1 DEF Types
    <3>2. pc' = pc /\ lost' = lost
      BY <2>5 DEF taskVars
    <3>3. QED BY <1>1, <2>4, <3>1, <3>2, GivenBack, Zenon
  <2>7. QED BY <1>1, <2>2, <2>3, <2>4, <2>5, <2>6 DEF Types, Counted, commandVars, taskVars, userVars
<1>12. CASE TakeNothing
  BY <1>1, <1>12 DEF Types, Counted, TakeNothing, commandVars, dataVars, taskVars, userVars
<1>13. CASE Give
  BY <1>1, <1>13 DEF Types, Counted, Give, Least, commandVars, dataVars, taskVars
<1>14. CASE GiveToSkip
  <2>1. want \in Nat /\ want <= skip /\ skip - want \in Nat
    <3>1. want \in 0 .. Big /\ skip \in Nat /\ skip > 0
      BY <1>1, <1>14 DEF Types, Counted, GiveToSkip
    <3>2. want <= skip
      BY <1>1, <3>1 DEF Types, Counted, Wanted
    <3>3. QED BY <3>1, <3>2
  <2>2. Released(want) \in Seq(Octets)
    BY <1>1, <2>1, ReleasedLemma
  <2>3. want' \in 0 .. Big
    BY <1>14, <2>1 DEF Types, Counted, GiveToSkip, Least
  <2>4. cpc' \in {"out", "look", "give"}
    BY <1>14 DEF Types, Counted, GiveToSkip
  <2>5. QED BY <1>1, <1>14, <2>1, <2>2, <2>3, <2>4 DEF Types, Counted, GiveToSkip, commandVars, taskVars, userVars
<1>15. QED BY <1>3, <1>4, <1>5, <1>6, <1>7, <1>8, <1>9, <1>10, <1>11, <1>12, <1>13, <1>14
              DEF Types, Counted, InCall

(* Only the task changes what TaskStage speaks of.                         *)
LEMMA NextTaskStage ==
  ASSUME IInv, Next
  PROVE  TaskStage'
<1>1. /\ TaskStage /\ CallStage
      /\ state \in {"IDLE", "STREAMING"} /\ bytes_left \in Nat /\ fd \in Files \cup {None}
      /\ pc \in {"command", "open", "loop", "node", "read", "done"}
      /\ command \in Commands
  BY DEF IInv, Types
<1>2. \A f \in Files : Size[f] \in Nat /\ f # None
  BY FileAssumption
<1>3. ASSUME UNCHANGED <<state, taskVars>> PROVE TaskStage'
  BY <1>1, <1>3 DEF TaskStage, taskVars
<1>4. CASE TaskCommand
  <2>1. CASE command.cmd = "STREAMING"
    <3>1. command.name \in Files
      <4>1. cpc = "wait" /\ command.name = opened /\ opened # None
        BY <1>1, <1>4, <2>1 DEF TaskCommand, CallStage, IInv, Types
      <4>2. command.name \in Files \cup {None}
        BY <1>1 DEF Commands
      <4>3. QED BY <4>1, <4>2
    <3>2. fd' = command.name /\ pc' = "open" /\ pc = "command" /\ UNCHANGED <<state, bytes_left>>
      BY <1>4, <2>1 DEF TaskCommand
    <3>3. QED BY <1>1, <1>2, <3>1, <3>2 DEF TaskStage
  <2>2. CASE command.cmd # "STREAMING"
    BY <1>3, <1>4, <2>2 DEF TaskCommand, taskVars
  <2>3. QED BY <2>1, <2>2
<1>5. CASE OpenFile
  <2>1. pc = "open" /\ fd \in Files /\ state = "IDLE" /\ bytes_left = 0
    BY <1>1, <1>5 DEF OpenFile, TaskStage
  <2>2. CASE pc' = "command" /\ fd' = None /\ UNCHANGED <<state, bytes_left>>
    BY <2>1, <2>2 DEF TaskStage
  <2>3. CASE bytes_left' = Size[fd] /\ state' = "STREAMING" /\ pc' = "loop" /\ fd' = fd
    BY <1>2, <2>1, <2>3 DEF TaskStage
  <2>4. QED BY <1>5, <2>2, <2>3 DEF OpenFile
<1>6. CASE LoopHead
  <2>1. pc = "loop" /\ fd \in Files /\ state = "STREAMING" /\ bytes_left <= Size[fd]
        /\ fd' = fd /\ state' = state
    BY <1>1, <1>6 DEF LoopHead, TaskStage
  <2>2. \/ bytes_left' = 0 /\ pc' = "done"
        \/ bytes_left > 0 /\ bytes_left' = bytes_left /\ pc' = "node"
    BY <1>1, <1>6 DEF LoopHead
  <2>3. QED BY <1>1, <1>2, <2>1, <2>2 DEF TaskStage
<1>7. CASE TakeNode
  BY <1>1, <1>7 DEF TakeNode, TaskStage, commandVars
<1>8. CASE ReadNode
  <2>1. pc = "read" /\ pc' = "loop" /\ fd \in Files /\ state = "STREAMING"
        /\ bytes_left <= Size[fd] /\ fd' = fd /\ state' = state
    BY <1>1, <1>8 DEF ReadNode, TaskStage, commandVars
  <2>2. bytes_left' \in Nat /\ bytes_left' <= bytes_left
    BY <1>1, <1>8, BufferAssumption DEF ReadNode, Requested, Least
  <2>3. QED BY <1>1, <1>2, <2>1, <2>2 DEF TaskStage
<1>9. CASE EndStream
  BY <1>1, <1>9 DEF EndStream, TaskStage
<1>10. ASSUME Call \/ InCall PROVE UNCHANGED <<state, taskVars>>
  BY <1>10 DEF Call, InCall, CallClose, CallOpen, CallGet, CallSkip, CallRelease, CloseSend,
     Drain, Drained, CloseAck, Flushed, OpenSend, OpenAck, LookAtState, Take, TakeNothing, Give,
     GiveToSkip, commandVars, taskVars
<1>11. QED BY <1>3, <1>4, <1>5, <1>6, <1>7, <1>8, <1>9, <1>10 DEF Next, Task

(* A step of the task leaves the caller where it is.                       *)
LEMMA TaskCallStage ==
  ASSUME IInv, Task
  PROVE  CallStage'
<1>1. /\ TaskStage /\ CallStage
      /\ command \in Commands
      /\ cpc \in {"out", "close", "drain", "ack", "flush", "open", "wait", "look", "take",
              "give", "holding"}
  BY DEF IInv, Types
<1>2. command.at \in {"idle", "active", "task"} /\ command.cmd \in {"IDLE", "STREAMING"}
  BY <1>1 DEF Commands
<1>3. cpc' = cpc /\ opened' = opened
  BY DEF Task, TaskCommand, OpenFile, LoopHead, TakeNode, ReadNode, EndStream, callVars, userVars
<1>4. CASE TaskCommand
  <2>1. pc = "command" /\ command.at = "active" /\ UNCHANGED <<data_active, big>>
    BY <1>4 DEF TaskCommand, dataVars
  <2>2. CASE command.cmd = "STREAMING"
    <3>1. cpc = "wait" /\ command.name = opened /\ data_active = <<>> /\ big = <<>>
          /\ opened # None
      BY <1>1, <2>1, <2>2 DEF CallStage, Sending
    <3>2. command'.at = "task" /\ fd' = command.name /\ pc' = "open"
      BY <1>1, <1>4, <2>2 DEF TaskCommand, Commands
    <3>3. QED BY <1>3, <2>1, <3>1, <3>2 DEF CallStage, Sending
  <2>3. CASE command.cmd # "STREAMING"
    <3>1. cpc \in {"drain", "ack"}
      BY <1>1, <2>1, <2>3 DEF CallStage
    <3>2. command'.at = "idle" /\ pc' = pc
      BY <1>1, <1>4, <2>3 DEF TaskCommand, Acknowledge, Commands
    <3>3. QED BY <1>3, <2>1, <3>1, <3>2 DEF CallStage, Sending
  <2>4. QED BY <2>2, <2>3
<1>5. CASE OpenFile
  <2>1. pc = "open" /\ cpc = "wait" /\ command.at = "task" /\ fd = opened /\ opened # None
        /\ data_active = <<>> /\ big = <<>>
    BY <1>1, <1>5 DEF OpenFile, CallStage, Sending
  <2>2. CASE command'.at = "idle" /\ command'.cmd = "IDLE" /\ pc' = "command" /\ big' = big
    BY <1>3, <1>5, <2>1, <2>2 DEF OpenFile, CallStage, Sending
  <2>3. CASE command'.at = "idle" /\ command'.cmd = "STREAMING" /\ pc' = "loop"
    BY <1>3, <2>1, <2>3 DEF CallStage, Sending
  <2>4. QED BY <1>1, <1>5, <2>2, <2>3 DEF OpenFile, Acknowledge, Commands
<1>6. CASE LoopHead
  <2>1. pc = "loop" /\ pc' \in {"done", "node"} /\ UNCHANGED <<data_active, big, fd>>
    BY <1>6 DEF LoopHead, dataVars
  <2>2. CASE bytes_left > 0 /\ command.at = "active"
    <3>1. cpc \in {"drain", "ack"}
      BY <1>1, <2>1, <2>2 DEF CallStage
    <3>2. command'.at = "task" /\ pc' = "done"
      BY <1>1, <1>6, <2>2 DEF LoopHead, Commands
    <3>3. QED BY <1>3, <3>1, <3>2 DEF CallStage, Sending
  <2>3. CASE ~(bytes_left > 0 /\ command.at = "active")
    <3>1. command' = command
      BY <1>6, <2>3 DEF LoopHead
    <3>2. QED BY <1>1, <1>3, <2>1, <3>1 DEF CallStage, Sending
  <2>4. QED BY <2>2, <2>3
<1>7. CASE TakeNode
  BY <1>1, <1>3, <1>7 DEF TakeNode, CallStage, Sending, commandVars
<1>8. CASE ReadNode
  <2>1. pc = "read" /\ pc' = "loop" /\ command' = command /\ big' = big
    BY <1>8 DEF ReadNode, commandVars
  <2>2. ~Sending /\ cpc # "open" /\ ~(cpc = "out" /\ opened = None) /\ cpc # "flush"
    BY <1>1, <2>1 DEF CallStage, Sending
  <2>3. ~Sending'
    BY <1>3, <2>1, <2>2 DEF Sending
  <2>4. CASE cpc = "wait"
    <3>1. command.at = "idle" /\ command.cmd = "STREAMING"
      BY <1>1, <2>1, <2>4 DEF CallStage
    <3>2. QED BY <1>1, <1>3, <2>1, <2>2, <2>3, <2>4, <3>1 DEF CallStage
  <2>5. CASE cpc # "wait"
    BY <1>1, <1>3, <2>1, <2>2, <2>3, <2>5 DEF CallStage
  <2>6. QED BY <2>4, <2>5
<1>9. CASE EndStream
  <2>1. pc = "done" /\ pc' = "command" /\ UNCHANGED <<data_active, big>>
    BY <1>9 DEF EndStream, dataVars
  <2>2. CASE command.at = "task"
    <3>1. cpc \in {"drain", "ack"}
      BY <1>1, <2>1, <2>2 DEF CallStage
    <3>2. command'.at = "idle"
      BY <1>1, <1>9, <2>2 DEF EndStream, Acknowledge, Commands
    <3>3. QED BY <1>3, <2>1, <3>1, <3>2 DEF CallStage, Sending
  <2>3. CASE command.at # "task"
    <3>1. command' = command
      BY <1>9, <2>3 DEF EndStream
    <3>2. pc # "open" /\ pc' # "open" /\ UNCHANGED <<cpc, opened, command, data_active, big>>
      BY <1>3, <2>1, <3>1
    <3>3. Sending' = Sending
      BY <3>2 DEF Sending
    <3>4. CASE cpc = "wait"
      <4>1. command.at = "idle" /\ command.cmd = "STREAMING"
        BY <1>1, <2>1, <3>4 DEF CallStage
      <4>2. QED BY <1>1, <2>1, <3>2, <3>3, <3>4, <4>1 DEF CallStage
    <3>5. CASE cpc # "wait"
      BY <1>1, <1>2, <2>1, <2>3, <3>2, <3>3, <3>5 DEF CallStage
    <3>6. QED BY <3>4, <3>5
  <2>4. QED BY <2>2, <2>3
<1>10. QED BY <1>4, <1>5, <1>6, <1>7, <1>8, <1>9 DEF Task

(* The caller's steps take its open or close from one stage to the next.   *)
LEMMA CallerCallStage ==
  ASSUME IInv, Call \/ InCall
  PROVE  CallStage'
<1>1. /\ CallStage
      /\ command \in Commands
      /\ cpc \in {"out", "close", "drain", "ack", "flush", "open", "wait", "look", "take",
              "give", "holding"}
  BY DEF IInv, Types
<1>2. pc' = pc /\ fd' = fd
  BY DEF Call, InCall, CallClose, CallOpen, CallGet, CallSkip, CallRelease, CloseSend,
     Drain, Drained, CloseAck, Flushed, OpenSend, OpenAck, LookAtState, Take, TakeNothing, Give,
     GiveToSkip, taskVars
<1>3. CASE CallClose
  BY <1>1, <1>2, <1>3 DEF CallClose, CallStage, Sending, commandVars
<1>4. ASSUME NEW f \in Files, CallOpen(f) PROVE CallStage'
  BY <1>1, <1>2, <1>4 DEF CallOpen, CallStage, Sending, commandVars
<1>5. ASSUME NEW n, \/ CallGet(n) \/ CallSkip(n) \/ CallRelease(n) PROVE CallStage'
  <2>1. /\ cpc \in {"out", "holding"} /\ opened # None
        /\ cpc' \in {"out", "look", "give"} /\ command' = command /\ opened' = opened
    BY <1>1, <1>5 DEF CallGet, CallSkip, CallRelease, CallStage, commandVars, userVars
  <2>2. QED BY <1>1, <1>2, <2>1 DEF CallStage, Sending
<1>6. CASE CloseSend
  <2>1. /\ cpc = "close" /\ cpc' = "drain" /\ pc # "open"
        /\ command'.at = "active" /\ command'.cmd = "IDLE"
    BY <1>1, <1>6 DEF CloseSend, CallStage
  <2>2. QED BY <1>2, <2>1 DEF CallStage, Sending
<1>7. CASE Drain
  <2>1. cpc \in {"drain", "flush"} /\ cpc' = cpc /\ command' = command
    BY <1>7 DEF Drain, commandVars, callVars
  <2>2. QED BY <1>1, <1>2, <2>1 DEF CallStage, Sending
<1>8. CASE Drained
  BY <1>1, <1>2, <1>8 DEF Drained, CallStage, Sending, commandVars
<1>9. CASE CloseAck
  BY <1>1, <1>2, <1>9 DEF CloseAck, AfterAck, CallStage, Sending, commandVars
<1>10. CASE Flushed
  <2>1. /\ cpc = "flush" /\ command' = command /\ opened' = opened
        /\ data_active' = <<>> /\ big' = <<>>
        /\ cpc' = IF opened = None THEN "out" ELSE "open"
    BY <1>10 DEF Flushed, commandVars
  <2>2. QED BY <1>1, <1>2, <2>1 DEF CallStage, Sending
<1>11. CASE OpenSend
  <2>1. cpc = "open" /\ opened # None /\ data_active = <<>> /\ big = <<>>
        /\ UNCHANGED <<data_active, big>> /\ pc = "command" /\ command.at = "idle"
    BY <1>1, <1>11 DEF OpenSend, CallStage, dataVars
  <2>2. CASE /\ command' = [at |-> "active", cmd |-> "STREAMING", name |-> opened]
             /\ cpc' = "wait" /\ UNCHANGED opened
    BY <1>2, <2>1, <2>2 DEF CallStage, Sending
  <2>3. CASE cpc' = "out" /\ opened' = None /\ UNCHANGED command
    BY <1>2, <2>1, <2>3 DEF CallStage, Sending
  <2>4. QED BY <1>11, <2>2, <2>3 DEF OpenSend
<1>12. CASE OpenAck
  <2>1. /\ cpc = "wait" /\ command.at = "idle" /\ opened # None /\ cpc' = "out"
        /\ UNCHANGED <<data_active, big, command>>
        /\ opened' = IF command.cmd = "STREAMING" THEN opened ELSE None
    BY <1>1, <1>12 DEF OpenAck, CallStage, dataVars, commandVars
  <2>2. CASE command.cmd = "STREAMING"
    BY <1>1, <1>2, <2>1, <2>2 DEF CallStage, Sending
  <2>3. CASE command.cmd # "STREAMING"
    BY <1>1, <1>2, <2>1, <2>3 DEF CallStage, Sending
  <2>4. QED BY <2>2, <2>3
<1>13. ASSUME LookAtState \/ Take \/ TakeNothing \/ Give \/ GiveToSkip PROVE CallStage'
  <2>1. /\ cpc \in {"look", "take", "give"} /\ command' = command /\ opened' = opened
        /\ cpc' \in {"out", "look", "take", "give", "holding"}
    BY <1>13 DEF LookAtState, Take, TakeNothing, Give, GiveToSkip, commandVars, userVars
  <2>2. QED BY <1>1, <1>2, <2>1 DEF CallStage, Sending
<1>14. QED BY <1>3, <1>4, <1>5, <1>6, <1>7, <1>8, <1>9, <1>10, <1>11, <1>12, <1>13
              DEF Call, InCall

(* Sizes of what a call has and wants.                                     *)
LEMMA NextWanted ==
  ASSUME IInv, Next
  PROVE  Wanted'
<1>1. /\ Types /\ Wanted /\ CallStage /\ Len(big) \in Nat
      /\ want \in 0 .. Big /\ skip \in Nat /\ due \in Nat /\ got \in 0 .. Big
      /\ cpc \in {"out", "close", "drain", "ack", "flush", "open", "wait", "look", "take",
              "give", "holding"}
  BY DEF IInv, Types
<1>2. CASE Task
  <2>1. UNCHANGED <<cpc, want, skip, due, got>>
    BY <1>2 DEF Task, TaskCommand, OpenFile, LoopHead, TakeNode, ReadNode, EndStream,
       callVars, userVars
  <2>2. big' = big \/ cpc = "wait"
    <3>1. ASSUME OpenFile PROVE cpc = "wait"
      BY <1>1, <3>1 DEF OpenFile, CallStage
    <3>2. QED BY <1>2, <3>1 DEF Task, TaskCommand, LoopHead, TakeNode, ReadNode, EndStream,
              dataVars
  <2>3. QED BY <1>1, <2>1, <2>2 DEF Wanted
<1>3. CASE CallClose
  BY <1>1, <1>3 DEF CallClose, Wanted
<1>4. ASSUME NEW f \in Files, CallOpen(f) PROVE Wanted'
  BY <1>1, <1>4 DEF CallOpen, Wanted
<1>5. ASSUME NEW n \in Asked, CallGet(n) PROVE Wanted'
  <2>1. /\ cpc = "out" /\ want' = n /\ n > 0 /\ skip = 0 /\ UNCHANGED <<big, skip, due, got>>
        /\ cpc' = IF Len(big) < n THEN "look" ELSE "give"
    BY <1>1, <1>5 DEF CallGet, Acceptable, Wanted, dataVars, userVars
  <2>2. QED BY <1>1, <2>1, AskedAssumption DEF Wanted
<1>6. ASSUME NEW n \in Skipped, CallSkip(n) PROVE Wanted'
  <2>1. cpc = "out" /\ skip = 0 /\ n \in Nat
    BY <1>1, <1>6, AskedAssumption DEF CallSkip, Wanted
  <2>2. CASE n < Len(big)
    BY <1>6, <2>1, <2>2 DEF CallSkip, Wanted
  <2>3. CASE ~(n < Len(big))
    <3>1. PICK left \in Nat : /\ left = n - Len(big) /\ big' = <<>> /\ skip' = left
                              /\ want' = Least(left, Big)
                              /\ cpc' = IF left = 0 THEN "out" ELSE "look"
      BY <1>1, <1>6, <2>1, <2>3 DEF CallSkip
    <3>2. Len(big') = 0 /\ want' <= left /\ (left > 0 => want' > 0)
      BY <3>1, BufferAssumption DEF Least
    <3>3. QED BY <3>1, <3>2 DEF Wanted
  <2>4. QED BY <2>2, <2>3
<1>7. ASSUME NEW n \in 0 .. Big, CallRelease(n) PROVE Wanted'
  BY <1>1, <1>7 DEF CallRelease, Wanted
<1>8. CASE CloseSend \/ Drained \/ CloseAck
  BY <1>1, <1>8 DEF CloseSend, Drained, CloseAck, AfterAck, Wanted
<1>9. CASE Drain
  BY <1>1, <1>9 DEF Drain, callVars, userVars, Wanted
<1>10. CASE Flushed
  BY <1>1, <1>10 DEF Flushed, Wanted
<1>11. CASE OpenSend \/ OpenAck
  BY <1>1, <1>11 DEF OpenSend, OpenAck, Wanted
<1>12. CASE LookAtState
  BY <1>1, <1>12 DEF LookAtState, dataVars, Wanted
<1>13. CASE Take
  <2>1. /\ cpc = "take" /\ want' = want /\ skip' = skip
        /\ \/ cpc' = "look" /\ Len(big') < want
           \/ cpc' = "give"
    BY <1>13 DEF Take
  <2>2. QED BY <1>1, <2>1 DEF Wanted
<1>14. CASE TakeNothing
  BY <1>1, <1>14 DEF TakeNothing, Wanted
<1>15. CASE Give
  BY <1>1, <1>15 DEF Give, Wanted, Least, dataVars
<1>16. CASE GiveToSkip
  <2>1. /\ skip > 0 /\ want \in Nat /\ want <= skip
        /\ skip' = skip - want /\ want' = Least(skip - want, Big)
        /\ cpc' = CASE skip' = 0 -> "out" [] Len(big') < want' -> "look" [] OTHER -> "give"
    <3>1. skip > 0 /\ want <= skip
      BY <1>1, <1>16 DEF GiveToSkip, Wanted
    <3>2. QED BY <1>1, <1>16, <3>1 DEF GiveToSkip
  <2>2. skip' \in Nat /\ want' <= skip' /\ (skip' # 0 => want' > 0)
    BY <1>1, <2>1, BufferAssumption DEF Least
  <2>3. \/ cpc' = "out" /\ skip' = 0
        \/ cpc' = "look" /\ skip' # 0 /\ Len(big') < want'
        \/ cpc' = "give" /\ skip' # 0
    <3>1. CASE skip' = 0
      <4>1. want' = 0 /\ Len(big') \in Nat
        <5>1. big' \in Seq(Octets)
          BY InCallTypes, <1>16 DEF InCall, Types
        <5>2. QED BY <2>1, <3>1, <5>1, BufferAssumption DEF Least
      <4>2. ~(Len(big') < want')
        BY <4>1
      <4>3. QED BY <2>1, <3>1, <4>2
    <3>2. CASE skip' # 0 /\ Len(big') < want'
      BY <2>1, <3>2
    <3>3. CASE skip' # 0 /\ ~(Len(big') < want')
      BY <2>1, <3>3
    <3>4. QED BY <3>1, <3>2, <3>3
  <2>4. QED BY <2>2, <2>3 DEF Wanted
<1>17. QED BY <1>2, <1>3, <1>4, <1>5, <1>6, <1>7, <1>8, <1>9, <1>10, <1>11, <1>12, <1>13,
              <1>14, <1>15, <1>16 DEF Next, Call, InCall

(* What is behind the last of a queue's nodes, when one is added or taken. *)
LEMMA LastOfQueue ==
  ASSUME NEW q \in Seq(Nodes), \A i \in DOMAIN q : ~q[i].last, NEW e \in Nodes
  PROVE  \A i \in DOMAIN Append(q, e) :
           Append(q, e)[i].last => i = Len(Append(q, e)) /\ e.last
<1>1. /\ Len(Append(q, e)) = Len(q) + 1 /\ DOMAIN Append(q, e) = 1 .. Len(q) + 1
      /\ \A i \in 1 .. Len(q) : Append(q, e)[i] = q[i]
      /\ Append(q, e)[Len(q) + 1] = e /\ DOMAIN q = 1 .. Len(q) /\ Len(q) \in Nat
  BY AppendProperties
<1> DEFINE r == Append(q, e)
<1> HIDE DEF r
<1>2. SUFFICES ASSUME NEW i \in 1 .. Len(q) + 1, r[i].last PROVE i = Len(q) + 1 /\ e.last
  BY <1>1 DEF r
<1>3. CASE i \in 1 .. Len(q)
  BY <1>1, <1>2, <1>3 DEF r
<1>4. CASE i = Len(q) + 1
  BY <1>1, <1>2, <1>4 DEF r
<1>5. QED BY <1>1, <1>3, <1>4

LEMMA LastOfTail ==
  ASSUME NEW q \in Seq(Nodes), q # <<>>, \A i \in DOMAIN q : q[i].last => i = Len(q)
  PROVE  /\ \A i \in DOMAIN Tail(q) : Tail(q)[i].last =>
               i = Len(Tail(q)) /\ \E j \in DOMAIN q : q[j].last
         /\ Head(q).last => Tail(q) = <<>> /\ \E j \in DOMAIN q : q[j].last
<1>1. /\ Len(Tail(q)) = Len(q) - 1 /\ DOMAIN Tail(q) = 1 .. Len(q) - 1
      /\ \A i \in 1 .. Len(q) - 1 : Tail(q)[i] = q[i + 1]
      /\ Len(q) \in Nat /\ Len(q) > 0 /\ DOMAIN q = 1 .. Len(q) /\ Head(q) = q[1]
      /\ Tail(q) \in Seq(Nodes)
  BY HeadTailProperties, EmptySeq
<1>2. ASSUME NEW i \in 1 .. Len(q) - 1, Tail(q)[i].last
      PROVE  i = Len(q) - 1 /\ \E j \in DOMAIN q : q[j].last
  <2>1. PICK j \in 1 .. Len(q) : j = i + 1
    BY <1>1
  <2>2. q[j] = Tail(q)[i]
    BY <1>1, <2>1
  <2>3. q[j].last
    BY <1>2, <2>2, Zenon
  <2>4. j \in DOMAIN q
    BY <1>1
  <2>5. j = Len(q)
    BY <2>3, <2>4, Zenon
  <2>6. i = Len(q) - 1
    BY <2>1, <2>5
  <2>7. QED BY <2>3, <2>4, <2>6, Zenon
<1>3. ASSUME Head(q).last PROVE Tail(q) = <<>> /\ \E j \in DOMAIN q : q[j].last
  <2>1. 1 \in DOMAIN q /\ q[1] = Head(q)
    BY <1>1
  <2>2. q[1].last
    BY <1>3, <2>1, Zenon
  <2>3. 1 = Len(q)
    BY <2>1, <2>2, Zenon
  <2>4. Tail(q) = <<>>
    <3>1. Len(Tail(q)) = 0
      <4>1. Len(Tail(q)) = Len(q) - 1
        BY <1>1
      <4>2. QED BY <2>3, <4>1
    <3>2. QED BY <1>1, <3>1, EmptySeq
  <2>5. QED BY <2>1, <2>2, <2>4, Zenon
<1>4. QED BY <1>1, <1>2, <1>3, Zenon

(* A node that says it is the last is, and a call knows when it has all.   *)
LEMMA NextLastOnes ==
  ASSUME IInv, Next
  PROVE  LastOnes'
<1>1. /\ Types /\ LastOnes /\ TaskStage /\ CallStage /\ Wanted
      /\ Len(big) \in Nat /\ data_active \in Seq(Nodes) /\ bytes_left \in Nat
      /\ want \in 0 .. Big /\ skip \in Nat
      /\ state \in {"IDLE", "STREAMING"}
      /\ \A i \in DOMAIN data_active :
           data_active[i].last => i = Len(data_active) /\ bytes_left = 0
  BY DEF IInv, Types, LastOnes
<1>2. ASSUME Task PROVE UNCHANGED <<cpc, want, wait>>
  BY <1>2 DEF Task, TaskCommand, OpenFile, LoopHead, TakeNode, ReadNode, EndStream, callVars
<1>3. CASE TaskCommand \/ TakeNode
  <2>1. UNCHANGED <<state, data_active, big, bytes_left, cpc, want, wait>>
    <3>1. UNCHANGED <<cpc, want, wait>>
      BY <1>2, <1>3 DEF Task
    <3>2. UNCHANGED <<state, data_active, big, bytes_left>>
      BY <1>3 DEF TaskCommand, TakeNode, commandVars, dataVars
    <3>3. QED BY <3>1, <3>2
  <2>2. QED BY <1>1, <2>1, Zenon DEF LastOnes
<1>4. CASE OpenFile
  <2>1. pc = "open" /\ cpc = "wait" /\ data_active = <<>> /\ data_active' = data_active
    <3>1. cpc \in {"out", "close", "drain", "ack", "flush", "open", "wait", "look", "take",
                   "give", "holding"}
      BY <1>1 DEF Types
    <3>2. QED BY <1>1, <1>4, <3>1 DEF OpenFile, CallStage, Sending
  <2>2. cpc' = cpc
    BY <1>2, <1>4 DEF Task
  <2>3. QED BY <2>1, <2>2 DEF LastOnes
<1>5. CASE LoopHead
  <2>1. UNCHANGED <<state, data_active, big, cpc, want, wait>>
        /\ (bytes_left' = bytes_left \/ bytes_left' = 0)
    BY <1>2, <1>5 DEF Task, LoopHead, dataVars
  <2>2. QED BY <1>1, <2>1 DEF LastOnes
<1>6. CASE ReadNode
  <2>1. UNCHANGED <<state, big, cpc, want, wait>> /\ pc = "read" /\ bytes_left > 0
    BY <1>1, <1>2, <1>6 DEF Task, ReadNode, commandVars, TaskStage
  <2>2. cpc = "give" => Len(big) >= want
    BY <1>1, <2>1 DEF LastOnes
  <2>3. CASE bytes_left' = 0 /\ UNCHANGED data_active
    BY <1>1, <2>1, <2>2, <2>3 DEF LastOnes
  <2>4. CASE LET n == Requested IN
        /\ data_active' = Append(data_active,
             [data |-> Bytes(fd, Size[fd] - bytes_left, n), last |-> n = bytes_left])
        /\ bytes_left' = bytes_left - n
    <3> DEFINE n == Requested
               d == Bytes(fd, Size[fd] - bytes_left, n)
               e == [data |-> d, last |-> n = bytes_left]
    <3>1. n \in Nat /\ n <= Small /\ n <= bytes_left
      BY <1>1, BufferAssumption DEF Requested, Least
    <3>2. fd \in Files /\ Size[fd] \in Nat /\ Size[fd] - bytes_left \in Nat
      BY <1>1, <2>1, FileAssumption DEF TaskStage, Types
    <3>3. d \in Seq(Octets) /\ Len(d) = n
      BY <3>1, <3>2, BytesLemma
    <3>4. e \in Nodes /\ (e.last => n = bytes_left)
      <4> HIDE DEF d, n
      <4>1. QED BY <3>1, <3>3 DEF Nodes
    <3>5. data_active' = Append(data_active, e) /\ bytes_left' = bytes_left - n
      BY <2>4
    <3> HIDE DEF e, d, n
    <3>6. \A i \in DOMAIN data_active : ~data_active[i].last
      BY <1>1, <2>1
    <3>7. \A i \in DOMAIN data_active' :
            data_active'[i].last => i = Len(data_active') /\ bytes_left' = 0
      BY <1>1, <3>1, <3>4, <3>5, <3>6, LastOfQueue
    <3>8. QED BY <1>1, <2>1, <2>2, <3>7 DEF LastOnes
  <2>5. QED BY <1>6, <2>3, <2>4 DEF ReadNode
<1>7. CASE EndStream
  <2>1. UNCHANGED <<data_active, big, bytes_left, cpc, want, wait>> /\ state' = "IDLE"
    BY <1>2, <1>7 DEF Task, EndStream, dataVars
  <2>2. QED BY <1>1, <2>1 DEF LastOnes
<1>8. ASSUME UNCHANGED <<data_active, bytes_left>>, cpc' \notin {"take", "give"} PROVE LastOnes'
  BY <1>1, <1>8 DEF LastOnes
<1>9. CASE \/ CallClose \/ CloseSend \/ Drained \/ CloseAck \/ Flushed \/ OpenSend \/ OpenAck \/ Give
           \/ \E f \in Files : CallOpen(f)
           \/ \E n \in Skipped : CallSkip(n)
           \/ \E n \in 0 .. Big : CallRelease(n)
  <2>1. UNCHANGED <<data_active, bytes_left>>
    BY <1>9 DEF CallClose, CloseSend, Drained, CloseAck, Flushed, OpenSend, OpenAck, Give,
       CallOpen, CallSkip, CallRelease, dataVars, taskVars
  <2>2. cpc' \notin {"take", "give"}
    BY <1>9 DEF CallClose, CloseSend, Drained, CloseAck, AfterAck, Flushed, OpenSend, OpenAck,
       Give, CallOpen, CallSkip, CallRelease
  <2>3. QED BY <1>8, <2>1, <2>2
<1>10. ASSUME NEW n \in Asked, CallGet(n) PROVE LastOnes'
  <2>1. /\ UNCHANGED <<data_active, bytes_left, big>> /\ want' = n
        /\ cpc' = IF Len(big) < n THEN "look" ELSE "give"
    BY <1>10 DEF CallGet, dataVars, taskVars
  <2>2. QED BY <1>1, <2>1, AskedAssumption DEF LastOnes
<1>11. CASE LookAtState
  <2>1. UNCHANGED <<data_active, bytes_left, state>> /\ cpc' = "take"
        /\ wait' = (state = "STREAMING")
    BY <1>11 DEF LookAtState, commandVars, dataVars, taskVars
  <2>2. ~wait' => state' = "IDLE"
    BY <1>1, <2>1
  <2>3. QED BY <1>1, <2>1, <2>2 DEF LastOnes
<1>12. CASE Drain \/ Take
  <2>1. data_active # <<>> /\ data_active' = Tail(data_active) /\ bytes_left' = bytes_left
    BY <1>12 DEF Drain, Take, taskVars
  <2>2. /\ \A i \in DOMAIN data_active' :
             data_active'[i].last => i = Len(data_active') /\ bytes_left' = 0
        /\ Head(data_active).last => data_active' = <<>> /\ bytes_left' = 0
    <3>1. \A i \in DOMAIN data_active : data_active[i].last => i = Len(data_active)
      BY <1>1, Zenon
    <3>2. \A i \in DOMAIN data_active : data_active[i].last => bytes_left = 0
      BY <1>1, Zenon
    <3>3. /\ \A i \in DOMAIN Tail(data_active) : Tail(data_active)[i].last =>
               /\ i = Len(Tail(data_active))
               /\ \E j \in DOMAIN data_active : data_active[j].last
          /\ Head(data_active).last =>
               /\ Tail(data_active) = <<>>
               /\ \E j \in DOMAIN data_active : data_active[j].last
      BY <1>1, <2>1, <3>1, LastOfTail, Zenon
    <3>4. QED BY <2>1, <3>2, <3>3, Zenon
  <2>3. CASE Drain
    <3>1. cpc' \notin {"take", "give"}
      BY <2>3 DEF Drain, callVars
    <3>2. QED BY <2>2, <3>1 DEF LastOnes
  <2>4. CASE Take
    <3>1. /\ want' = want
          /\ cpc' = IF Len(big') < want /\ ~Head(data_active).last THEN "look" ELSE "give"
      BY <2>4 DEF Take
    <3>2. Len(big') \in Nat
      <4>1. big' \in Seq(Octets)
        BY InCallTypes, <2>4 DEF InCall, Types
      <4>2. QED BY <4>1
    <3>3. cpc' = "give" => Len(big') >= want' \/ (data_active' = <<>> /\ bytes_left' = 0)
      BY <1>1, <2>2, <3>1, <3>2
    <3>4. QED BY <2>2, <3>1, <3>3 DEF LastOnes
  <2>5. QED BY <1>12, <2>3, <2>4
<1>13. CASE TakeNothing
  <2>1. /\ cpc' = "give" /\ data_active = <<>> /\ UNCHANGED <<data_active, bytes_left>>
        /\ cpc = "take" /\ ~wait
    BY <1>13 DEF TakeNothing, dataVars, taskVars
  <2>2. bytes_left = 0
    BY <1>1, <2>1 DEF LastOnes, TaskStage
  <2>3. QED BY <1>1, <2>1, <2>2 DEF LastOnes
<1>14. CASE GiveToSkip
  <2>1. /\ UNCHANGED <<data_active, bytes_left>>
        /\ \/ cpc' \in {"out", "look"}
           \/ cpc' = "give" /\ ~(Len(big') < want')
    BY <1>14 DEF GiveToSkip, taskVars
  <2>2. Len(big') \in Nat /\ want' \in Nat
    <3>1. big' \in Seq(Octets) /\ want' \in 0 .. Big
      BY InCallTypes, <1>14 DEF InCall, Types
    <3>2. QED BY <3>1
  <2>3. cpc' = "give" => Len(big') >= want'
    BY <2>1, <2>2
  <2>4. QED BY <1>1, <2>1, <2>3 DEF LastOnes
<1>15. QED BY <1>3, <1>4, <1>5, <1>6, <1>7, <1>9, <1>10, <1>11, <1>12, <1>13, <1>14
              DEF Next, Task, Call, InCall

(* What At speaks of has its type.                                         *)
LEMMA Lengths ==
  ASSUME Types
  PROVE  /\ Rest \in Seq(Octets) /\ Len(Rest) \in Nat
         /\ big \in Seq(Octets) /\ Len(big) \in Nat
         /\ data_active = <<>> => Rest = <<>> /\ Len(Rest) = 0
         /\ opened # None => opened \in Files /\ Size[opened] \in Nat
         /\ bytes_left \in Nat /\ lost \in Nat /\ due \in Nat /\ skip \in Nat /\ want \in Nat
<1>1. data_active \in Seq(Nodes) /\ big \in Seq(Octets) /\ opened \in Files \cup {None}
  BY DEF Types
<1>2. Rest \in Seq(Octets) /\ (data_active = <<>> => Rest = <<>>)
  BY <1>1, DatasLemma DEF Rest
<1>3. Len(Rest) \in Nat /\ Len(big) \in Nat
  BY <1>1, <1>2
<1>4. data_active = <<>> => Len(Rest) = 0
  BY <1>2
<1>5. opened # None => opened \in Files /\ Size[opened] \in Nat
  BY <1>1, FileAssumption
<1>6. QED BY <1>1, <1>2, <1>3, <1>4, <1>5 DEF Types

(* No bytes are bytes of any place.                                        *)
LEMMA NoBytes ==
  ASSUME NEW f \in Files, NEW p \in Nat
  PROVE  Bytes(f, p, 0) = <<>>
<1>1. Bytes(f, p, 0) \in Seq(Octets) /\ Len(Bytes(f, p, 0)) = 0
  BY BytesLemma
<1>2. QED BY <1>1, EmptySeq

(* A step that touches none of it leaves everything in its place.          *)
LEMMA PlacedKept ==
  ASSUME Placed, UNCHANGED <<opened, big, data_active, bytes_left, lost, due, skip>>,
         Live' => Live, pc' # "command" => pc # "command" /\ fd' = fd
  PROVE  Placed'
<1>1. Rest' = Rest
  BY DEF Rest, Datas
<1>2. \A p \in Nat : At(p) => At(p)'
  BY <1>1 DEF At, Reached
<1>3. QED BY <1>2 DEF Placed

(* Bytes used or skipped take the caller on as far as it wants, but for a  *)
(* skip past the end.                                                      *)
LEMMA ReachedOn ==
  ASSUME NEW p \in Nat, NEW q \in Nat, Types, opened \in Files, Reached(p), p <= q,
         p <= Size[opened], UNCHANGED <<opened, lost>>, skip' \in Nat,
         \/ due' = due /\ q + skip' = p + skip
         \/ \E n \in Nat : due' = Forward(n) /\ skip = 0 /\ q + skip' = p + n
  PROVE  Reached(q)'
<1>1. PICK s \in Nat, d \in Nat, k \in Nat, l \in Nat, j \in Nat :
        s = Size[opened] /\ d = due /\ k = skip /\ l = lost /\ j = skip'
  BY FileAssumption DEF Types
<1>2. /\ d <= s => p + k <= d /\ (l = 0 => p + k = d)
      /\ d > s /\ l = 0 => p + k > s \/ s - p < Big
  BY <1>1 DEF Reached
<1>3. SUFFICES ASSUME NEW e \in Nat, e = due'
               PROVE  /\ e <= s => q + j <= e /\ (l = 0 => q + j = e)
                      /\ e > s /\ l = 0 => q + j > s \/ s - q < Big
  <2>1. due' \in Nat
    <3>1. CASE due' = due
      BY <1>1, <3>1
    <3>2. ASSUME NEW n \in Nat, due' = Forward(n) PROVE due' \in Nat
      <4>1. due' = IF d + n < s + 1 THEN d + n ELSE s + 1
        BY <1>1, <3>2 DEF Forward, Least
      <4>2. QED BY <4>1
    <3>3. QED BY <3>1, <3>2
  <2>2. Size[opened'] = s /\ lost' = l
    BY <1>1
  <2>3. QED BY <1>1, <2>1, <2>2 DEF Reached
<1>4. CASE due' = due /\ q + skip' = p + skip
  <2>1. e = d /\ q + j = p + k /\ p <= s
    BY <1>1, <1>3, <1>4
  <2>2. QED BY <1>2, <2>1, BufferAssumption
<1>5. ASSUME NEW n \in Nat, due' = Forward(n), skip = 0, q + skip' = p + n
      PROVE  /\ e <= s => q + j <= e /\ (l = 0 => q + j = e)
             /\ e > s /\ l = 0 => q + j > s \/ s - q < Big
  <2>1. e = IF d + n < s + 1 THEN d + n ELSE s + 1
    BY <1>1, <1>3, <1>5 DEF Forward, Least
  <2>2. k = 0 /\ q + j = p + n /\ p <= s
    BY <1>1, <1>5
  <2>3. QED BY <1>2, <2>1, <2>2, BufferAssumption
<1>6. QED BY <1>4, <1>5

(* n bytes at the front of the big buffer have been used or skipped.       *)
LEMMA PlacedReleased ==
  ASSUME Types, Live, NEW p \in Nat, At(p), NEW n \in Nat, n <= Len(big),
         big' = SubSeq(big, n + 1, Len(big)),
         UNCHANGED <<opened, data_active, bytes_left, lost>>,
         Reached(p + n)'
  PROVE  At(p + n)'
<1>1. /\ opened \in Files /\ Size[opened] \in Nat /\ Rest \in Seq(Octets) /\ Len(Rest) \in Nat
      /\ big \in Seq(Octets) /\ Len(big) \in Nat
  BY Lengths DEF Live
<1>2. PICK b \in Nat : b = Len(big)
  BY <1>1
<1>3. n \in 0 .. b /\ p + n \in Nat /\ b - n \in Nat /\ p + n + (b - n) = p + b
  BY <1>2
<1>4. big = Bytes(opened, p, b)
      /\ SubSeq(Bytes(opened, p, b), n + 1, b) = Bytes(opened, p + n, b - n)
  <2>1. big = Bytes(opened, p, b)
    BY <1>2, Zenon DEF At
  <2>2. \A f \in Files : SubSeq(Bytes(f, p, b), n + 1, b) = Bytes(f, p + n, b - n)
    BY <1>3, BytesCut
  <2>3. QED BY <1>1, <2>1, <2>2, Zenon
<1>5. big' = Bytes(opened, p + n, b - n)
  <2>1. big' = SubSeq(big, n + 1, b)
    BY <1>2, Zenon
  <2>2. QED BY <1>4, <2>1, Zenon
<1>6. Len(big') = b - n
  <2>1. \A f \in Files : Len(Bytes(f, p + n, b - n)) = b - n
    BY <1>3, BytesLemma
  <2>2. QED BY <1>1, <1>5, <2>1, Zenon
<1>7. Rest' = Rest
  BY DEF Rest, Datas
<1>8. p + n + Len(big') = p + b
  BY <1>3, <1>6, Zenon
<1>9. big' = Bytes(opened', p + n, Len(big'))
  BY <1>5, <1>6, Zenon
<1>10. Rest' = Bytes(opened', p + n + Len(big'), Len(Rest'))
  BY <1>2, <1>7, <1>8 DEF At
<1>11. /\ p + n + Len(big') + Len(Rest') + bytes_left' = p + Len(big) + Len(Rest) + bytes_left
       /\ Size[opened'] = Size[opened] /\ bytes_left' = bytes_left /\ lost' = lost
  BY <1>2, <1>7, <1>8
<1>12. QED BY <1>9, <1>10, <1>11 DEF At

(* The task's steps.                                                       *)
LEMMA TaskPlaced ==
  ASSUME IInv, Task
  PROVE  Placed'
<1>1. /\ Types /\ TaskStage /\ CallStage /\ Wanted /\ Placed /\ command \in Commands
      /\ cpc \in {"out", "close", "drain", "ack", "flush", "open", "wait", "look", "take",
              "give", "holding"}
  BY DEF IInv, Types
<1>2. UNCHANGED <<cpc, opened, due, skip>>
  BY DEF Task, TaskCommand, OpenFile, LoopHead, TakeNode, ReadNode, EndStream, callVars, userVars
<1>3. command' = command => Live' = Live
  BY <1>2 DEF Live, Sending
<1>4. Live => command.at = "idle"
  BY <1>1 DEF Live, Sending, CallStage
<1>5. CASE TaskCommand
  <2>1. ~Live
    BY <1>4, <1>5 DEF TaskCommand
  <2>2. ~Live'
    <3>1. CASE cpc = "wait"
      <4>1. command.cmd = "STREAMING"
        BY <1>1, <1>5, <3>1 DEF TaskCommand, CallStage
      <4>2. command'.at = "task"
        BY <1>1, <1>5, <4>1 DEF TaskCommand, Commands
      <4>3. QED BY <1>2, <3>1, <4>2 DEF Live, Sending
    <3>2. CASE cpc # "wait"
      BY <1>2, <2>1, <3>2 DEF Live, Sending
    <3>3. QED BY <3>1, <3>2
  <2>3. QED BY <2>2 DEF Placed
<1>6. CASE OpenFile
  <2>1. pc = "open" /\ cpc = "wait" /\ fd = opened /\ data_active = <<>> /\ big = <<>>
        /\ opened # None
    BY <1>1, <1>6 DEF OpenFile, CallStage, Sending
  <2>2. CASE Acknowledge("IDLE")
    <3>1. command'.cmd = "IDLE"
      BY <1>1, <2>2 DEF Acknowledge, Commands
    <3>2. Sending'
      BY <1>2, <2>1, <3>1 DEF Sending
    <3>3. QED BY <3>2 DEF Placed, Live
  <2>3. CASE /\ bytes_left' = Size[fd] /\ big' = <<>> /\ fd' = fd
             /\ UNCHANGED <<data_active, lost>>
    <3>1. opened \in Files /\ Size[opened] \in Nat
      BY <1>1, <2>1, Lengths
    <3>2. due = 0 /\ skip = 0
      BY <1>1, <2>1 DEF Wanted
    <3>3. Rest' = <<>> /\ Len(Rest') = 0 /\ Len(big') = 0
      <4>1. Rest' = Rest
        BY <2>3 DEF Rest, Datas
      <4>2. QED BY <1>1, <2>1, <2>3, <4>1, Lengths
    <3>4. Bytes(opened, 0, 0) = <<>>
      BY <3>1, NoBytes
    <3>5. At(0)'
      <4>1. Reached(0)'
        BY <1>2, <3>1, <3>2 DEF Reached
      <4>2. QED BY <1>2, <2>1, <2>3, <3>1, <3>2, <3>3, <3>4, <4>1 DEF At
    <3>6. QED BY <1>2, <2>1, <2>3, <3>5 DEF Placed
  <2>4. QED BY <1>6, <2>2, <2>3 DEF OpenFile
<1>7. CASE LoopHead \/ TakeNode
  <2>1. UNCHANGED <<big, data_active, lost, fd>> /\ pc # "command"
    BY <1>7 DEF LoopHead, TakeNode, dataVars
  <2>2. CASE command' = command /\ bytes_left' = bytes_left
    BY <1>1, <1>2, <1>3, <2>1, <2>2, PlacedKept
  <2>3. CASE ~(command' = command /\ bytes_left' = bytes_left)
    <3>1. command.at = "active" /\ pc = "loop"
      BY <1>7, <2>3 DEF LoopHead, TakeNode, commandVars
    <3>2. cpc \in {"drain", "ack"}
      BY <1>1, <3>1 DEF CallStage
    <3>3. QED BY <1>2, <3>2 DEF Placed, Live
  <2>4. QED BY <2>2, <2>3
<1>8. CASE ReadNode
  <2>1. UNCHANGED <<command, big, fd>> /\ pc = "read" /\ bytes_left > 0
    BY <1>1, <1>8 DEF ReadNode, TaskStage, commandVars
  <2>2. SUFFICES ASSUME Live PROVE fd = opened /\ \E p \in Nat : At(p)'
    BY <1>2, <1>3, <2>1 DEF Placed
  <2>3. fd = opened
    BY <1>1, <2>1, <2>2 DEF Placed
  <2>4. PICK p \in Nat : At(p)
    BY <1>1, <2>2 DEF Placed
  <2>5. /\ opened \in Files /\ Size[opened] \in Nat /\ Rest \in Seq(Octets) /\ Len(Rest) \in Nat
        /\ big \in Seq(Octets) /\ Len(big) \in Nat /\ bytes_left \in Nat /\ lost \in Nat
    BY <1>1, <2>2, Lengths DEF Live
  <2>6. p + Len(big) + Len(Rest) + bytes_left = Size[opened]
    BY <2>1, <2>4 DEF At
  <2>7. CASE bytes_left' = 0 /\ lost' = lost + 1 /\ UNCHANGED data_active
    <3>1. Rest' = Rest
      BY <2>7 DEF Rest, Datas
    <3>2. Reached(p)'
      BY <1>2, <2>4, <2>5, <2>7 DEF At, Reached
    <3>3. At(p)'
      BY <1>2, <2>1, <2>4, <2>5, <2>6, <2>7, <3>1, <3>2 DEF At
    <3>4. QED BY <2>3, <3>3
  <2>8. CASE LET n == Requested IN
        /\ data_active' = Append(data_active,
             [data |-> Bytes(fd, Size[fd] - bytes_left, n), last |-> n = bytes_left])
        /\ bytes_left' = bytes_left - n
        /\ UNCHANGED lost
    <3> DEFINE n == Requested
               d == Bytes(fd, Size[fd] - bytes_left, n)
               e == [data |-> d, last |-> n = bytes_left]
    <3>1. n \in Nat /\ n <= Small /\ n <= bytes_left
      BY <2>5, BufferAssumption DEF Requested, Least
    <3>2. Size[fd] - bytes_left = p + Len(big) + Len(Rest)
      BY <2>3, <2>5, <2>6
    <3>3. d = Bytes(opened, p + Len(big) + Len(Rest), n) /\ d \in Seq(Octets) /\ Len(d) = n
      <4>1. d = Bytes(opened, p + Len(big) + Len(Rest), n)
        BY <2>3, <3>2
      <4>2. p + Len(big) + Len(Rest) \in Nat
        BY <2>4, <2>5
      <4> HIDE DEF d, n
      <4>3. QED BY <2>5, <3>1, <4>1, <4>2, BytesLemma
    <3>4. e \in Nodes /\ e.data = d
      <4> HIDE DEF d, n
      <4>1. QED BY <3>1, <3>3 DEF Nodes
    <3>5. data_active' = Append(data_active, e) /\ bytes_left' = bytes_left - n /\ lost' = lost
      BY <2>8
    <3> HIDE DEF e, d, n
    <3>6. Rest' = Rest \o d
      <4>1. data_active \in Seq(Nodes)
        BY <1>1 DEF Types
      <4>2. FlattenSeq(Datas(Append(data_active, e))) = FlattenSeq(Datas(data_active)) \o d
        BY <3>4, <4>1, DatasLemma
      <4>3. QED BY <3>5, <4>2 DEF Rest
    <3>7. PICK q \in Nat, r \in Nat : q = p + Len(big) /\ r = Len(Rest)
      BY <2>5
    <3>8. Rest = Bytes(opened, q, r) /\ d = Bytes(opened, q + r, n)
      BY <2>4, <3>3, <3>7 DEF At
    <3>9. Rest' = Bytes(opened, q, r + n)
      <4>1. \A f \in Files : Bytes(f, q, r) \o Bytes(f, q + r, n) = Bytes(f, q, r + n)
        BY <3>1, BytesJoin
      <4>2. QED BY <2>5, <3>6, <3>8, <4>1, Zenon
    <3>10. Len(Rest') = r + n
      <4>1. r + n \in Nat
        BY <3>1
      <4>2. QED BY <2>5, <3>9, <4>1, BytesLemma
    <3>11. p + Len(big) + Len(Rest') + bytes_left' = Size[opened]
      <4>1. PICK b \in Nat, l \in Nat : b = Len(big) /\ l = bytes_left
        BY <2>5
      <4>2. p + b + r + l = Size[opened]
        BY <2>6, <3>7, <4>1
      <4>3. bytes_left' = l - n
        BY <3>5, <4>1
      <4>4. p + b + (r + n) + (l - n) = Size[opened]
        BY <3>1, <4>2
      <4>5. QED BY <3>10, <4>1, <4>3, <4>4
    <3>12. At(p)'
      <4>1. Rest' = Bytes(opened', p + Len(big'), Len(Rest'))
        BY <1>2, <2>1, <3>7, <3>9, <3>10
      <4>2. Reached(p)'
        BY <1>2, <2>4, <3>5 DEF At, Reached
      <4>3. QED BY <1>2, <2>1, <2>4, <2>5, <3>5, <3>11, <4>1, <4>2 DEF At
    <3>13. QED BY <2>3, <3>12
  <2>9. QED BY <1>8, <2>7, <2>8 DEF ReadNode
<1>9. CASE EndStream
  <2>1. UNCHANGED <<big, data_active, bytes_left, lost>> /\ pc = "done" /\ pc' = "command"
    BY <1>9 DEF EndStream, dataVars
  <2>2. Live' => Live
    <3>1. CASE command.at = "task"
      <4>1. cpc \in {"drain", "ack"}
        BY <1>1, <2>1, <3>1 DEF CallStage
      <4>2. QED BY <1>2, <4>1 DEF Live
    <3>2. CASE command.at # "task"
      BY <1>3, <1>9, <3>2 DEF EndStream
    <3>3. QED BY <3>1, <3>2
  <2>3. QED BY <1>1, <1>2, <2>1, <2>2, PlacedKept
<1>10. QED BY <1>5, <1>6, <1>7, <1>8, <1>9 DEF Task

(* The caller's steps that use nothing, or end or begin a session.         *)
LEMMA QuietPlaced ==
  ASSUME IInv,
         \/ CallClose \/ CloseSend \/ Drain \/ Drained \/ CloseAck \/ Flushed \/ OpenSend
         \/ OpenAck \/ LookAtState \/ TakeNothing \/ Give
         \/ \E f \in Files : CallOpen(f)
         \/ \E n \in Asked : CallGet(n)
  PROVE  Placed'
<1>1. /\ Wanted /\ Placed /\ CallStage
      /\ cpc \in {"out", "close", "drain", "ack", "flush", "open", "wait", "look", "take",
              "give", "holding"}
  BY DEF IInv, Types
<1>2. CASE \/ CallClose \/ CloseSend \/ Drain \/ Drained \/ CloseAck \/ Flushed \/ OpenSend
           \/ \E f \in Files : CallOpen(f)
  <2>1. CASE \/ CallClose \/ CloseSend \/ Drain \/ Drained \/ CloseAck \/ Flushed
             \/ \E f \in Files : CallOpen(f)
    <3>1. \/ cpc' \in {"close", "drain", "ack", "flush", "open"}
          \/ opened' = None
      BY <2>1 DEF CallClose, CloseSend, Drain, Drained, CloseAck, AfterAck, Flushed, CallOpen,
         callVars
    <3>2. QED BY <3>1 DEF Placed, Live
  <2>2. CASE OpenSend
    <3>1. \/ cpc' = "wait" /\ command'.at = "active"
          \/ opened' = None
      BY <2>2 DEF OpenSend
    <3>2. QED BY <3>1 DEF Placed, Live, Sending
  <2>3. QED BY <1>2, <2>1, <2>2
<1>3. CASE \/ OpenAck \/ LookAtState \/ TakeNothing \/ Give \/ \E n \in Asked : CallGet(n)
  <2>1. UNCHANGED <<big, data_active, bytes_left, lost, due, skip, command, pc, fd>>
    BY <1>3 DEF OpenAck, LookAtState, TakeNothing, Give, CallGet, commandVars, dataVars, taskVars,
       userVars
  <2>2. CASE OpenAck
    <3>1. cpc = "wait" /\ command.at = "idle"
          /\ opened' = IF command.cmd = "STREAMING" THEN opened ELSE None
      BY <2>2 DEF OpenAck
    <3>2. CASE command.cmd = "STREAMING"
      <4>1. opened' = opened /\ opened # None
        BY <1>1, <3>1, <3>2 DEF CallStage
      <4>2. Live
        BY <3>1, <3>2, <4>1 DEF Live, Sending
      <4>3. QED BY <1>1, <2>1, <4>1, <4>2, PlacedKept
    <3>3. CASE command.cmd # "STREAMING"
      BY <3>1, <3>3 DEF Placed, Live
    <3>4. QED BY <3>2, <3>3
  <2>3. CASE LookAtState \/ TakeNothing \/ Give \/ \E n \in Asked : CallGet(n)
    <3>1. opened' = opened /\ cpc \in {"out", "look", "take", "give"}
      BY <2>3 DEF LookAtState, TakeNothing, Give, CallGet, userVars
    <3>2. Live' => Live
      BY <3>1 DEF Live, Sending
    <3>3. QED BY <1>1, <2>1, <3>1, <3>2, PlacedKept
  <2>4. QED BY <1>3, <2>2, <2>3
<1>4. QED BY <1>2, <1>3

(* A node goes from the queue to the big buffer.                           *)
LEMMA TakePlaced ==
  ASSUME IInv, Take
  PROVE  Placed'
<1>1. /\ Types /\ CallStage /\ Placed /\ data_active \in Seq(Nodes) /\ data_active # <<>>
      /\ cpc = "take" /\ opened # None
  BY DEF IInv, Types, Take, CallStage
<1>2. /\ UNCHANGED <<command, opened, bytes_left, lost, due, skip, pc, fd>>
      /\ cpc' \in {"look", "give"}
      /\ data_active' = Tail(data_active) /\ big' = big \o Head(data_active).data
  BY DEF Take, commandVars, taskVars, userVars
<1>3. Live
  BY <1>1 DEF Live, Sending
<1>4. PICK p \in Nat : At(p)
  BY <1>1, <1>3 DEF Placed
<1>5. /\ opened \in Files /\ Rest \in Seq(Octets) /\ Len(Rest) \in Nat
      /\ big \in Seq(Octets) /\ Len(big) \in Nat
  BY <1>1, Lengths
<1>6. PICK d \in Seq(Octets) : d = Head(data_active).data
  <2>1. Head(data_active) \in Nodes
    BY <1>1, HeadTailProperties
  <2>2. QED BY <2>1 DEF Nodes
<1>7. Rest' \in Seq(Octets) /\ Rest = d \o Rest'
  <2>1. Tail(data_active) \in Seq(Nodes)
    BY <1>1, HeadTailProperties
  <2>2. FlattenSeq(Datas(Tail(data_active))) \in Seq(Octets)
    BY <2>1, DatasLemma
  <2>3. FlattenSeq(Datas(data_active)) = d \o FlattenSeq(Datas(Tail(data_active)))
    BY <1>1, <1>6, DatasLemma
  <2>4. QED BY <1>2, <2>2, <2>3 DEF Rest
<1>8. PICK f \in Files, r \in Seq(Octets), a \in Nat, b \in Nat, c \in Nat :
        f = opened /\ r = Rest' /\ a = Len(big) /\ b = Len(d) /\ c = Len(r)
  BY <1>5, <1>7
<1>9. Len(d \o r) = b + c /\ Len(big \o d) = a + b /\ p + a \in Nat
  BY <1>5, <1>8, ConcatProperties
<1>10. Rest = d \o r /\ Len(Rest) = b + c
  BY <1>7, <1>8, <1>9
<1>11. d \o r = Bytes(f, p + a, b + c)
  <2>1. Rest = Bytes(opened, p + Len(big), Len(Rest))
    BY <1>4, Zenon DEF At
  <2>2. QED BY <1>8, <1>10, <2>1, Zenon
<1>12. d = Bytes(f, p + a, b) /\ r = Bytes(f, p + a + b, c)
  <2>1. d \o r = Bytes(f, p + a, Len(d) + Len(r))
    BY <1>8, <1>11, Zenon
  <2>2. d = Bytes(f, p + a, Len(d)) /\ r = Bytes(f, p + a + Len(d), Len(r))
    BY <1>9, <2>1, BytesSplit
  <2>3. QED BY <1>8, <2>2, Zenon
<1>13. big \o d = Bytes(f, p, a + b)
  <2>1. big = Bytes(f, p, a)
    BY <1>4, <1>8, Zenon DEF At
  <2>2. Bytes(f, p, a) \o Bytes(f, p + a, b) = Bytes(f, p, a + b)
    BY BytesJoin
  <2>3. QED BY <1>12, <2>1, <2>2, Zenon
<1>14. big' = Bytes(f, p, Len(big')) /\ Len(big') = a + b
  <2>1. big' = big \o d
    BY <1>2, <1>6, Zenon
  <2>2. QED BY <1>9, <1>13, <2>1, Zenon
<1>15. p + Len(big') = p + a + b
  BY <1>8, <1>14
<1>16. Rest' = Bytes(f, p + Len(big'), Len(Rest'))
  BY <1>8, <1>12, <1>15, Zenon
<1>17. p + Len(big') + Len(Rest') = p + Len(big) + Len(Rest)
  BY <1>8, <1>10, <1>14
<1>18. At(p)'
  <2>1. big' = Bytes(opened', p, Len(big'))
    BY <1>2, <1>8, <1>14, Zenon
  <2>2. Rest' = Bytes(opened', p + Len(big'), Len(Rest'))
    BY <1>2, <1>8, <1>16, Zenon
  <2>3. Reached(p)'
    BY <1>2, <1>4 DEF At, Reached
  <2>4. QED BY <1>2, <1>4, <1>17, <2>1, <2>2, <2>3 DEF At
<1>19. QED BY <1>1, <1>2, <1>3, <1>18 DEF Placed

(* The steps that use bytes or pass over them.                             *)
LEMMA UsePlaced ==
  ASSUME IInv,
         \/ \E n \in Skipped : CallSkip(n)
         \/ \E n \in 0 .. Big : CallRelease(n)
         \/ GiveToSkip
  PROVE  Placed'
<1>1. Types /\ Wanted /\ LastOnes /\ Placed /\ CallStage
  BY DEF IInv
<1>2. /\ UNCHANGED <<command, data_active, bytes_left, opened, lost, pc, fd>>
      /\ opened # None /\ cpc \in {"out", "give", "holding"}
  BY <1>1 DEF CallSkip, CallRelease, GiveToSkip, commandVars, taskVars, userVars, CallStage
<1>3. Live
  BY <1>2 DEF Live, Sending
<1>4. PICK p \in Nat : At(p)
  BY <1>1, <1>3 DEF Placed
<1>5. /\ opened \in Files /\ Size[opened] \in Nat /\ Rest \in Seq(Octets) /\ Len(Rest) \in Nat
      /\ big \in Seq(Octets) /\ Len(big) \in Nat /\ due \in Nat /\ skip \in Nat /\ want \in Nat
      /\ bytes_left \in Nat
  BY <1>1, <1>2, Lengths
<1>6. SUFFICES \E q \in Nat : At(q)'
  BY <1>1, <1>2, <1>3 DEF Placed
<1>7. /\ Reached(p) /\ p <= Size[opened]
      /\ p + Len(big) + Len(Rest) + bytes_left <= Size[opened]
      /\ lost = 0 => p + Len(big) + Len(Rest) + bytes_left = Size[opened]
  BY <1>4, <1>5 DEF At
<1>8. ASSUME NEW n \in Nat, n <= Len(big), big' = SubSeq(big, n + 1, Len(big)),
             Reached(p + n)'
      PROVE  \E q \in Nat : At(q)'
  <2>1. At(p + n)'
    BY <1>1, <1>2, <1>3, <1>4, <1>8, PlacedReleased
  <2>2. p + n \in Nat
    OBVIOUS
  <2>3. QED BY <2>1, <2>2
<1>9. ASSUME NEW n \in Skipped, CallSkip(n) PROVE \E q \in Nat : At(q)'
  <2>1. n \in Nat /\ skip = 0 /\ due' = Forward(n)
    BY <1>1, <1>9, AskedAssumption DEF CallSkip, Wanted
  <2>2. CASE n < Len(big)
    <3>1. big' = SubSeq(big, n + 1, Len(big)) /\ skip' = skip
      BY <1>5, <1>9, <2>1, <2>2 DEF CallSkip, Released
    <3>2. Reached(p + n)'
      <4>1. p + n + skip' = p + n /\ p <= p + n /\ p + n \in Nat
        BY <2>1, <3>1
      <4>2. QED BY <1>1, <1>2, <1>5, <1>7, <2>1, <3>1, <4>1, ReachedOn
    <3>3. QED BY <1>5, <1>8, <2>1, <2>2, <3>1, <3>2
  <2>3. CASE ~(n < Len(big))
    <3>1. big' = <<>> /\ skip' = n - Len(big)
      BY <1>9, <2>3 DEF CallSkip
    <3>2. PICK b \in Nat : b = Len(big)
      BY <1>5
    <3>3. SubSeq(big, b + 1, b) = <<>>
      BY <3>2, SubSeqEmpty
    <3>4. Reached(p + b)'
      <4>1. p + b + skip' = p + n /\ p <= p + b /\ p + b \in Nat /\ skip' \in Nat
        BY <2>1, <2>3, <3>1, <3>2
      <4>2. QED BY <1>1, <1>2, <1>5, <1>7, <2>1, <4>1, ReachedOn
    <3>5. b <= Len(big) /\ big' = SubSeq(big, b + 1, Len(big))
      BY <3>1, <3>2, <3>3
    <3>6. QED BY <1>8, <3>2, <3>4, <3>5
  <2>4. QED BY <2>2, <2>3
<1>10. ASSUME NEW n \in 0 .. Big, CallRelease(n) PROVE \E q \in Nat : At(q)'
  <2>1. n \in Nat /\ n <= Len(big)
    BY <1>1, <1>5, <1>10 DEF CallRelease, Wanted, Types
  <2>2. skip = 0 /\ skip' = skip /\ due' = Forward(n) /\ big' = SubSeq(big, n + 1, Len(big))
    BY <1>1, <1>10, <2>1 DEF CallRelease, Wanted, Released
  <2>3. Reached(p + n)'
    <3>1. p + n + skip' = p + n /\ p <= p + n /\ p + n \in Nat
      BY <2>1, <2>2
    <3>2. QED BY <1>1, <1>2, <1>5, <1>7, <2>1, <2>2, <3>1, ReachedOn
  <2>4. QED BY <1>8, <2>1, <2>2, <2>3
<1>11. ASSUME GiveToSkip PROVE \E q \in Nat : At(q)'
  <2>1. /\ cpc = "give" /\ skip > 0 /\ big' = Released(want) /\ skip' = skip - want
        /\ due' = due /\ want <= skip
    BY <1>1, <1>11 DEF GiveToSkip, userVars, Wanted
  <2>2. CASE want <= Len(big)
    <3>1. PICK w \in Nat : w = want
      BY <1>5
    <3>2. big' = SubSeq(big, w + 1, Len(big))
      BY <2>1, <2>2, <3>1 DEF Released
    <3>3. Reached(p + w)'
      <4>1. p + w + skip' = p + skip /\ p <= p + w /\ p + w \in Nat /\ skip' \in Nat
        BY <1>5, <2>1, <3>1
      <4>2. QED BY <1>1, <1>2, <1>5, <1>7, <2>1, <4>1, ReachedOn
    <3>4. QED BY <1>8, <2>2, <3>1, <3>2, <3>3
  <2>3. CASE ~(want <= Len(big))
    <3>1. big' = big
      BY <2>1, <2>3 DEF Released
    <3>2. data_active = <<>> /\ bytes_left = 0
      BY <1>1, <1>5, <2>1, <2>3 DEF LastOnes
    <3>3. Len(Rest) = 0
      BY <1>1, <3>2, Lengths
    <3>4. lost = 0 => p + Len(big) = Size[opened] /\ Size[opened] - p < Big
      <4>1. want <= Big
        BY <1>1 DEF Types
      <4>2. QED BY <1>5, <1>7, <2>3, <3>2, <3>3, <4>1, BufferAssumption
    <3>5. Reached(p)'
      <4>1. PICK s \in Nat, d \in Nat, k \in Nat, w \in Nat, l \in Nat :
              s = Size[opened] /\ d = due /\ k = skip /\ w = want /\ l = lost
        BY <1>1, <1>5 DEF Types
      <4>2. d <= s => p + k <= d /\ (l = 0 => p + k = d)
        BY <1>7, <4>1 DEF Reached
      <4>3. l = 0 => p + Len(big) = s /\ s - p < Big
        BY <3>4, <4>1
      <4>4. w <= k /\ Len(big) < w /\ k - w \in Nat
        BY <1>5, <2>1, <2>3, <4>1
      <4>5. d <= s => p + (k - w) <= d /\ (l = 0 => p + (k - w) = d)
        BY <1>5, <4>2, <4>3, <4>4
      <4>6. Size[opened'] = s /\ lost' = l /\ due' = d /\ skip' = k - w
        BY <1>2, <2>1, <4>1
      <4>7. QED BY <4>3, <4>5, <4>6 DEF Reached
    <3>6. Rest' = Rest
      BY <1>2 DEF Rest, Datas
    <3>7. At(p)'
      BY <1>2, <1>4, <3>1, <3>2, <3>5, <3>6 DEF At
    <3>8. QED BY <3>7
  <2>4. QED BY <2>2, <2>3
<1>12. QED BY <1>9, <1>10, <1>11

(* Every step keeps the invariant.                                         *)
LEMMA NextHolds ==
  ASSUME IInv, [Next]_vars
  PROVE  IInv'
<1>1. CASE Next
  <2>1. Types'
    BY <1>1, TaskTypes, CallTypes, InCallTypes DEF Next
  <2>2. CallStage'
    BY <1>1, TaskCallStage, CallerCallStage DEF Next
  <2>3. Placed'
    BY <1>1, TaskPlaced, QuietPlaced, TakePlaced, UsePlaced DEF Next, Call, InCall
  <2>4. QED BY <1>1, <2>1, <2>2, <2>3, NextTaskStage, NextWanted, NextLastOnes DEF IInv
<1>2. CASE UNCHANGED vars
  <2>1. UNCHANGED <<command, state, data_active, data_idle, big, pc, fd, bytes_left, cpc, want,
                    skip, wait, opened, due, got, lost>>
    BY <1>2 DEF vars, commandVars, dataVars, taskVars, callVars, userVars
  <2>2. Types' /\ TaskStage' /\ CallStage' /\ Wanted' /\ LastOnes'
    BY <2>1 DEF IInv, Types, Counted, TaskStage, CallStage, Sending, Wanted, LastOnes
  <2>3. Live' = Live
    BY <2>1 DEF Live, Sending
  <2>4. Placed'
    BY <2>1, <2>3, PlacedKept DEF IInv
  <2>5. QED BY <2>2, <2>4 DEF IInv
<1>3. QED BY <1>1, <1>2

(* So it holds in every reachable state.                                   *)
LEMMA InvHolds == Spec => []IInv
BY InitHolds, NextHolds, PTL DEF Spec

-----------------------------------------------------------------------------
(* What the runs check.                                                    *)

(* Every node is free, queued, being filled or was dropped by a failed     *)
(* read, whatever opens, closes and skips come when.                       *)
THEOREM NodesNeverLeak == Spec => []NodesKept
<1>1. IInv => NodesKept
  BY TypesKeepNodes DEF IInv
<1>2. QED BY <1>1, InvHolds, PTL

(* What Take may copy into a buffer that has less than is wanted of it.    *)
LEMMA RoomForNode ==
  ASSUME IInv, Take
  PROVE  Len(big') <= Big + Small - 1
<1>1. /\ cpc = "take" /\ data_active # <<>> /\ big' = big \o Head(data_active).data
      /\ big \in Seq(Octets) /\ data_active \in Seq(Nodes) /\ want \in 0 .. Big
      /\ Len(big) < want
  BY DEF Take, IInv, Types, Wanted
<1>2. Head(data_active) \in Nodes
  BY <1>1, HeadTailProperties
<1>3. PICK d \in Seq(Octets) : d = Head(data_active).data /\ Len(d) <= Small
  BY <1>2 DEF Nodes
<1>4. Len(big \o d) = Len(big) + Len(d)
  BY <1>1, ConcatProperties
<1>5. QED BY <1>1, <1>3, <1>4, BufferAssumption

(* The copy of a node never runs past the end of the big buffer: with      *)
(* IInv, for a node is only copied while less than Big is there.           *)
THEOREM BigBufferHolds == Spec => []BigBufferFits
<1>1. Init => BigBufferFits
  BY BufferAssumption DEF Init, BigBufferFits
<1>2. ASSUME IInv, BigBufferFits, [Next]_vars PROVE BigBufferFits'
  <2>1. CASE Take
    BY <1>2, <2>1, RoomForNode DEF BigBufferFits
  <2>2. CASE ~Take
    <3>1. Types /\ Len(big) \in Nat
      BY <1>2 DEF IInv, Types
    <3>2. \/ big' = big \/ big' = <<>> \/ \E n \in Nat : big' = Released(n)
      <4>1. CASE Task
        BY <4>1 DEF Task, TaskCommand, OpenFile, LoopHead, TakeNode, ReadNode, EndStream, dataVars
      <4>2. CASE Call
        BY <4>2, AskedAssumption DEF Call, CallClose, CallOpen, CallGet, CallSkip, CallRelease,
           dataVars
      <4>3. CASE InCall
        <5>1. want \in Nat
          BY <3>1 DEF Types
        <5>2. QED BY <2>2, <4>3, <5>1 DEF InCall, CloseSend, Drain, Drained, CloseAck, Flushed,
                  OpenSend, OpenAck, LookAtState, TakeNothing, Give, GiveToSkip, dataVars
      <4>4. CASE UNCHANGED vars
        BY <4>4 DEF vars, dataVars
      <4>5. QED BY <1>2, <4>1, <4>2, <4>3, <4>4 DEF Next
    <3>3. Len(big') <= Len(big)
      <4>1. \A n \in Nat : Len(Released(n)) <= Len(big)
        <5>1. SUFFICES ASSUME NEW n \in Nat PROVE Len(Released(n)) <= Len(big)
          OBVIOUS
        <5>2. Len(Released(n)) = IF n <= Len(big) THEN Len(big) - n ELSE Len(big)
          BY <3>1, ReleasedLemma
        <5>3. QED BY <3>1, <5>2
      <4>2. CASE big' = big
        BY <3>1, <4>2
      <4>3. CASE big' = <<>>
        BY <3>1, <4>3
      <4>4. ASSUME NEW n \in Nat, big' = Released(n) PROVE Len(big') <= Len(big)
        BY <4>1, <4>4, Zenon
      <4>5. QED BY <3>2, <4>2, <4>3, <4>4, Zenon
    <3>4. Len(big') \in Nat
      <4>1. big' \in Seq(Octets)
        BY <1>2, NextHolds DEF IInv, Types
      <4>2. QED BY <4>1
    <3>5. QED BY <1>2, <3>1, <3>3, <3>4, BufferAssumption DEF BigBufferFits
  <2>3. QED BY <2>1, <2>2
<1>3. QED BY <1>1, <1>2, InvHolds, PTL DEF Spec

(* Once a close is through, the task has let go of the file and nothing of *)
(* it is left in a queue or a buffer.                                      *)
THEOREM CloseLeavesNothing == Spec => []CloseStops
<1>1. IInv => CloseStops
  <2>1. SUFFICES ASSUME IInv, cpc = "open" \/ (cpc = "out" /\ opened = None) PROVE CloseStops
    BY DEF CloseStops
  <2>2. pc = "command" /\ data_active = <<>> /\ big = <<>>
    BY <2>1 DEF IInv, CallStage
  <2>3. state = "IDLE"
    BY <2>1, <2>2 DEF IInv, TaskStage
  <2>4. data_idle + lost = NodeCount
    BY <2>1, <2>2 DEF IInv, Types, Counted
  <2>5. QED BY <2>2, <2>3, <2>4 DEF CloseStops
<1>2. QED BY <1>1, InvHolds, PTL

(* The big buffer and the nodes behind it are bytes of the file one after  *)
(* the other.                                                              *)
LEMMA UnusedPlaced ==
  ASSUME IInv, Live, NEW p \in Nat, At(p)
  PROVE  Unused = Bytes(opened, p, Len(Unused)) /\ Len(Unused) = Len(big) + Len(Rest)
<1>1. /\ opened \in Files /\ Rest \in Seq(Octets) /\ Len(Rest) \in Nat
      /\ big \in Seq(Octets) /\ Len(big) \in Nat
  BY Lengths DEF Live, IInv
<1>2. Datas(data_active) \in Seq(Seq(Octets))
  BY DatasLemma DEF IInv, Types
<1>3. Unused = big \o Rest
  <2> DEFINE ss == <<big>> \o Datas(data_active)
  <2>1. ss # <<>> /\ Head(ss) = big /\ Tail(ss) = Datas(data_active) /\ ss \in Seq(Seq(Octets))
    BY <1>1, <1>2, PrependLemma
  <2> HIDE DEF ss
  <2>2. FlattenSeq(ss) = big \o FlattenSeq(Datas(data_active))
    BY <2>1, FlattenTail
  <2>3. QED BY <2>2 DEF ss, Unused, Rest, Datas
<1>4. PICK f \in Files, a \in Nat, b \in Nat : f = opened /\ a = Len(big) /\ b = Len(Rest)
  BY <1>1
<1>5. big = Bytes(f, p, a) /\ Rest = Bytes(f, p + a, b)
  BY <1>4, Zenon DEF At
<1>6. Bytes(f, p, a) \o Bytes(f, p + a, b) = Bytes(f, p, a + b)
  BY BytesJoin
<1>7. Unused = Bytes(f, p, a + b)
  BY <1>3, <1>5, <1>6, Zenon
<1>8. Len(Bytes(f, p, a + b)) = a + b
  <2>1. a + b \in Nat
    OBVIOUS
  <2>2. QED BY <2>1, BytesLemma
<1>9. QED BY <1>4, <1>7, <1>8

(* What is on its way to the decoder are the bytes of the file it opened,  *)
(* in order, from where it is to where the task has read; only after a     *)
(* skip past the end some of the last bytes of the file come again, and    *)
(* only after a failed read is it not known where in the file they are.    *)
THEOREM BytesInOrder == Spec => []InOrder
<1>1. IInv => InOrder
  <2>1. SUFFICES ASSUME IInv, InSession, skip = 0
                 PROVE  \E p \in 0 .. Size[opened] :
                          /\ Unused = Bytes(opened, p, Len(Unused))
                          /\ lost = 0 => IF due <= Size[opened] THEN p = due
                                         ELSE Size[opened] - p < Big
                          /\ fd # None /\ pc \in {"node", "read"} =>
                               p + Len(Unused) + bytes_left = Size[opened]
    BY DEF InOrder
  <2>2. Live /\ Types /\ TaskStage /\ Placed
    BY <2>1 DEF InSession, Live, Sending, IInv
  <2>3. PICK p \in Nat : At(p)
    BY <2>2 DEF Placed
  <2>4. /\ Unused = Bytes(opened, p, Len(Unused)) /\ Len(Unused) = Len(big) + Len(Rest)
    BY <2>1, <2>2, <2>3, UnusedPlaced
  <2>5. /\ opened \in Files /\ Size[opened] \in Nat /\ Len(Rest) \in Nat
        /\ Len(big) \in Nat /\ bytes_left \in Nat /\ due \in Nat
    BY <2>2, Lengths DEF Live
  <2>6. p \in 0 .. Size[opened]
    <3>1. p + Len(big) + Len(Rest) + bytes_left <= Size[opened]
      BY <2>3 DEF At
    <3>2. QED BY <2>5, <3>1
  <2>7. lost = 0 => IF due <= Size[opened] THEN p = due ELSE Size[opened] - p < Big
    BY <2>1, <2>3, <2>5, <2>6 DEF At, Reached
  <2>8. pc \in {"node", "read"} => p + Len(Unused) + bytes_left = Size[opened]
    <3>1. pc \in {"node", "read"} => bytes_left > 0
      BY <2>2 DEF TaskStage
    <3>2. bytes_left > 0 => p + Len(big) + Len(Rest) + bytes_left = Size[opened]
      BY <2>3 DEF At
    <3>3. QED BY <2>4, <2>5, <3>1, <3>2
  <2>9. QED BY <2>4, <2>6, <2>7, <2>8
<1>2. QED BY <1>1, InvHolds, PTL

-----------------------------------------------------------------------------
(* The file stream implements the plain file of ByteStream.                *)

(* What the abstract reader looks at, and where it has got to.             *)
File == IF InSession THEN opened ELSE None
Pos == IF InSession THEN due ELSE 0
View == IF cpc = "holding" THEN SubSeq(big, 1, got) ELSE None

(* A call that touches nothing of them.                                    *)
LEMMA StreamStutters ==
  ASSUME IInv, UNCHANGED <<File, Pos, View>>, lost' > 0 <=> lost > 0
  PROVE  UNCHANGED Stream!vars
BY DEF Stream!vars, File, Pos, View

(* The task never shows the decoder anything but that a read has failed.   *)
LEMMA TaskRefines ==
  ASSUME IInv, Task
  PROVE  Stream!Next \/ UNCHANGED Stream!vars
<1>1. UNCHANGED <<cpc, opened, due, got>>
  BY DEF Task, TaskCommand, OpenFile, LoopHead, TakeNode, ReadNode, EndStream, callVars, userVars
<1>2. cpc = "holding" => big' = big
  <2>1. ASSUME OpenFile PROVE cpc # "holding"
    BY <2>1 DEF OpenFile, IInv, CallStage
  <2>2. QED BY <2>1 DEF Task, TaskCommand, LoopHead, TakeNode, ReadNode, EndStream, dataVars
<1>3. UNCHANGED <<File, Pos, View>>
  BY <1>1, <1>2 DEF File, Pos, View, InSession
<1>4. CASE lost' = lost
  BY <1>3, <1>4, StreamStutters
<1>5. CASE lost' # lost
  <2>1. lost \in Nat /\ lost' = lost + 1
    BY <1>5 DEF Task, TaskCommand, OpenFile, LoopHead, TakeNode, ReadNode, EndStream, IInv, Types
  <2>2. lost' > 0
    BY <2>1
  <2>3. Stream!Fail
    BY <1>3, <2>2 DEF Stream!Fail, File, Pos, View
  <2>4. QED BY <2>3 DEF Stream!Next
<1>6. QED BY <1>4, <1>5

(* A look gives the next bytes of the file, or those that come again after *)
(* a skip past the end: as many as the call wants, or all there are.       *)
LEMMA GiveRefines ==
  ASSUME IInv, Give
  PROVE  Stream!Next
<1>1. /\ Types /\ Wanted /\ LastOnes /\ CallStage /\ Placed /\ cpc = "give" /\ skip = 0
      /\ got' = Least(want, Len(big)) /\ cpc' = "holding"
      /\ UNCHANGED <<opened, due, big, lost>>
  BY DEF IInv, Give, dataVars
<1>2. opened # None /\ InSession /\ InSession' /\ Live
  BY <1>1 DEF CallStage, InSession, Live, Sending
<1>3. /\ opened \in Files /\ Size[opened] \in Nat /\ Rest \in Seq(Octets) /\ Len(Rest) \in Nat
      /\ big \in Seq(Octets) /\ Len(big) \in Nat /\ due \in Nat /\ want \in Nat /\ lost \in Nat
      /\ bytes_left \in Nat
  BY <1>1, <1>2, Lengths
<1>4. PICK p \in Nat : At(p)
  BY <1>1, <1>2 DEF Placed
<1>5. PICK f \in Files, s \in Nat, b \in Nat : f = opened /\ s = Size[f] /\ b = Len(big)
  BY <1>3
<1>6. /\ p + b <= s
      /\ p <= due
      /\ lost = 0 => IF due <= s THEN p = due ELSE s - p < Big
      /\ b >= want \/ (lost = 0 => p + b = s)
      /\ want > 0
  <2>1. /\ p + b + Len(Rest) + bytes_left <= s
        /\ lost = 0 => p + b + Len(Rest) + bytes_left = s
        /\ Reached(p)
    BY <1>1, <1>3, <1>4, <1>5 DEF At
  <2>2. b >= want \/ (Len(Rest) = 0 /\ bytes_left = 0)
    BY <1>1, <1>5, Lengths DEF LastOnes
  <2>3. want > 0
    BY <1>1 DEF Wanted
  <2>4. p <= due /\ (lost = 0 => IF due <= s THEN p = due ELSE s - p < Big)
    BY <1>1, <1>3, <1>5, <2>1 DEF Reached
  <2>5. QED BY <1>3, <2>1, <2>2, <2>3, <2>4
<1>7. PICK g \in Nat, w \in Nat : g = Least(want, b) /\ w = Least(want, s + 1)
  BY <1>3 DEF Least
<1>8. /\ w > 0 /\ w - 1 \in 0 .. s /\ g <= b /\ g <= w
      /\ lost = 0 => g = Least(w, s - p)
  BY <1>3, <1>6, <1>7 DEF Least
<1>9. View' = Bytes(f, p, g) /\ View = None
  <2>1. SubSeq(Bytes(f, p, b), 1, g) = Bytes(f, p, g)
    <3>1. g \in 0 .. b
      BY <1>8
    <3>2. QED BY <3>1, BytesCut
  <2>2. big = Bytes(f, p, b)
    BY <1>4, <1>5, Zenon DEF At
  <2>3. View' = SubSeq(big, 1, g)
    BY <1>1, <1>5, <1>7 DEF View
  <2>4. View = None
    BY <1>1 DEF View
  <2>5. QED BY <2>1, <2>2, <2>3, <2>4, Zenon
<1>10. File = f /\ File' = f /\ Pos = due /\ Pos' = due
  BY <1>1, <1>2, <1>5 DEF File, Pos
<1>11. f # None
  BY FileAssumption
<1>12. CASE lost = 0
  <2>1. View' = Bytes(f, p, Least(w, s - p)) /\ p \in 0 .. s
    BY <1>6, <1>8, <1>9, <1>12
  <2>2. /\ File # None /\ View = None /\ w > 0 /\ UNCHANGED <<File, Pos, lost>>
        /\ Size[File] = s /\ Pos = due
        /\ View' = Stream!Bytes(File, p, Stream!Least(w, s - p))
    BY <1>1, <1>5, <1>8, <1>9, <1>10, <1>11, <2>1 DEF Bytes, Least, Stream!Bytes, Stream!Least
  <2>3. CASE due <= s
    <3>1. Pos <= Size[File] /\ p = Pos
      BY <1>6, <1>12, <2>2, <2>3
    <3>2. Stream!Look(w)
      BY <2>2, <3>1 DEF Stream!Look, File, Pos, View
    <3>3. QED BY <1>3, <1>5, <1>8, <1>10, <1>11, <3>2 DEF Stream!Next, File
  <2>4. CASE ~(due <= s)
    <3>1. Pos > Size[File] /\ p \in 0 .. Size[File] /\ Size[File] - p < Big
      BY <1>3, <1>5, <1>6, <1>12, <2>1, <2>2, <2>4
    <3>2. Stream!Look(w)
      BY <2>2, <3>1 DEF Stream!Look, File, Pos, View
    <3>3. QED BY <1>3, <1>5, <1>8, <1>10, <1>11, <3>2 DEF Stream!Next, File
  <2>5. QED BY <2>3, <2>4
<1>13. CASE lost # 0
  <2>1. lost > 0 /\ p \in 0 .. s /\ g \in 0 .. Least(w, s - p)
    BY <1>3, <1>6, <1>8, <1>13 DEF Least
  <2>2. \E q \in 0 .. s : \E n \in 0 .. Least(w, s - q) : q <= due /\ View' = Bytes(f, q, n)
    BY <1>6, <1>9, <2>1
  <2>3. \E q \in 0 .. Size[File] : \E n \in 0 .. Stream!Least(w, Size[File] - q) :
          q <= Pos /\ View' = Stream!Bytes(File, q, n)
    <3>1. PICK q \in 0 .. s : \E n \in 0 .. Least(w, s - q) : q <= due /\ View' = Bytes(f, q, n)
      BY <2>2
    <3>2. PICK n \in 0 .. Least(w, s - q) : q <= due /\ View' = Bytes(f, q, n)
      BY <3>1, Zenon
    <3>3. Size[File] = s /\ Stream!Least(w, s - q) = Least(w, s - q)
          /\ Stream!Bytes(f, q, n) = Bytes(f, q, n)
      BY <1>5, <1>10 DEF Least, Stream!Least, Bytes, Stream!Bytes
    <3>4. q \in 0 .. Size[File] /\ n \in 0 .. Stream!Least(w, Size[File] - q)
      BY <3>3, Zenon
    <3>5. q <= Pos /\ View' = Stream!Bytes(File, q, n)
      BY <1>10, <3>2, <3>3, Zenon
    <3>6. QED BY <3>4, <3>5, Zenon
  <2>4. Stream!Look(w)
    <3>1. File # None /\ View = None /\ w > 0 /\ UNCHANGED <<File, Pos, lost>>
      BY <1>1, <1>8, <1>9, <1>10, <1>11
    <3>2. QED BY <2>1, <2>3, <3>1 DEF Stream!Look, File, Pos, View
  <2>5. QED BY <1>3, <1>5, <1>8, <1>10, <1>11, <2>4 DEF Stream!Next, File
<1>14. QED BY <1>12, <1>13

(* The other steps of the caller: opened, closed, used, skipped, or none.  *)
LEMMA CallerRefines ==
  ASSUME IInv, None \notin Seq(Octets), Call \/ InCall
  PROVE  Stream!Next \/ UNCHANGED Stream!vars
<1>1. /\ Types /\ Wanted /\ CallStage /\ Placed /\ opened \in Files \cup {None}
      /\ big \in Seq(Octets) /\ Len(big) \in Nat /\ got \in 0 .. Big /\ due \in Nat
  BY DEF IInv, Types
<1>2. lost' = lost
  BY DEF Call, InCall, CallClose, CallOpen, CallGet, CallSkip, CallRelease, CloseSend,
     Drain, Drained, CloseAck, Flushed, OpenSend, OpenAck, LookAtState, Take, TakeNothing, Give,
     GiveToSkip
<1>3. ASSUME UNCHANGED <<File, Pos, View>> PROVE UNCHANGED Stream!vars
  BY <1>2, <1>3, StreamStutters
<1>4. CASE CallClose
  <2>1. File \in Files /\ File # None /\ View = None /\ File' = None /\ Pos' = 0 /\ View' = View
    BY <1>1, <1>4 DEF CallClose, File, Pos, View, InSession
  <2>2. Stream!Close
    BY <1>2, <2>1 DEF Stream!Close, File, Pos, View
  <2>3. QED BY <2>2 DEF Stream!Next
<1>5. ASSUME NEW f \in Files, CallOpen(f) PROVE UNCHANGED Stream!vars
  <2>1. UNCHANGED <<File, Pos, View>>
    BY <1>5 DEF CallOpen, File, Pos, View, InSession
  <2>2. QED BY <1>3, <2>1
<1>6. ASSUME NEW n \in Asked, CallGet(n) PROVE UNCHANGED Stream!vars
  <2>1. UNCHANGED <<File, Pos, View>>
    BY <1>6 DEF CallGet, File, Pos, View, InSession, userVars
  <2>2. QED BY <1>3, <2>1
<1>7. ASSUME NEW n \in Skipped, CallSkip(n) PROVE Stream!Next
  <2>1. n \in Nat /\ cpc = "out" /\ opened # None /\ due' = Forward(n)
        /\ opened' = opened /\ cpc' \in {"out", "look"}
    BY <1>7, AskedAssumption DEF CallSkip
  <2>2. File = opened /\ File' = File /\ Pos = due /\ Pos' = Forward(n)
        /\ View = None /\ View' = None
    BY <2>1 DEF File, Pos, View, InSession
  <2>3. Size[opened] \in Nat
    BY <1>1, <2>1, FileAssumption
  <2>4. PICK m \in 0 .. Size[File] + 1 : m = Least(n, Size[File] + 1)
    BY <2>1, <2>2, <2>3 DEF Least
  <2>5. Pos' = Stream!Least(Pos + m, Size[File] + 1)
    BY <1>1, <2>1, <2>2, <2>3, <2>4 DEF Forward, Least, Stream!Least
  <2>6. Stream!Skip(m)
    BY <1>2, <2>1, <2>2, <2>5 DEF Stream!Skip, Stream!Forward, File, Pos, View
  <2>7. QED BY <2>1, <2>2, <2>4, <2>6 DEF Stream!Next, File
<1>8. ASSUME NEW n \in 0 .. Big, CallRelease(n) PROVE Stream!Next
  <2>1. /\ cpc = "holding" /\ cpc' = "out" /\ n <= got /\ due' = Forward(n) /\ opened' = opened
        /\ opened # None /\ got <= Len(big)
    BY <1>1, <1>8 DEF CallRelease, CallStage, Wanted
  <2>2. File = opened /\ File' = File /\ Pos = due /\ Pos' = Forward(n) /\ View' = None
        /\ View = SubSeq(big, 1, got)
    BY <2>1 DEF File, Pos, View, InSession
  <2>3. SubSeq(big, 1, got) \in Seq(Octets) /\ Len(SubSeq(big, 1, got)) = got
    <3>1. PICK g \in Nat : g = got /\ g <= Len(big)
      BY <1>1, <2>1
    <3>2. \A i \in 1 .. g : big[i] \in Octets
      BY <1>1, <3>1
    <3>3. SubSeq(big, 1, g) \in Seq(Octets) /\ Len(SubSeq(big, 1, g)) = IF 1 <= g THEN g - 1 + 1 ELSE 0
      BY <3>2, SubSeqProperties
    <3>4. QED BY <3>1, <3>3
  <2>4. View # None /\ n <= Len(View)
    BY <2>1, <2>2, <2>3
  <2>5. n \in 0 .. Size[File] + 1
    <3>1. Live
      BY <2>1 DEF Live, Sending
    <3>2. PICK p \in Nat : At(p)
      BY <1>1, <3>1 DEF Placed
    <3>3. /\ Size[opened] \in Nat /\ Len(Rest) \in Nat /\ bytes_left \in Nat
      BY <1>1, <2>1, Lengths
    <3>4. p + Len(big) + Len(Rest) + bytes_left <= Size[opened]
      BY <3>2 DEF At
    <3>5. QED BY <1>1, <2>1, <2>2, <3>3, <3>4
  <2>6. Stream!Release(n)
    <3>1. Pos' = Stream!Least(Pos + n, Size[File] + 1)
      BY <2>2 DEF Forward, Least, Stream!Least
    <3>2. QED BY <1>2, <2>2, <2>4, <3>1 DEF Stream!Release, Stream!Forward, File, Pos, View
  <2>7. QED BY <2>1, <2>2, <2>5, <2>6 DEF Stream!Next, File
<1>9. CASE OpenAck
  <2>1. /\ cpc = "wait" /\ cpc' = "out" /\ due = 0 /\ due' = due
        /\ opened' = IF command.cmd = "STREAMING" THEN opened ELSE None
        /\ opened # None
    BY <1>1, <1>9 DEF OpenAck, Wanted, CallStage
  <2>2. File = None /\ Pos = 0 /\ Pos' = 0 /\ View = None /\ View' = None /\ File' = opened'
    BY <2>1 DEF File, Pos, View, InSession
  <2>3. CASE command.cmd = "STREAMING"
    <3>1. opened \in Files /\ File' = opened
      BY <1>1, <2>1, <2>2, <2>3
    <3>2. Stream!Open(opened)
      BY <1>2, <2>2, <3>1 DEF Stream!Open, File, Pos, View
    <3>3. QED BY <3>1, <3>2 DEF Stream!Next
  <2>4. CASE command.cmd # "STREAMING"
    <3>1. File' = None
      BY <2>1, <2>2, <2>4
    <3>2. QED BY <1>3, <2>2, <3>1
  <2>5. QED BY <2>3, <2>4
<1>10. ASSUME \/ CloseSend \/ Drain \/ Drained \/ CloseAck \/ Flushed \/ OpenSend
              \/ LookAtState \/ Take \/ TakeNothing \/ GiveToSkip
       PROVE  UNCHANGED Stream!vars
  <2>1. cpc # "holding" /\ cpc' # "holding"
    BY <1>10 DEF CloseSend, Drain, Drained, CloseAck, AfterAck, Flushed, OpenSend, LookAtState,
       Take, TakeNothing, GiveToSkip, callVars
  <2>2. File' = File /\ Pos' = Pos
    <3>1. CASE LookAtState \/ Take \/ TakeNothing \/ GiveToSkip
      <4>1. /\ cpc \in {"look", "take", "give"} /\ cpc' \in {"out", "look", "take", "give"}
            /\ opened' = opened /\ due' = due
        BY <3>1 DEF LookAtState, Take, TakeNothing, GiveToSkip, userVars
      <4>2. QED BY <4>1 DEF File, Pos, InSession
    <3>2. CASE \/ CloseSend \/ Drain \/ Drained \/ CloseAck \/ Flushed \/ OpenSend
      <4>1. ~InSession
        BY <3>2 DEF CloseSend, Drain, Drained, CloseAck, Flushed, OpenSend, InSession
      <4>2. ~InSession'
        BY <3>2 DEF CloseSend, Drain, Drained, CloseAck, AfterAck, Flushed, OpenSend, InSession,
           callVars, userVars
      <4>3. QED BY <4>1, <4>2 DEF File, Pos
    <3>3. QED BY <1>10, <3>1, <3>2
  <2>3. View' = View
    BY <2>1 DEF View
  <2>4. QED BY <1>3, <2>2, <2>3
<1>11. QED BY <1>4, <1>5, <1>6, <1>7, <1>8, <1>9, <1>10, GiveRefines DEF Call, InCall

(* The decoder sees a plain file, whatever the task, the queues and the    *)
(* buffers do, and the card up to its first failed read; a decoder that    *)
(* skips past the end sees some of the last bytes again.                   *)
THEOREM StreamImplemented == None \notin Seq(Octets) => (Spec => ImplementsStream)
<1> SUFFICES ASSUME None \notin Seq(Octets) PROVE Spec => ImplementsStream
  OBVIOUS
<1>1. Init => Stream!Init
  BY DEF Init, Stream!Init, InSession
<1>2. ASSUME IInv, [Next]_vars PROVE [Stream!Next]_(Stream!vars)
  <2>1. CASE Next
    BY <1>2, <2>1, TaskRefines, CallerRefines DEF Next
  <2>2. CASE UNCHANGED vars
    BY <2>2 DEF vars, callVars, userVars, dataVars, Stream!vars, InSession
  <2>3. QED BY <1>2, <2>1, <2>2
<1>3. QED BY <1>1, <1>2, InvHolds, PTL DEF Spec, ImplementsStream, Stream!Spec

-----------------------------------------------------------------------------
(* A call on its way out: CallsReturnUnfailed but for the fairness.  What  *)
(* is said here of a call that waits rests on the priorities: a caller     *)
(* that looked at __state in the middle of a step of the task could wait   *)
(* for a node that never comes.                                            *)

(* A receive that waits has a node, or the task is reading one for it; and *)
(* a close that waits for its acknowledgement has left the task its nodes. *)
Comes == cpc = "take" /\ wait /\ lost = 0 => data_active # <<>> \/ pc = "read"
Room == cpc = "ack" /\ command.at = "active" /\ pc = "node" => data_active = <<>>

(* Who can take a step: the task, the card that reads for it, or the call. *)
CanGoOn ==
  \/ TaskReady \/ pc \in {"open", "read"}
  \/ cpc \in {"drain", "flush", "look", "give"}
  \/ cpc \in {"close", "ack", "open", "wait"} /\ command.at = "idle"
  \/ cpc = "take" /\ (data_active # <<>> \/ ~wait)

(* The task keeps what a waiting call counts on ...                        *)
LEMMA TaskKeepsPromises ==
  ASSUME IInv, Comes, Room, Task
  PROVE  Comes' /\ Room'
<1>1. /\ CallStage /\ data_active \in Seq(Nodes) /\ command \in Commands /\ lost \in Nat
      /\ UNCHANGED <<cpc, wait>>
  BY DEF IInv, Types, Task, TaskCommand, OpenFile, LoopHead, TakeNode, ReadNode, EndStream,
     callVars
<1>2. CASE TaskCommand
  <2>1. pc = "command" /\ pc' # "node" /\ UNCHANGED <<data_active, lost>>
    BY <1>2 DEF TaskCommand, dataVars
  <2>2. QED BY <1>1, <2>1 DEF Comes, Room
<1>3. CASE OpenFile
  BY <1>1, <1>3 DEF OpenFile, Comes, Room
<1>4. CASE LoopHead
  <2>1. pc = "loop" /\ UNCHANGED <<data_active, lost>>
    BY <1>4 DEF LoopHead, dataVars
  <2>2. pc' = "node" => command'.at # "active"
    BY <1>4, <1>1 DEF LoopHead, IInv, Types
  <2>3. QED BY <1>1, <2>1, <2>2 DEF Comes, Room
<1>5. CASE TakeNode
  BY <1>1, <1>5 DEF TakeNode, Comes, Room
<1>6. CASE ReadNode
  <2>1. pc' = "loop"
    BY <1>6 DEF ReadNode
  <2>2. \/ lost' = lost + 1
        \/ lost' = lost /\ data_active' # <<>>
    BY <1>1, <1>6 DEF ReadNode
  <2>3. QED BY <1>1, <2>1, <2>2 DEF Comes, Room
<1>7. CASE EndStream
  BY <1>1, <1>7 DEF EndStream, Comes, Room, dataVars
<1>8. QED BY <1>2, <1>3, <1>4, <1>5, <1>6, <1>7 DEF Task

(* ... and a call that begins to wait, only when the task is not about to  *)
(* run, has it.                                                            *)
LEMMA CallerKeepsPromises ==
  ASSUME IInv, Comes, Room, CallerRuns, Call \/ InCall
  PROVE  Comes' /\ Room'
<1>1. /\ TaskStage /\ CallStage /\ Counted /\ data_active \in Seq(Nodes) /\ lost \in Nat
      /\ data_idle \in Nat /\ Len(data_active) \in Nat
      /\ pc \in {"command", "open", "loop", "node", "read", "done"}
  BY DEF IInv, Types
<1>2. CASE LookAtState
  <2>1. /\ cpc' = "take" /\ UNCHANGED <<data_active, pc, lost, command>>
        /\ wait' = (state = "STREAMING")
    BY <1>2 DEF LookAtState, dataVars, taskVars, commandVars
  <2>2. state = "STREAMING" => pc = "read" \/ (pc = "node" /\ data_idle = 0)
    BY <1>1 DEF CallerRuns, TaskReady, TaskStage
  <2>3. pc = "node" /\ data_idle = 0 /\ lost = 0 => data_active # <<>>
    BY <1>1, BufferAssumption DEF Counted
  <2>4. QED BY <2>1, <2>2, <2>3 DEF Comes, Room
<1>3. CASE Drained
  BY <1>3 DEF Drained, Comes, Room, dataVars
<1>4. CASE ~LookAtState /\ ~Drained
  <2>1. cpc' \notin {"take", "ack"}
    <3>1. CASE Call
      BY <1>1, <3>1 DEF Call, CallClose, CallOpen, CallGet, CallSkip, CallRelease
    <3>2. CASE InCall
      <4>1. CASE Take
        BY <4>1 DEF Take
      <4>2. CASE GiveToSkip
        <5>1. cpc' = CASE skip' = 0 -> "out" [] Len(big') < want' -> "look" [] OTHER -> "give"
          BY <4>2 DEF GiveToSkip
        <5>2. QED BY <5>1
      <4>3. QED BY <1>4, <3>2, <4>1, <4>2 DEF InCall, CloseSend, Drain, CloseAck, AfterAck,
                Flushed, OpenSend, OpenAck, TakeNothing, Give, callVars
    <3>3. QED BY <3>1, <3>2
  <2>2. QED BY <2>1 DEF Comes, Room
<1>5. QED BY <1>2, <1>3, <1>4

(* While no read has failed, a call is never stuck: someone can go on.     *)
LEMMA SomeoneCanGoOn ==
  ASSUME IInv, Comes, Room, InACall, lost = 0
  PROVE  CanGoOn
<1>1. /\ CallStage /\ Counted /\ data_active \in Seq(Nodes) /\ data_idle \in Nat
      /\ pc \in {"command", "open", "loop", "node", "read", "done"}
      /\ cpc \in {"close", "drain", "ack", "flush", "open", "wait", "look", "take", "give"}
  BY DEF IInv, Types, InACall
<1>2. CASE cpc \in {"close", "drain", "flush", "open", "look", "give"}
  BY <1>1, <1>2 DEF CallStage, CanGoOn
<1>3. CASE cpc = "wait"
  BY <1>1, <1>3 DEF CallStage, CanGoOn, TaskReady
<1>4. CASE cpc = "take"
  BY <1>4 DEF Comes, CanGoOn
<1>5. CASE cpc = "ack"
  <2>1. \/ command.at = "active"
        \/ command.at = "task" /\ pc = "done"
        \/ command.at = "idle"
    BY <1>1, <1>5 DEF CallStage
  <2>2. CASE command.at = "active" /\ pc = "node"
    <3>1. Len(data_active) = 0
      BY <1>5, <2>2 DEF Room
    <3>2. data_idle > 0
      BY <1>1, <2>2, <3>1, BufferAssumption DEF Counted
    <3>3. QED BY <2>2, <3>2 DEF CanGoOn, TaskReady
  <2>3. CASE ~(command.at = "active" /\ pc = "node")
    BY <1>1, <1>5, <2>1, <2>3 DEF CanGoOn, TaskReady
  <2>4. QED BY <2>2, <2>3
<1>6. QED BY <1>1, <1>2, <1>3, <1>4, <1>5

(* No call waits for what cannot come: unless a read has failed, whenever  *)
(* a caller is inside fstream_open, fstream_close, fstream_get_buffer or   *)
(* fstream_skip, a step of the task or of the call is possible.            *)
THEOREM CallsGoOn == Spec => [](InACall /\ lost = 0 => CanGoOn)
<1>1. Init => Comes /\ Room
  BY DEF Init, Comes, Room
<1>2. ASSUME IInv, Comes, Room, [Next]_vars PROVE Comes' /\ Room'
  <2>1. CASE UNCHANGED vars
    BY <1>2, <2>1 DEF vars, commandVars, dataVars, taskVars, callVars, Comes, Room
  <2>2. QED BY <1>2, <2>1, TaskKeepsPromises, CallerKeepsPromises DEF Next
<1>3. IInv /\ Comes /\ Room => (InACall /\ lost = 0 => CanGoOn)
  BY SomeoneCanGoOn
<1>4. QED BY <1>1, <1>2, <1>3, InvHolds, PTL DEF Spec

(* The steps that are left: what the task has to do for its file, what the *)
(* command that waits for it will make it do, what the call has to do; and *)
(* a queued node is looked at and taken.                                   *)
SizeOf(f) == IF f = None THEN 0 ELSE Size[f]
TaskAhead ==
  CASE pc = "command" -> 0
    [] pc = "done" -> 1
    [] pc = "loop" -> 5 * bytes_left + 2
    [] pc = "node" -> 5 * bytes_left + 1
    [] pc = "read" -> 5 * bytes_left
    [] pc = "open" -> 5 * SizeOf(fd) + 3
CommandAhead ==
  IF command.at # "active" THEN 0
  ELSE IF command.cmd = "STREAMING" THEN 5 * SizeOf(command.name) + 4 ELSE 1
CallAhead ==
  CASE cpc \in {"out", "holding"} -> 0
    [] cpc = "wait" -> 1
    [] cpc = "open" -> 5 * SizeOf(opened) + 6
    [] cpc = "flush" -> 5 * SizeOf(opened) + 7
    [] cpc = "ack" -> 5 * SizeOf(opened) + 8
    [] cpc = "drain" -> 5 * SizeOf(opened) + 9
    [] cpc = "close" -> 5 * SizeOf(opened) + 11
    [] cpc = "give" -> 5 * skip + 1
    [] cpc = "take" -> 5 * skip + 2
    [] cpc = "look" -> 5 * skip + 3
StepsLeft == TaskAhead + CommandAhead + CallAhead + 2 * Len(data_active)

LEMMA SizeOfType == \A f \in Files \cup {None} : SizeOf(f) \in Nat
BY FileAssumption DEF SizeOf

LEMMA TaskAheadIs ==
  /\ pc = "command" => TaskAhead = 0
  /\ pc = "done" => TaskAhead = 1
  /\ pc = "loop" => TaskAhead = 5 * bytes_left + 2
  /\ pc = "node" => TaskAhead = 5 * bytes_left + 1
  /\ pc = "read" => TaskAhead = 5 * bytes_left
  /\ pc = "open" => TaskAhead = 5 * SizeOf(fd) + 3
BY DEF TaskAhead

LEMMA TaskAheadNext ==
  /\ pc' = "command" => TaskAhead' = 0
  /\ pc' = "done" => TaskAhead' = 1
  /\ pc' = "loop" => TaskAhead' = 5 * bytes_left' + 2
  /\ pc' = "node" => TaskAhead' = 5 * bytes_left' + 1
  /\ pc' = "read" => TaskAhead' = 5 * bytes_left'
  /\ pc' = "open" => TaskAhead' = 5 * SizeOf(fd') + 3
BY DEF TaskAhead, SizeOf

LEMMA CallAheadIs ==
  /\ cpc \in {"out", "holding"} => CallAhead = 0
  /\ cpc = "wait" => CallAhead = 1
  /\ cpc = "open" => CallAhead = 5 * SizeOf(opened) + 6
  /\ cpc = "flush" => CallAhead = 5 * SizeOf(opened) + 7
  /\ cpc = "ack" => CallAhead = 5 * SizeOf(opened) + 8
  /\ cpc = "drain" => CallAhead = 5 * SizeOf(opened) + 9
  /\ cpc = "close" => CallAhead = 5 * SizeOf(opened) + 11
  /\ cpc = "give" => CallAhead = 5 * skip + 1
  /\ cpc = "take" => CallAhead = 5 * skip + 2
  /\ cpc = "look" => CallAhead = 5 * skip + 3
BY DEF CallAhead

LEMMA CallAheadNext ==
  /\ cpc' \in {"out", "holding"} => CallAhead' = 0
  /\ cpc' = "wait" => CallAhead' = 1
  /\ cpc' = "open" => CallAhead' = 5 * SizeOf(opened') + 6
  /\ cpc' = "flush" => CallAhead' = 5 * SizeOf(opened') + 7
  /\ cpc' = "ack" => CallAhead' = 5 * SizeOf(opened') + 8
  /\ cpc' = "drain" => CallAhead' = 5 * SizeOf(opened') + 9
  /\ cpc' = "close" => CallAhead' = 5 * SizeOf(opened') + 11
  /\ cpc' = "give" => CallAhead' = 5 * skip' + 1
  /\ cpc' = "take" => CallAhead' = 5 * skip' + 2
  /\ cpc' = "look" => CallAhead' = 5 * skip' + 3
BY DEF CallAhead, SizeOf

LEMMA CommandAheadIs ==
  /\ command.at # "active" => CommandAhead = 0
  /\ command.at = "active" /\ command.cmd = "STREAMING" =>
       CommandAhead = 5 * SizeOf(command.name) + 4
  /\ command.at = "active" /\ command.cmd # "STREAMING" => CommandAhead = 1
BY DEF CommandAhead

LEMMA CommandAheadNext ==
  /\ command'.at # "active" => CommandAhead' = 0
  /\ command'.at = "active" /\ command'.cmd = "STREAMING" =>
       CommandAhead' = 5 * SizeOf(command'.name) + 4
  /\ command'.at = "active" /\ command'.cmd # "STREAMING" => CommandAhead' = 1
BY DEF CommandAhead, SizeOf

LEMMA AheadType ==
  ASSUME IInv
  PROVE  TaskAhead \in Nat /\ CommandAhead \in Nat /\ CallAhead \in Nat
         /\ Len(data_active) \in Nat
<1>1. /\ command.name \in Files \cup {None} /\ fd \in Files \cup {None}
      /\ opened \in Files \cup {None} /\ bytes_left \in Nat /\ skip \in Nat
      /\ Len(data_active) \in Nat
      /\ pc \in {"command", "open", "loop", "node", "read", "done"}
      /\ cpc \in {"out", "close", "drain", "ack", "flush", "open", "wait", "look", "take",
              "give", "holding"}
  BY DEF IInv, Types, Commands
<1>2. SizeOf(command.name) \in Nat /\ SizeOf(fd) \in Nat /\ SizeOf(opened) \in Nat
  BY <1>1, SizeOfType
<1>3. TaskAhead \in Nat
  BY <1>1, <1>2, TaskAheadIs
<1>4. CommandAhead \in Nat
  BY <1>2, CommandAheadIs
<1>5. CallAhead \in Nat
  BY <1>1, <1>2, CallAheadIs, SMTT(40)
<1>6. QED BY <1>1, <1>3, <1>4, <1>5

LEMMA AheadTypeNext ==
  ASSUME IInv'
  PROVE  TaskAhead' \in Nat /\ CommandAhead' \in Nat /\ CallAhead' \in Nat
         /\ Len(data_active') \in Nat
<1>1. /\ command'.name \in Files \cup {None} /\ fd' \in Files \cup {None}
      /\ opened' \in Files \cup {None} /\ bytes_left' \in Nat /\ skip' \in Nat
      /\ Len(data_active') \in Nat
      /\ pc' \in {"command", "open", "loop", "node", "read", "done"}
      /\ cpc' \in {"out", "close", "drain", "ack", "flush", "open", "wait", "look", "take",
              "give", "holding"}
  BY DEF IInv, Types, Commands
<1>2. SizeOf(command'.name) \in Nat /\ SizeOf(fd') \in Nat /\ SizeOf(opened') \in Nat
  BY <1>1, SizeOfType
<1>3. TaskAhead' \in Nat
  BY <1>1, <1>2, TaskAheadNext
<1>4. CommandAhead' \in Nat
  BY <1>2, CommandAheadNext
<1>5. CallAhead' \in Nat
  <2>1. CASE cpc' \in {"out", "holding", "wait"}
    BY <2>1, CallAheadNext
  <2>2. CASE cpc' \in {"open", "flush", "ack", "drain", "close"}
    BY <1>2, <2>2, CallAheadNext
  <2>3. CASE cpc' \in {"give", "take", "look"}
    BY <1>1, <2>3, CallAheadNext
  <2>4. QED BY <1>1, <2>1, <2>2, <2>3
<1>6. QED BY <1>1, <1>3, <1>4, <1>5

(* Each step of the task brings a call nearer to its end ...               *)
LEMMA TaskNearer ==
  ASSUME IInv, IInv', Task
  PROVE  StepsLeft' < StepsLeft
<1>1. /\ TaskStage /\ CallStage /\ command \in Commands /\ bytes_left \in Nat
      /\ data_active \in Seq(Nodes) /\ fd \in Files \cup {None}
  BY DEF IInv, Types
<1>2. /\ command.at \in {"idle", "active", "task"} /\ command.cmd \in {"IDLE", "STREAMING"}
      /\ command.name \in Files \cup {None}
  BY <1>1 DEF Commands
<1>3. PICK t \in Nat, m \in Nat, c \in Nat, n \in Nat :
        TaskAhead = t /\ CommandAhead = m /\ CallAhead = c /\ Len(data_active) = n
  BY AheadType
<1>4. PICK t1 \in Nat, m1 \in Nat, c1 \in Nat, n1 \in Nat :
        TaskAhead' = t1 /\ CommandAhead' = m1 /\ CallAhead' = c1 /\ Len(data_active') = n1
  BY AheadTypeNext
<1>5. c1 = c
  <2>1. UNCHANGED <<cpc, opened, skip>>
    BY DEF Task, TaskCommand, OpenFile, LoopHead, TakeNode, ReadNode, EndStream, callVars, userVars
  <2>2. CallAhead' = CallAhead
    BY <2>1 DEF CallAhead
  <2>3. QED BY <1>3, <1>4, <2>2
<1>6. SUFFICES t1 + m1 + 2 * n1 < t + m + 2 * n
  <2>1. StepsLeft = t + m + c + 2 * n
    BY <1>3 DEF StepsLeft
  <2>2. StepsLeft' = t1 + m1 + c1 + 2 * n1
    BY <1>4 DEF StepsLeft
  <2>3. QED BY <1>5, <2>1, <2>2
<1>7. CASE TaskCommand
  <2>1. pc = "command" /\ command.at = "active" /\ n1 = n /\ t = 0
    BY <1>3, <1>4, <1>7, TaskAheadIs DEF TaskCommand, dataVars
  <2>2. CASE command.cmd = "STREAMING"
    <3>1. /\ command' = [command EXCEPT !.at = "task", !.name = None]
          /\ fd' = command.name /\ pc' = "open"
      BY <1>7, <2>2 DEF TaskCommand
    <3>2. m1 = 0
      <4>1. command'.at = "task"
        BY <1>1, <3>1 DEF Commands
      <4>2. QED BY <1>4, <4>1, CommandAheadNext
    <3>3. PICK s \in Nat : s = SizeOf(command.name)
      BY <1>2, SizeOfType
    <3>4. t1 = 5 * s + 3 /\ m = 5 * s + 4
      BY <1>3, <1>4, <2>1, <2>2, <3>1, <3>3, TaskAheadNext, CommandAheadIs
    <3>5. QED BY <2>1, <3>2, <3>4
  <2>3. CASE command.cmd # "STREAMING"
    <3>1. pc' = "command" /\ command'.at = "idle"
      BY <1>1, <1>7, <2>1, <2>3 DEF TaskCommand, Acknowledge, Commands
    <3>2. t1 = 0 /\ m1 = 0 /\ m = 1
      BY <1>3, <1>4, <2>1, <2>3, <3>1, TaskAheadNext, CommandAheadNext, CommandAheadIs
    <3>3. QED BY <2>1, <3>2
  <2>4. QED BY <2>2, <2>3
<1>8. CASE OpenFile
  <2>1. pc = "open" /\ n1 = n /\ fd # None /\ command'.at = "idle"
    BY <1>1, <1>3, <1>4, <1>8 DEF OpenFile, TaskStage, Acknowledge, Commands
  <2>2. PICK s \in Nat : s = Size[fd] /\ s = SizeOf(fd)
    BY <1>1, <2>1, FileAssumption DEF SizeOf
  <2>3. t = 5 * s + 3 /\ m1 = 0
    BY <1>3, <1>4, <2>1, <2>2, TaskAheadIs, CommandAheadNext
  <2>4. t1 = 0 \/ t1 = 5 * s + 2
    BY <1>4, <1>8, <2>2, TaskAheadNext DEF OpenFile
  <2>5. QED BY <2>1, <2>3, <2>4
<1>9. CASE LoopHead
  <2>1. pc = "loop" /\ n1 = n /\ t = 5 * bytes_left + 2
    BY <1>3, <1>4, <1>9, TaskAheadIs DEF LoopHead, dataVars
  <2>2. CASE bytes_left > 0 /\ command.at = "active"
    <3>1. pc' = "done" /\ command'.at = "task"
      BY <1>1, <1>9, <2>2 DEF LoopHead, Commands
    <3>2. t1 = 1 /\ m1 = 0
      BY <1>4, <3>1, TaskAheadNext, CommandAheadNext
    <3>3. QED BY <1>1, <2>1, <2>2, <3>2
  <2>3. CASE ~(bytes_left > 0 /\ command.at = "active")
    <3>1. /\ command' = command /\ bytes_left' = bytes_left
          /\ pc' = IF bytes_left = 0 THEN "done" ELSE "node"
      BY <1>9, <2>3 DEF LoopHead
    <3>2. m1 = m
      <4>1. CommandAhead' = CommandAhead
        BY <3>1 DEF CommandAhead, SizeOf
      <4>2. QED BY <1>3, <1>4, <4>1
    <3>3. t1 < t
      BY <1>1, <1>4, <2>1, <3>1, TaskAheadNext
    <3>4. QED BY <2>1, <3>2, <3>3
  <2>4. QED BY <2>2, <2>3
<1>10. ASSUME UNCHANGED command PROVE m1 = m
  <2>1. CommandAhead' = CommandAhead
    BY <1>10 DEF CommandAhead, SizeOf
  <2>2. QED BY <1>3, <1>4, <2>1
<1>11. CASE TakeNode
  <2>1. pc = "node" /\ pc' = "read" /\ bytes_left' = bytes_left /\ n1 = n /\ m1 = m
    BY <1>3, <1>4, <1>10, <1>11 DEF TakeNode, commandVars
  <2>2. t = 5 * bytes_left + 1 /\ t1 = 5 * bytes_left
    BY <1>3, <1>4, <2>1, TaskAheadIs, TaskAheadNext
  <2>3. QED BY <1>1, <2>1, <2>2
<1>12. CASE ReadNode
  <2>1. pc = "read" /\ pc' = "loop" /\ m1 = m /\ bytes_left > 0
    BY <1>1, <1>10, <1>12 DEF ReadNode, commandVars, TaskStage
  <2>2. t = 5 * bytes_left /\ t1 = 5 * bytes_left' + 2
    BY <1>3, <1>4, <2>1, TaskAheadIs, TaskAheadNext
  <2>3. CASE bytes_left' = 0 /\ UNCHANGED data_active
    BY <1>1, <1>3, <1>4, <2>1, <2>2, <2>3
  <2>4. CASE /\ bytes_left' = bytes_left - Requested
             /\ \E e : data_active' = Append(data_active, e)
    <3>1. PICK r \in Nat : r = Requested /\ r > 0 /\ r <= bytes_left
      BY <1>1, <2>1, BufferAssumption DEF Requested, Least
    <3>2. n1 = n + 1
      BY <1>1, <1>3, <1>4, <2>4
    <3>3. t1 = 5 * (bytes_left - r) + 2
      BY <2>2, <2>4, <3>1
    <3>4. QED BY <1>1, <2>1, <2>2, <3>1, <3>2, <3>3
  <2>5. QED BY <1>12, <2>3, <2>4 DEF ReadNode
<1>13. CASE EndStream
  <2>1. pc = "done" /\ pc' = "command" /\ n1 = n
    BY <1>3, <1>4, <1>13 DEF EndStream, dataVars
  <2>2. t = 1 /\ t1 = 0
    BY <1>3, <1>4, <2>1, TaskAheadIs, TaskAheadNext
  <2>3. CASE command.at = "task"
    <3>1. command'.at = "idle"
      BY <1>1, <1>13, <2>3 DEF EndStream, Acknowledge, Commands
    <3>2. m1 = 0
      BY <1>4, <3>1, CommandAheadNext
    <3>3. QED BY <2>1, <2>2, <3>2
  <2>4. CASE command.at # "task"
    BY <1>10, <1>13, <2>1, <2>2, <2>4 DEF EndStream
  <2>5. QED BY <2>3, <2>4
<1>14. QED BY <1>7, <1>8, <1>9, <1>11, <1>12, <1>13 DEF Task

(* ... and so does each of its own.                                        *)
LEMMA CallNearer ==
  ASSUME IInv, IInv', InCall
  PROVE  StepsLeft' < StepsLeft
<1>1. /\ Wanted /\ CallStage /\ command \in Commands /\ skip \in Nat /\ want \in 0 .. Big
      /\ data_active \in Seq(Nodes) /\ opened \in Files \cup {None}
  BY DEF IInv, Types
<1>2. PICK t \in Nat, m \in Nat, c \in Nat, n \in Nat :
        TaskAhead = t /\ CommandAhead = m /\ CallAhead = c /\ Len(data_active) = n
  BY AheadType
<1>3. PICK t1 \in Nat, m1 \in Nat, c1 \in Nat, n1 \in Nat :
        TaskAhead' = t1 /\ CommandAhead' = m1 /\ CallAhead' = c1 /\ Len(data_active') = n1
  BY AheadTypeNext
<1>4. t1 = t
  <2>1. UNCHANGED taskVars
    BY DEF InCall, CloseSend, Drain, Drained, CloseAck, Flushed, OpenSend, OpenAck, LookAtState,
       Take, TakeNothing, Give, GiveToSkip
  <2>2. UNCHANGED <<pc, fd, bytes_left>>
    BY <2>1 DEF taskVars
  <2>3. TaskAhead' = TaskAhead
    BY <2>2 DEF TaskAhead, SizeOf
  <2>4. QED BY <1>2, <1>3, <2>3
<1>5. SUFFICES m1 + c1 + 2 * n1 < m + c + 2 * n
  <2>1. StepsLeft = t + m + c + 2 * n
    BY <1>2 DEF StepsLeft
  <2>2. StepsLeft' = t1 + m1 + c1 + 2 * n1
    BY <1>3 DEF StepsLeft
  <2>3. QED BY <1>4, <2>1, <2>2
<1>6. ASSUME UNCHANGED command PROVE m1 = m
  <2>1. CommandAhead' = CommandAhead
    BY <1>6 DEF CommandAhead, SizeOf
  <2>2. QED BY <1>2, <1>3, <2>1
<1>7. data_active # <<>> => Len(Tail(data_active)) = n - 1
  BY <1>1, <1>2
<1>8. PICK s \in Nat : s = SizeOf(opened)
  BY <1>1, SizeOfType
<1>9. CASE CloseSend
  <2>1. /\ cpc = "close" /\ cpc' = "drain" /\ opened' = opened /\ n1 = n
        /\ command.at = "idle" /\ command'.at = "active" /\ command'.cmd = "IDLE"
    BY <1>2, <1>3, <1>9 DEF CloseSend, dataVars, userVars
  <2>2. m = 0 /\ m1 = 1 /\ c = 5 * s + 11 /\ c1 = 5 * s + 9
    BY <1>2, <1>3, <1>8, <2>1, CallAheadIs, CallAheadNext, CommandAheadIs, CommandAheadNext
  <2>3. QED BY <2>1, <2>2
<1>10. CASE Drain
  <2>1. UNCHANGED <<cpc, opened, skip, command>> /\ n1 = n - 1
    BY <1>3, <1>7, <1>10 DEF Drain, callVars, userVars, commandVars
  <2>2. c1 = c
    <3>1. CallAhead' = CallAhead
      BY <2>1 DEF CallAhead, SizeOf
    <3>2. QED BY <1>2, <1>3, <3>1
  <2>3. QED BY <1>6, <2>1, <2>2
<1>11. CASE Drained \/ CloseAck
  <2>1. /\ UNCHANGED <<opened, command>> /\ n1 = n
        /\ \/ cpc = "drain" /\ cpc' = "ack"
           \/ cpc = "ack" /\ cpc' = "flush"
    BY <1>2, <1>3, <1>11 DEF Drained, CloseAck, AfterAck, dataVars, userVars, commandVars
  <2>2. c1 = c - 1
    BY <1>2, <1>3, <1>8, <2>1, CallAheadIs, CallAheadNext
  <2>3. QED BY <1>6, <2>1, <2>2
<1>12. CASE Flushed
  <2>1. /\ cpc = "flush" /\ UNCHANGED <<opened, command>> /\ n1 = n
        /\ cpc' \in {"out", "open"}
    BY <1>2, <1>3, <1>12 DEF Flushed, commandVars
  <2>2. c = 5 * s + 7 /\ (c1 = 0 \/ c1 = 5 * s + 6)
    BY <1>2, <1>3, <1>8, <2>1, CallAheadIs, CallAheadNext
  <2>3. QED BY <1>6, <2>1, <2>2
<1>13. CASE OpenSend
  <2>1. cpc = "open" /\ command.at = "idle" /\ n1 = n
    BY <1>2, <1>3, <1>13 DEF OpenSend, dataVars
  <2>2. m = 0 /\ c = 5 * s + 6
    BY <1>2, <1>8, <2>1, CallAheadIs, CommandAheadIs
  <2>3. CASE /\ command' = [at |-> "active", cmd |-> "STREAMING", name |-> opened]
             /\ cpc' = "wait"
    <3>1. command'.at = "active" /\ command'.cmd = "STREAMING" /\ command'.name = opened
      BY <2>3
    <3>2. c1 = 1 /\ m1 = 5 * s + 4
      BY <1>3, <1>8, <2>3, <3>1, CallAheadNext, CommandAheadNext
    <3>3. QED BY <2>1, <2>2, <3>2
  <2>4. CASE cpc' = "out" /\ UNCHANGED command
    <3>1. c1 = 0
      BY <1>3, <2>4, CallAheadNext
    <3>2. QED BY <1>6, <2>1, <2>2, <2>4, <3>1
  <2>5. QED BY <1>13, <2>3, <2>4 DEF OpenSend
<1>14. CASE OpenAck
  <2>1. cpc = "wait" /\ cpc' = "out" /\ UNCHANGED command /\ n1 = n
    BY <1>2, <1>3, <1>14 DEF OpenAck, dataVars, commandVars
  <2>2. c = 1 /\ c1 = 0
    BY <1>2, <1>3, <2>1, CallAheadIs, CallAheadNext
  <2>3. QED BY <1>6, <2>1, <2>2
<1>15. CASE LookAtState
  <2>1. cpc = "look" /\ cpc' = "take" /\ UNCHANGED <<command, skip>> /\ n1 = n
    BY <1>2, <1>3, <1>15 DEF LookAtState, dataVars, commandVars
  <2>2. c = 5 * skip + 3 /\ c1 = 5 * skip + 2
    BY <1>2, <1>3, <2>1, CallAheadIs, CallAheadNext
  <2>3. QED BY <1>1, <1>6, <2>1, <2>2
<1>16. CASE Take
  <2>1. cpc = "take" /\ cpc' \in {"look", "give"} /\ UNCHANGED <<command, skip>> /\ n1 = n - 1
    BY <1>3, <1>7, <1>16 DEF Take, commandVars
  <2>2. c = 5 * skip + 2 /\ c1 <= 5 * skip + 3
    BY <1>1, <1>2, <1>3, <2>1, CallAheadIs, CallAheadNext
  <2>3. QED BY <1>1, <1>6, <2>1, <2>2
<1>17. CASE TakeNothing
  <2>1. cpc = "take" /\ cpc' = "give" /\ UNCHANGED <<command, skip>> /\ n1 = n
    BY <1>2, <1>3, <1>17 DEF TakeNothing, dataVars, commandVars
  <2>2. c = 5 * skip + 2 /\ c1 = 5 * skip + 1
    BY <1>2, <1>3, <2>1, CallAheadIs, CallAheadNext
  <2>3. QED BY <1>1, <1>6, <2>1, <2>2
<1>18. CASE Give
  <2>1. cpc = "give" /\ cpc' = "holding" /\ UNCHANGED command /\ n1 = n
    BY <1>2, <1>3, <1>18 DEF Give, dataVars, commandVars
  <2>2. c = 5 * skip + 1 /\ c1 = 0
    BY <1>2, <1>3, <2>1, CallAheadIs, CallAheadNext
  <2>3. QED BY <1>1, <1>6, <2>1, <2>2
<1>19. CASE GiveToSkip
  <2>1. /\ cpc = "give" /\ UNCHANGED command /\ n1 = n /\ skip' = skip - want
        /\ want > 0 /\ want <= skip
    BY <1>1, <1>2, <1>3, <1>19 DEF GiveToSkip, commandVars, Wanted
  <2>2. cpc' \in {"out", "look", "give"}
    <3>1. cpc' = CASE skip' = 0 -> "out" [] Len(big') < want' -> "look" [] OTHER -> "give"
      BY <1>19 DEF GiveToSkip
    <3>2. QED BY <3>1
  <2>3. PICK k \in Nat : k = skip' /\ k < skip
    BY <1>1, <2>1
  <2>4. c = 5 * skip + 1 /\ c1 <= 5 * k + 3
    BY <1>2, <1>3, <2>1, <2>2, <2>3, CallAheadIs, CallAheadNext
  <2>5. QED BY <1>1, <1>6, <2>1, <2>3, <2>4
<1>20. QED BY <1>9, <1>10, <1>11, <1>12, <1>13, <1>14, <1>15, <1>16, <1>17, <1>18, <1>19
              DEF InCall

(* No call goes round in circles: whoever runs while a caller is inside    *)
(* one, every step brings it nearer to its end, failed reads included.     *)
THEOREM CallsGetNearer ==
  Spec => [][InACall => StepsLeft' \in Nat /\ StepsLeft' < StepsLeft]_vars
<1>1. ASSUME IInv, IInv', [Next]_vars
      PROVE  [InACall => StepsLeft' \in Nat /\ StepsLeft' < StepsLeft]_vars
  <2>1. SUFFICES ASSUME Next, InACall PROVE StepsLeft' \in Nat /\ StepsLeft' < StepsLeft
    BY <1>1
  <2>2. ~Call
    BY <2>1 DEF InACall, Call, CallClose, CallOpen, CallGet, CallSkip, CallRelease
  <2>3. StepsLeft' < StepsLeft
    BY <1>1, <2>1, <2>2, TaskNearer, CallNearer DEF Next
  <2>4. StepsLeft' \in Nat
    BY <1>1, AheadTypeNext DEF StepsLeft
  <2>5. QED BY <2>3, <2>4
<1>2. QED BY <1>1, InvHolds, PTL DEF Spec

=============================================================================
