----------------------------- MODULE DspProofs -----------------------------
(***************************************************************************)
(* Proofs about Dsp.  For any pools, any size of a buffer and any rates:   *)
(* no request and no buffer is lost or in two places, and the interrupt    *)
(* finds room in the DMA channel; a task that waits for a buffer comes     *)
(* nearer to one, and ends what it has begun.  At one sample rate: no      *)
(* buffer is filled while it plays, and every sample is played once and in *)
(* order.                                                                  *)
(***************************************************************************)
EXTENDS Dsp, QueueLemmas

Buffers == Outputs \cup Silences

-----------------------------------------------------------------------------
(* Arithmetic of the numbers of samples.                                   *)

(* What a remainder is.                                                    *)
LEMMA ModUnique ==
  ASSUME NEW M \in Nat \ {0}, NEW q \in Int, NEW r \in 0 .. M - 1
  PROVE  (M * q + r) % M = r
BY Z3T(30)

(* A number is its quotient and its remainder.                             *)
LEMMA ModDiv ==
  ASSUME NEW M \in Nat \ {0}, NEW a \in Nat
  PROVE  a % M \in 0 .. M - 1 /\ a = M * (a \div M) + (a % M) /\ a \div M \in Int
BY Z3T(30)

(* The number of a sample may be reduced before or after it is advanced.   *)
LEMMA ModAdd ==
  ASSUME NEW M \in Nat \ {0}, NEW a \in Nat, NEW b \in Nat
  PROVE  ((a % M) + b) % M = (a + b) % M
<1>1. PICK q \in Int, r \in 0 .. M - 1 : a = M * q + r /\ a % M = r
  BY ModDiv
<1>2. PICK p \in Int, t \in 0 .. M - 1 : r + b = M * p + t /\ (r + b) % M = t
  <2>1. r + b \in Nat
    OBVIOUS
  <2>2. QED BY <2>1, ModDiv
<1>3. a + b = M * (q + p) + t
  BY <1>1, <1>2, Z3
<1>4. (M * (q + p) + t) % M = t
  <2>1. q + p \in Int
    OBVIOUS
  <2>2. QED BY <2>1, ModUnique
<1>5. (a + b) % M = t
  BY <1>3, <1>4, Zenon
<1>6. QED BY <1>1, <1>2, <1>5, Zenon

(* A run of samples is a sequence of numbers.                              *)
LEMMA SamplesType ==
  ASSUME NEW f \in Nat, NEW n \in Int
  PROVE  /\ Samples(f, n) \in Seq(Nat)
         /\ Len(Samples(f, n)) = IF n >= 0 THEN n ELSE 0
         /\ n <= 0 => Samples(f, n) = <<>>
         /\ \A k \in 1 .. n : Samples(f, n)[k] = (f + k) % TagMod
<1>1. \A k \in 1 .. n : (f + k) % TagMod \in Nat
  <2>1. SUFFICES ASSUME NEW k \in 1 .. n PROVE (f + k) % TagMod \in Nat
    OBVIOUS
  <2>2. f + k \in Nat
    OBVIOUS
  <2>3. (f + k) % TagMod \in 0 .. TagMod - 1
    BY <2>2, SizeAssumption, ModDiv
  <2>4. QED BY <2>3, SizeAssumption
<1>2. CASE n >= 0
  <2>1. n \in Nat /\ Samples(f, n) \in [1 .. n -> Nat]
    BY <1>1, <1>2 DEF Samples
  <2>2. Samples(f, n) \in Seq(Nat) /\ Len(Samples(f, n)) = n
    BY <2>1
  <2>3. n = 0 => Samples(f, n) = <<>>
    <3>1. \A s \in Seq(Nat) : Len(s) = 0 => s = <<>>
      BY EmptySeq
    <3>2. QED BY <2>2, <3>1
  <2>4. QED BY <1>2, <2>2, <2>3 DEF Samples
<1>3. CASE n < 0
  <2>1. 1 .. n = 1 .. 0
    BY <1>3
  <2>2. Samples(f, n) = Samples(f, 0)
    BY <2>1 DEF Samples
  <2>3. Samples(f, 0) \in [1 .. 0 -> Nat] /\ 0 \in Nat
    BY DEF Samples
  <2>4. Samples(f, 0) \in Seq(Nat) /\ Len(Samples(f, 0)) = 0
    BY <2>3
  <2>5. \A s \in Seq(Nat) : Len(s) = 0 => s = <<>>
    BY EmptySeq
  <2>6. QED BY <1>3, <2>1, <2>2, <2>4, <2>5
<1>4. QED BY <1>2, <1>3

(* A run of samples, and the run that follows it.                          *)
LEMMA SamplesSplit ==
  ASSUME NEW f \in Nat, NEW m \in Nat, NEW n \in Nat
  PROVE  Samples(f, m) \o Samples(f + m, n) = Samples(f, m + n)
<1>1. /\ Samples(f, m) \in Seq(Nat) /\ Len(Samples(f, m)) = m
      /\ \A k \in 1 .. m : Samples(f, m)[k] = (f + k) % TagMod
  BY SamplesType
<1>2. /\ Samples(f + m, n) \in Seq(Nat) /\ Len(Samples(f + m, n)) = n
      /\ \A k \in 1 .. n : Samples(f + m, n)[k] = (f + m + k) % TagMod
  <2>1. f + m \in Nat
    OBVIOUS
  <2>2. QED BY <2>1, SamplesType
<1>3. /\ Samples(f, m + n) \in Seq(Nat) /\ Len(Samples(f, m + n)) = m + n
      /\ \A k \in 1 .. m + n : Samples(f, m + n)[k] = (f + k) % TagMod
  <2>1. m + n \in Nat
    OBVIOUS
  <2>2. QED BY <2>1, SamplesType
<1>4. PICK a \in Seq(Nat), b \in Seq(Nat), c \in Seq(Nat) :
        a = Samples(f, m) /\ b = Samples(f + m, n) /\ c = Samples(f, m + n)
  BY <1>1, <1>2, <1>3
<1>5. /\ a \o b \in Seq(Nat) /\ Len(a \o b) = m + n
      /\ \A k \in 1 .. m + n : (a \o b)[k] = IF k <= m THEN a[k] ELSE b[k - m]
  <2>1. Len(a) = m /\ Len(b) = n
    BY <1>1, <1>2, <1>4
  <2>2. /\ a \o b \in Seq(Nat) /\ Len(a \o b) = Len(a) + Len(b)
        /\ \A k \in 1 .. Len(a) + Len(b) :
             (a \o b)[k] = IF k <= Len(a) THEN a[k] ELSE b[k - Len(a)]
    BY ConcatProperties
  <2>3. QED BY <2>1, <2>2
<1>6. ASSUME NEW k \in 1 .. m + n PROVE (a \o b)[k] = c[k]
  <2>1. c[k] = (f + k) % TagMod
    BY <1>3, <1>4
  <2>2. CASE k <= m
    BY <1>1, <1>4, <1>5, <2>1, <2>2
  <2>3. CASE ~(k <= m)
    <3>1. k - m \in 1 .. n /\ f + m + (k - m) = f + k
      BY <2>3
    <3>2. b[k - m] = (f + k) % TagMod
      BY <1>2, <1>4, <3>1
    <3>3. QED BY <1>5, <2>1, <2>3, <3>2
  <2>4. QED BY <2>2, <2>3
<1>7. a \o b = c
  BY <1>3, <1>4, <1>5, <1>6, SeqEqual
<1>8. QED BY <1>4, <1>7

(* Where a run begins is known by its number alone.                        *)
LEMMA SamplesMod ==
  ASSUME NEW f \in Nat, NEW n \in Int
  PROVE  Samples(f % TagMod, n) = Samples(f, n)
<1>1. \A k \in 1 .. n : ((f % TagMod) + k) % TagMod = (f + k) % TagMod
  <2>1. SUFFICES ASSUME NEW k \in 1 .. n PROVE ((f % TagMod) + k) % TagMod = (f + k) % TagMod
    OBVIOUS
  <2>2. k \in Nat
    OBVIOUS
  <2>3. QED BY <2>2, SizeAssumption, ModAdd
<1>2. QED BY <1>1 DEF Samples

-----------------------------------------------------------------------------
(* The inductive invariant.                                                *)

Types ==
  /\ TypeOK
  /\ in \in [Inputs -> [count : Nat, rate : Rates, first : Nat]]
  /\ out \in [Outputs -> [data : Seq(Nat), rate : Rates]]
  /\ output_active \in Seq(Buffers) /\ dma \in Seq(Buffers)
  /\ made \in Nat /\ played \in Nat

(* Where the requests are.                                                 *)
RequestsApart ==
  /\ IsInjective(input_idle) /\ IsInjective(input_queued)
  /\ ToSet(input_idle) \cap ToSet(input_queued) = {}
  /\ cur \notin ToSet(input_idle) \cup ToSet(input_queued)
  /\ Inputs \subseteq ToSet(input_idle) \cup ToSet(input_queued) \cup {cur}

(* Where the buffers are, when idle, queued, active and silent are their   *)
(* queues: those of the state, or those half way through the interrupt.    *)
BuffersApart(idle, queued, active, silent) ==
  /\ idle \in Seq(Outputs) /\ queued \in Seq(Outputs)
  /\ active \in Seq(Buffers) /\ silent \in Seq(Silences)
  /\ IsInjective(idle) /\ IsInjective(queued) /\ IsInjective(active) /\ IsInjective(silent)
  /\ ToSet(idle) \cap ToSet(queued) = {} /\ ToSet(idle) \cap ToSet(active) = {}
  /\ ToSet(queued) \cap ToSet(active) = {} /\ ToSet(silent) \cap ToSet(active) = {}
  /\ open \notin ToSet(idle) \cup ToSet(queued) \cup ToSet(active)
  /\ Outputs \subseteq ToSet(idle) \cup ToSet(queued) \cup ToSet(active) \cup {open}
  /\ Silences \subseteq ToSet(silent) \cup ToSet(active)

Apart == BuffersApart(output_idle, output_queued, output_active, idle_silence)

(* What the point the task has reached says of the request in its hands    *)
(* and of the buffer it fills.                                             *)
TaskRoles ==
  /\ cur = Nil <=> pc = "wait"
  /\ pc = "flush" => in[cur].count = 0 /\ offset = 0
  /\ pc = "fill" => offset < in[cur].count
  /\ pc = "return" => offset = in[cur].count
  /\ open # Nil => Len(out[open].data) < DSP_BUFFER_SIZE

(* Once the DAC has been given a buffer, __output_active holds two.        *)
Channel ==
  /\ Len(dma) <= 2
  /\ \/ output_active = <<>> /\ dma = <<>> /\ ~bitrate_change
     \/ Len(output_active) = 2

Sound == Types /\ RequestsApart /\ Apart /\ TaskRoles /\ Channel

(* At one rate the DMA channel holds what __output_active ends with.       *)
Follows ==
  /\ ~bitrate_change
  /\ dma = <<>> \/ dma = output_active \/ dma = <<output_active[2]>>

-----------------------------------------------------------------------------
(* The requests and the task.                                              *)

(* All requests and buffers are idle at first.                             *)
LEMMA InitSound == Init => Sound
<1> SUFFICES ASSUME Init PROVE Sound
  OBVIOUS
<1> USE DEF Init
<1>1. /\ input_idle \in Seq(Inputs) /\ IsInjective(input_idle) /\ ToSet(input_idle) = Inputs
      /\ output_idle \in Seq(Outputs) /\ IsInjective(output_idle) /\ ToSet(output_idle) = Outputs
      /\ idle_silence \in Seq(Silences) /\ IsInjective(idle_silence)
      /\ ToSet(idle_silence) = Silences
  BY PoolAssumption, EnumerationLemma
<1>2. ToSet(<<>>) = {} /\ IsInjective(<<>>)
  BY DEF ToSet, IsInjective
<1>3. TypeOK
  <2>1. \A o \in Outputs : Len(out[o].data) <= DSP_BUFFER_SIZE /\ out[o].rate \in Rates
    BY SizeAssumption, CountAssumption
  <2>2. Len(output_active) <= 2
    OBVIOUS
  <2>3. input_queued \in Seq(Inputs) /\ output_queued \in Seq(Outputs)
    OBVIOUS
  <2>4. bitrate \in Rates /\ new_bitrate \in Rates \cup {0} /\ bitrate_change = (new_bitrate # 0)
    BY CountAssumption
  <2>5. /\ cur \in Inputs \cup {Nil} /\ open \in Outputs \cup {Nil}
        /\ pc \in {"wait", "flush", "fill", "return"} /\ offset \in Nat
    OBVIOUS
  <2> HIDE DEF Init
  <2>6. QED BY <1>1, <2>1, <2>2, <2>3, <2>4, <2>5 DEF TypeOK
<1>4. Types
  BY <1>3, CountAssumption DEF Types, Buffers
<1>5. RequestsApart
  BY <1>1, <1>2, BufferAssumption DEF RequestsApart
<1>6. Apart
  BY <1>1, <1>2, BufferAssumption DEF Apart, BuffersApart, Buffers
<1>7. TaskRoles /\ Channel
  BY DEF TaskRoles, Channel
<1>8. QED BY <1>4, <1>5, <1>6, <1>7 DEF Sound

(* A new request was idle, so that it is neither queued nor in the hands   *)
(* of the task, and nothing else is overwritten.                           *)
LEMMA QueueRequestSound ==
  ASSUME Sound, NEW n \in Nat, NEW r \in Rates, QueueRequest(n, r)
  PROVE  /\ Sound'
         /\ Head(input_idle) \in Inputs /\ Head(input_idle) \notin ToSet(input_queued) \cup {cur}
<1> DEFINE m == Head(input_idle)
<1> USE DEF outputVars, dacVars, taskVars
<1>1. /\ input_idle # <<>>
      /\ in' = [in EXCEPT ![m] = [count |-> n, rate |-> r, first |-> made]]
      /\ input_queued' = Append(input_queued, m)
      /\ input_idle' = Tail(input_idle)
      /\ made' = (made + n) % TagMod
      /\ UNCHANGED <<outputVars, dacVars, taskVars, dma, played>>
  BY DEF QueueRequest
<1>2. /\ m \in Inputs /\ m \in ToSet(input_idle) /\ input_idle' \in Seq(Inputs)
      /\ ToSet(input_idle) = ToSet(input_idle') \cup {m}
      /\ IsInjective(input_idle') /\ m \notin ToSet(input_idle')
  BY <1>1, ReceiveLemma DEF Sound, Types, TypeOK, RequestsApart
<1>3. m \notin ToSet(input_queued) \cup {cur}
  BY <1>2 DEF Sound, RequestsApart
<1> HIDE DEF m
<1>4. /\ input_queued' \in Seq(Inputs) /\ ToSet(input_queued') = ToSet(input_queued) \cup {m}
      /\ IsInjective(input_queued')
  BY <1>1, <1>2, <1>3, SendLemma, SMTT(30) DEF Sound, Types, TypeOK, RequestsApart
<1>5. Types'
  <2>1. made' \in Nat
    <3>1. made + n \in Nat
      BY DEF Sound, Types
    <3>2. (made + n) % TagMod \in 0 .. TagMod - 1
      BY <3>1, SizeAssumption, ModDiv
    <3>3. QED BY <1>1, <3>2, SizeAssumption
  <2>2. in' \in [Inputs -> [count : Nat, rate : Rates, first : Nat]]
    BY <1>1 DEF Sound, Types
  <2>3. TypeOK'
    BY <1>1, <1>2, <1>4 DEF Sound, Types, TypeOK
  <2>4. QED BY <1>1, <2>1, <2>2, <2>3 DEF Sound, Types
<1>6. RequestsApart'
  BY <1>1, <1>2, <1>3, <1>4 DEF Sound, RequestsApart
<1>7. TaskRoles'
  <2>1. pc \in {"flush", "fill", "return"} => in'[cur] = in[cur]
    BY <1>1, <1>3 DEF Sound, Types, TypeOK, TaskRoles
  <2>2. QED BY <1>1, <2>1 DEF Sound, TaskRoles
<1>8. Apart' /\ Channel'
  BY <1>1 DEF Sound, Apart, BuffersApart, Channel
<1>9. QED BY <1>3, <1>5, <1>6, <1>7, <1>8, <1>2 DEF Sound, m

(* The task takes a request and has none of it done.                       *)
LEMMA TaskReceiveSound == Sound /\ TaskReceive => Sound'
<1> SUFFICES ASSUME Sound, TaskReceive PROVE Sound'
  OBVIOUS
<1> DEFINE m == Head(input_queued)
<1> USE DEF outputVars, dacVars
<1>1. /\ pc = "wait" /\ input_queued # <<>> /\ cur' = m /\ input_queued' = Tail(input_queued)
      /\ offset' = 0 /\ pc' = IF in[m].count = 0 THEN "flush" ELSE "fill"
      /\ UNCHANGED <<input_idle, in, outputVars, dacVars, open, dma, made, played>>
  BY DEF TaskReceive
<1>2. /\ m \in Inputs /\ m \in ToSet(input_queued) /\ input_queued' \in Seq(Inputs)
      /\ ToSet(input_queued) = ToSet(input_queued') \cup {m}
      /\ IsInjective(input_queued') /\ m \notin ToSet(input_queued')
  BY <1>1, ReceiveLemma DEF Sound, Types, TypeOK, RequestsApart
<1>3. m # Nil /\ cur = Nil
  BY <1>1, <1>2, BufferAssumption DEF Sound, TaskRoles
<1> HIDE DEF m
<1>4. Types'
  BY <1>1, <1>2 DEF Sound, Types, TypeOK
<1>5. RequestsApart'
  BY <1>1, <1>2, <1>3, BufferAssumption DEF Sound, RequestsApart
<1>6. TaskRoles'
  <2>1. in[m].count \in Nat
    BY <1>2 DEF Sound, Types
  <2>2. QED BY <1>1, <1>3, <2>1 DEF Sound, TaskRoles
<1>7. Apart' /\ Channel'
  BY <1>1 DEF Sound, Apart, BuffersApart, Channel
<1>8. QED BY <1>4, <1>5, <1>6, <1>7 DEF Sound

(* The callback has been made, the request is idle again.                  *)
LEMMA ReturnInputSound == Sound /\ ReturnInput => Sound'
<1> SUFFICES ASSUME Sound, ReturnInput PROVE Sound'
  OBVIOUS
<1> USE DEF outputVars, dacVars
<1>1. /\ pc = "return" /\ input_idle' = Append(input_idle, cur) /\ cur' = Nil /\ pc' = "wait"
      /\ UNCHANGED <<input_queued, in, outputVars, dacVars, offset, open, dma, made, played>>
  BY DEF ReturnInput
<1>2. cur \in Inputs /\ cur \notin ToSet(input_idle)
  BY <1>1 DEF Sound, Types, TypeOK, RequestsApart, TaskRoles
<1>3. /\ input_idle' \in Seq(Inputs) /\ ToSet(input_idle') = ToSet(input_idle) \cup {cur}
      /\ IsInjective(input_idle')
  BY <1>1, <1>2, SendLemma DEF Sound, Types, TypeOK, RequestsApart
<1>4. Types'
  BY <1>1, <1>3 DEF Sound, Types, TypeOK
<1>5. RequestsApart'
  <2>1. Nil \notin ToSet(input_idle') \cup ToSet(input_queued)
    BY <1>2, <1>3, BufferAssumption, SMTT(30) DEF Sound, Types, TypeOK, ToSet
  <2>2. QED BY <1>1, <1>2, <1>3, <2>1 DEF Sound, RequestsApart
<1>6. TaskRoles' /\ Apart' /\ Channel'
  BY <1>1 DEF Sound, TaskRoles, Apart, BuffersApart, Channel
<1>7. QED BY <1>4, <1>5, <1>6 DEF Sound

-----------------------------------------------------------------------------
(* The buffer the task fills.                                              *)

(* A buffer that is filled or padded goes behind those queued.             *)
LEMMA QueueOpen ==
  ASSUME Sound, open # Nil
  PROVE  /\ Append(output_queued, open) \in Seq(Outputs)
         /\ IsInjective(Append(output_queued, open))
         /\ ToSet(Append(output_queued, open)) = ToSet(output_queued) \cup {open}
BY SendLemma DEF Sound, Types, TypeOK, Apart, BuffersApart

(* The open buffer, if there is one, is queued.                            *)
LEMMA FlushSound == Sound /\ Flush => Sound'
<1> SUFFICES ASSUME Sound, Flush PROVE Sound'
  OBVIOUS
<1> USE DEF inputVars, dacVars
<1>1. /\ pc = "flush" /\ open' = Nil /\ pc' = "return"
      /\ output_queued' = IF open = Nil THEN output_queued ELSE Append(output_queued, open)
      /\ UNCHANGED <<inputVars, output_idle, out, dacVars, cur, offset, dma, made, played>>
  BY DEF Flush
<1>2. /\ output_queued' \in Seq(Outputs) /\ IsInjective(output_queued')
      /\ ToSet(output_queued') \cup {Nil} = ToSet(output_queued) \cup {open, Nil}
  BY <1>1, QueueOpen DEF Sound, Types, TypeOK, Apart, BuffersApart
<1>3. Nil \notin ToSet(output_idle) \cup ToSet(output_queued') /\ Nil \notin Outputs
  BY <1>2, BufferAssumption, SMTT(30) DEF Sound, Types, TypeOK, ToSet
<1>4. Types'
  BY <1>1, <1>2 DEF Sound, Types, TypeOK
<1>5. RequestsApart' /\ TaskRoles' /\ Channel'
  BY <1>1 DEF Sound, RequestsApart, TaskRoles, Channel
<1>6. ToSet(output_queued') = ToSet(output_queued) \cup ({open} \ {Nil})
  <2>1. Nil \notin ToSet(output_queued)
    BY BufferAssumption DEF Sound, Types, TypeOK, ToSet
  <2>2. QED BY <1>2, <1>3, <2>1
<1>7. Apart'
  <2>1. Nil \notin ToSet(output_active)
    <3>1. Nil \notin Silences
      BY BufferAssumption
    <3>2. QED BY <3>1, <1>3 DEF Sound, Types, Buffers, ToSet
  <2>2. QED BY <1>1, <1>2, <1>3, <1>6, <2>1 DEF Sound, Apart, BuffersApart
<1>8. QED BY <1>4, <1>5, <1>7 DEF Sound

(* The buffer to fill was idle: it is neither queued nor active.           *)
LEMMA TakeOutputSound ==
  ASSUME Sound, TakeOutput
  PROVE  Sound' /\ open' \in Outputs /\ open' \notin ToSet(output_queued) \cup ToSet(output_active)
<1> DEFINE o == Head(output_idle)
<1> USE DEF inputVars, dacVars
<1>1. /\ pc = "fill" /\ open = Nil /\ output_idle # <<>>
      /\ open' = o /\ output_idle' = Tail(output_idle)
      /\ out' = [out EXCEPT ![o].data = <<>>]
      /\ UNCHANGED <<inputVars, output_queued, dacVars, pc, cur, offset, dma, made, played>>
  BY DEF TakeOutput
<1>2. /\ o \in Outputs /\ o \in ToSet(output_idle) /\ output_idle' \in Seq(Outputs)
      /\ ToSet(output_idle) = ToSet(output_idle') \cup {o}
      /\ IsInjective(output_idle') /\ o \notin ToSet(output_idle')
  BY <1>1, ReceiveLemma DEF Sound, Types, TypeOK, Apart, BuffersApart
<1> HIDE DEF o
<1>3. /\ out' \in [Outputs -> [data : Seq(Nat), rate : Rates]]
      /\ out'[o].data = <<>> /\ Len(out'[o].data) = 0
      /\ \A x \in Outputs : out'[x].rate = out[x].rate /\ (x # o => out'[x] = out[x])
  <2>1. out \in [Outputs -> [data : Seq(Nat), rate : Rates]] /\ <<>> \in Seq(Nat)
    BY DEF Sound, Types
  <2>2. \A x \in Outputs : out'[x] = IF x = o THEN [out[x] EXCEPT !.data = <<>>] ELSE out[x]
    BY <1>1, <2>1
  <2>3. \A x \in Outputs :
          [out[x] EXCEPT !.data = <<>>] = [data |-> <<>>, rate |-> out[x].rate]
    BY <2>1
  <2>4. \A x \in Outputs : out'[x] \in [data : Seq(Nat), rate : Rates]
    BY <2>1, <2>2, <2>3
  <2>5. out' = [x \in Outputs |-> out'[x]]
    BY <1>1, <2>1
  <2>6. out' \in [Outputs -> [data : Seq(Nat), rate : Rates]]
    BY <2>4, <2>5
  <2>7. out'[o].data = <<>>
    BY <1>2, <2>2, <2>3
  <2>8. QED BY <2>2, <2>3, <2>6, <2>7
<1>4. Types'
  <2>1. \A x \in Outputs : Len(out'[x].data) <= DSP_BUFFER_SIZE /\ out'[x].rate \in Rates
    <3>1. SUFFICES ASSUME NEW x \in Outputs
                   PROVE  Len(out'[x].data) <= DSP_BUFFER_SIZE /\ out'[x].rate \in Rates
      OBVIOUS
    <3>2. Len(out[x].data) <= DSP_BUFFER_SIZE /\ out[x].rate \in Rates
      BY DEF Sound, Types, TypeOK
    <3>3. CASE x = o
      BY <1>3, <3>2, <3>3, SizeAssumption
    <3>4. CASE x # o
      BY <1>3, <3>2, <3>4
    <3>5. QED BY <3>3, <3>4
  <2>2. TypeOK'
    BY <1>1, <1>2, <2>1 DEF Sound, Types, TypeOK
  <2>3. QED BY <1>1, <1>3, <2>2 DEF Sound, Types
<1>5. RequestsApart' /\ Channel'
  BY <1>1 DEF Sound, RequestsApart, Channel
<1>6. TaskRoles'
  BY <1>1, <1>3, SizeAssumption DEF Sound, TaskRoles
<1>7. Apart'
  BY <1>1, <1>2, BufferAssumption DEF Sound, Apart, BuffersApart
<1>8. open' \in Outputs /\ open' \notin ToSet(output_queued) \cup ToSet(output_active)
  BY <1>1, <1>2 DEF Sound, Apart, BuffersApart
<1>9. QED BY <1>4, <1>5, <1>6, <1>7, <1>8 DEF Sound

(* __process_samples fills the buffer or does the whole request, whichever *)
(* comes first.                                                            *)
LEMMA ProcessSizeIs ==
  ASSUME Sound, pc = "fill", open # Nil
  PROVE  /\ ProcessSize \in Nat \ {0}
         /\ cur \in Inputs /\ open \in Outputs /\ offset \in Nat
         /\ in[cur] \in [count : Nat, rate : Rates, first : Nat]
         /\ out[open] \in [data : Seq(Nat), rate : Rates]
         /\ Len(out[open].data) + ProcessSize <= DSP_BUFFER_SIZE
         /\ offset + ProcessSize <= in[cur].count
         /\ \A f \in Nat : LET new == Samples(f, ProcessSize) IN
              /\ new \in Seq(Nat) /\ Len(new) = ProcessSize
              /\ out[open].data \o new \in Seq(Nat)
              /\ Len(out[open].data \o new) = Len(out[open].data) + ProcessSize
<1>1. /\ cur \in Inputs /\ open \in Outputs /\ offset \in Nat
      /\ offset < in[cur].count /\ Len(out[open].data) < DSP_BUFFER_SIZE
      /\ in[cur] \in [count : Nat, rate : Rates, first : Nat]
      /\ out[open] \in [data : Seq(Nat), rate : Rates]
  BY DEF Sound, Types, TypeOK, TaskRoles
<1>2. DSP_BUFFER_SIZE \in Nat /\ in[cur].count \in Nat /\ Len(out[open].data) \in Nat
  BY <1>1, SizeAssumption
<1>3. /\ ProcessSize \in Nat \ {0}
      /\ Len(out[open].data) + ProcessSize <= DSP_BUFFER_SIZE
      /\ offset + ProcessSize <= in[cur].count
  BY <1>1, <1>2, SMTT(30) DEF ProcessSize, Least
<1>4. ASSUME NEW f \in Nat
      PROVE  LET new == Samples(f, ProcessSize) IN
              /\ new \in Seq(Nat) /\ Len(new) = ProcessSize
              /\ out[open].data \o new \in Seq(Nat)
              /\ Len(out[open].data \o new) = Len(out[open].data) + ProcessSize
  <2>1. Samples(f, ProcessSize) \in Seq(Nat) /\ Len(Samples(f, ProcessSize)) = ProcessSize
    <3>1. PICK n \in Nat : n = ProcessSize
      BY <1>3
    <3>2. Samples(f, n) \in Seq(Nat) /\ Len(Samples(f, n)) = n
      BY SamplesType
    <3>3. QED BY <3>1, <3>2
  <2>2. PICK a \in Seq(Nat), b \in Seq(Nat) : a = out[open].data /\ b = Samples(f, ProcessSize)
    BY <1>1, <2>1
  <2>3. a \o b \in Seq(Nat) /\ Len(a \o b) = Len(a) + Len(b)
    BY ConcatProperties
  <2>4. QED BY <2>1, <2>2, <2>3
<1>5. QED BY <1>1, <1>3, <1>4

(* Samples go into the open buffer, which is queued once it is full.       *)
LEMMA ProcessSamplesSound == Sound /\ ProcessSamples => Sound'
<1> SUFFICES ASSUME Sound, ProcessSamples PROVE Sound'
  OBVIOUS
<1> DEFINE new == Samples(in[cur].first + offset, ProcessSize)
           data == out[open].data \o new
           full == Len(data) = DSP_BUFFER_SIZE
<1> USE DEF inputVars, dacVars
<1>1. /\ pc = "fill" /\ open # Nil
      /\ out' = [out EXCEPT ![open] = [data |-> data, rate |-> in[cur].rate]]
      /\ IF full THEN output_queued' = Append(output_queued, open) /\ open' = Nil
                 ELSE UNCHANGED <<output_queued, open>>
      /\ offset' = offset + ProcessSize
      /\ pc' = IF offset + ProcessSize < in[cur].count THEN "fill" ELSE "return"
      /\ UNCHANGED <<inputVars, output_idle, dacVars, cur, dma, made, played>>
  BY DEF ProcessSamples
<1>2. /\ ProcessSize \in Nat \ {0} /\ cur \in Inputs /\ open \in Outputs /\ offset \in Nat
      /\ in[cur].count \in Nat /\ in[cur].rate \in Rates /\ in[cur].first \in Nat
      /\ offset + ProcessSize <= in[cur].count
  BY <1>1, ProcessSizeIs
<1>3. data \in Seq(Nat) /\ Len(data) <= DSP_BUFFER_SIZE
  <2>1. in[cur].first + offset \in Nat
    BY <1>2
  <2>2. data \in Seq(Nat) /\ Len(data) = Len(out[open].data) + ProcessSize
    BY <1>1, <2>1, ProcessSizeIs
  <2>3. QED BY <1>1, <2>2, ProcessSizeIs
<1> HIDE DEF data
<1>4. /\ out' \in [Outputs -> [data : Seq(Nat), rate : Rates]]
      /\ out'[open].data = data /\ out'[open].rate \in Rates
      /\ \A x \in Outputs : x # open => out'[x] = out[x]
  BY <1>1, <1>2, <1>3 DEF Sound, Types
<1>5. /\ output_queued' \in Seq(Outputs) /\ open' \in Outputs \cup {Nil}
      /\ open' # Nil => open' = open /\ Len(data) < DSP_BUFFER_SIZE
  <2>1. CASE full
    BY <1>1, <2>1, QueueOpen
  <2>2. CASE ~full
    <3>1. Len(data) \in Nat
      BY <1>3
    <3>2. QED BY <1>1, <1>2, <1>3, <2>2, <3>1, SizeAssumption DEF Sound, Types, TypeOK
  <2>3. QED BY <2>1, <2>2
<1>6. Types'
  <2>1. \A x \in Outputs : Len(out'[x].data) <= DSP_BUFFER_SIZE /\ out'[x].rate \in Rates
    BY <1>3, <1>4 DEF Sound, Types, TypeOK
  <2>2. offset' \in Nat
    BY <1>1, <1>2
  <2>3. TypeOK'
    BY <1>1, <1>5, <2>1, <2>2 DEF Sound, Types, TypeOK
  <2>4. QED BY <1>1, <1>4, <2>3 DEF Sound, Types
<1>7. RequestsApart' /\ Channel'
  BY <1>1 DEF Sound, RequestsApart, Channel
<1>8. TaskRoles'
  <2>1. open' # Nil => Len(out'[open'].data) < DSP_BUFFER_SIZE
    BY <1>4, <1>5
  <2>2. pc' = "fill" => offset' < in'[cur'].count
    BY <1>1
  <2>3. pc' = "return" => offset' = in'[cur'].count
    BY <1>1, <1>2
  <2>4. pc' # "flush" /\ pc' # "wait" /\ cur' # Nil
    BY <1>1, <1>2, BufferAssumption
  <2>5. QED BY <2>1, <2>2, <2>3, <2>4 DEF TaskRoles
<1>9. Apart'
  <2>1. CASE full
    <3>1. /\ IsInjective(output_queued') /\ ToSet(output_queued') = ToSet(output_queued) \cup {open}
          /\ open' = Nil
      BY <1>1, <2>1, QueueOpen
    <3>2. Nil \notin ToSet(output_idle) \cup ToSet(output_queued') \cup ToSet(output_active)
      <4>1. Nil \notin Outputs /\ Nil \notin Silences
        BY BufferAssumption
      <4>2. QED BY <1>5, <4>1 DEF Sound, Types, TypeOK, Buffers, ToSet
    <3>3. QED BY <1>1, <1>2, <1>5, <3>1, <3>2 DEF Sound, Apart, BuffersApart
  <2>2. CASE ~full
    BY <1>1, <2>2 DEF Sound, Apart, BuffersApart
  <2>3. QED BY <2>1, <2>2
<1>10. QED BY <1>6, <1>7, <1>8, <1>9 DEF Sound

(* A buffer that has been played leaves the DMA channel only.              *)
LEMMA PlaySound == Sound /\ Play => Sound'
<1> SUFFICES ASSUME Sound, Play PROVE Sound'
  OBVIOUS
<1> USE DEF inputVars, outputVars, dacVars, taskVars
<1>1. /\ dma # <<>> /\ dma' = Tail(dma)
      /\ played' = IF Played(Head(dma)) THEN Last(out[Head(dma)].data) ELSE played
      /\ UNCHANGED <<inputVars, outputVars, dacVars, taskVars, made>>
  BY DEF Play
<1>2. dma' \in Seq(Buffers) /\ Len(dma') = Len(dma) - 1
  BY <1>1, HeadTailProperties DEF Sound, Types
<1>3. played' \in Nat
  <2>1. CASE Played(Head(dma))
    <3>1. PICK d \in Seq(Nat) : d = out[Head(dma)].data /\ d # <<>>
      BY <2>1 DEF Played, Sound, Types
    <3>2. Len(d) \in 1 .. Len(d) /\ Last(d) = d[Len(d)]
      BY <3>1, EmptySeq DEF Last
    <3>3. QED BY <1>1, <2>1, <3>1, <3>2
  <2>2. CASE ~Played(Head(dma))
    BY <1>1, <2>2 DEF Sound, Types
  <2>3. QED BY <2>1, <2>2
<1>4. Types'
  BY <1>1, <1>2, <1>3 DEF Sound, Types, TypeOK
<1>5. RequestsApart' /\ TaskRoles' /\ Apart'
  BY <1>1 DEF Sound, RequestsApart, TaskRoles, Apart, BuffersApart
<1>6. Channel'
  BY <1>1, <1>2 DEF Sound, Types, Channel
<1>7. QED BY <1>4, <1>5, <1>6 DEF Sound

-----------------------------------------------------------------------------
(* The interrupt.                                                          *)

(* The first n messages of a queue and the others.                         *)
LEMMA UptoLemma ==
  ASSUME NEW S, NEW q \in Seq(S), NEW n \in Nat
  PROVE  /\ Upto(q, n) \in Seq(S) /\ Len(Upto(q, n)) = Least(n, Len(q))
         /\ After(q, Len(Upto(q, n))) \in Seq(S)
         /\ Upto(q, n) \o After(q, Len(Upto(q, n))) = q
         /\ Len(After(q, Len(Upto(q, n)))) = Len(q) - Len(Upto(q, n))
<1>1. PICK m \in 0 .. Len(q) : m = Least(n, Len(q))
  <2>1. Least(n, Len(q)) \in 0 .. Len(q)
    BY DEF Least
  <2>2. QED BY <2>1
<1>2. /\ SubSeq(q, 1, m) \in Seq(S) /\ SubSeq(q, m + 1, Len(q)) \in Seq(S)
      /\ SubSeq(q, 1, m) \o SubSeq(q, m + 1, Len(q)) = q
      /\ Len(SubSeq(q, 1, m)) = m /\ Len(SubSeq(q, m + 1, Len(q))) = Len(q) - m
  BY SplitLemma
<1>3. Upto(q, n) = SubSeq(q, 1, m) /\ After(q, m) = SubSeq(q, m + 1, Len(q))
  BY <1>1, Zenon DEF Upto, After
<1>4. QED BY <1>1, <1>2, <1>3, Zenon

(* A queue without its first message.                                      *)
LEMMA AfterOne ==
  ASSUME NEW S, NEW q \in Seq(S)
  PROVE  /\ q = <<>> => After(q, 1) = <<>>
         /\ q # <<>> => After(q, 1) = Tail(q)
<1>1. ASSUME q = <<>> PROVE After(q, 1) = <<>>
  <2>1. 1 + 1 \in Int /\ Len(q) \in Int /\ Len(q) < 1 + 1
    BY <1>1
  <2>2. SubSeq(q, 1 + 1, Len(q)) = <<>>
    BY <2>1, SubSeqEmpty
  <2>3. QED BY <2>2 DEF After
<1>2. ASSUME q # <<>> PROVE After(q, 1) = Tail(q)
  <2>1. Tail(q) = SubSeq(q, 2, Len(q))
    BY <1>2, TailIsSubSeq
  <2>2. 1 + 1 = 2
    OBVIOUS
  <2>3. QED BY <2>1, <2>2 DEF After
<1>3. QED BY <1>1, <1>2

(* The buffer that has been played is back in the pool it came from.       *)
LEMMA BufferBack ==
  ASSUME Sound
  PROVE  /\ BuffersApart(OutputBack, output_queued, StillActive, SilenceBack)
         /\ output_active = <<>> => StillActive = <<>>
         /\ output_active # <<>> => StillActive = <<output_active[2]>> /\ Len(StillActive) = 1
<1>1. /\ output_idle \in Seq(Outputs) /\ output_queued \in Seq(Outputs)
      /\ output_active \in Seq(Buffers) /\ idle_silence \in Seq(Silences)
  BY DEF Sound, Types, TypeOK
<1>2. CASE output_active = <<>>
  <2>1. StillActive = <<>>
    BY <1>1, <1>2, AfterOne DEF StillActive
  <2>2. OutputBack = output_idle /\ SilenceBack = idle_silence
    BY <1>1, <1>2, ConcatEmptySeq DEF OutputBack, SilenceBack, Finished
  <2>3. QED BY <1>2, <2>1, <2>2 DEF Sound, Apart
<1>3. CASE output_active # <<>>
  <2> DEFINE h == Head(output_active)
  <2>1. /\ h \in Buffers /\ h \in ToSet(output_active) /\ Tail(output_active) \in Seq(Buffers)
        /\ ToSet(output_active) = ToSet(Tail(output_active)) \cup {h}
        /\ IsInjective(Tail(output_active)) /\ h \notin ToSet(Tail(output_active))
    BY <1>1, <1>3, ReceiveLemma DEF Sound, Apart, BuffersApart
  <2>2. StillActive = Tail(output_active)
    BY <1>1, <1>3, AfterOne DEF StillActive
  <2>3. StillActive = <<output_active[2]>> /\ Len(StillActive) = 1
    <3>1. Len(output_active) = 2
      BY <1>3 DEF Sound, Channel
    <3>2. /\ Tail(output_active) \in Seq(Buffers) /\ Len(Tail(output_active)) = 1
          /\ Tail(output_active)[1] = output_active[2]
      <4>1. /\ Tail(output_active) \in Seq(Buffers) /\ Len(Tail(output_active)) = 2 - 1
            /\ \A k \in 1 .. Len(Tail(output_active)) :
                 Tail(output_active)[k] = output_active[k + 1]
        BY <1>1, <1>3, <3>1, HeadTailProperties
      <4>2. 2 - 1 = 1 /\ 1 \in 1 .. 1 /\ 1 + 1 = 2
        OBVIOUS
      <4>3. QED BY <4>1, <4>2
    <3>3. \A q \in Seq(Buffers) : Len(q) = 1 => q = <<q[1]>>
      OBVIOUS
    <3>4. QED BY <2>2, <3>2, <3>3
  <2>4. Finished(Outputs) = (IF h \in Outputs THEN <<h>> ELSE <<>>)
        /\ Finished(Silences) = (IF h \in Silences THEN <<h>> ELSE <<>>)
    BY <1>3 DEF Finished
  <2> HIDE DEF h
  <2>5. CASE h \in Outputs
    <3>1. h \notin Silences
      BY <2>5, BufferAssumption
    <3>2. OutputBack = Append(output_idle, h) /\ SilenceBack = idle_silence
      <4>1. Finished(Outputs) = <<h>> /\ Finished(Silences) = <<>>
        BY <2>4, <2>5, <3>1
      <4>2. idle_silence \o <<>> = idle_silence
        BY <1>1, ConcatEmptySeq
      <4>3. output_idle \o <<h>> = Append(output_idle, h)
        BY <1>1, <2>5
      <4>4. QED BY <4>1, <4>2, <4>3 DEF OutputBack, SilenceBack
    <3>3. h \notin ToSet(output_idle)
      BY <2>1 DEF Sound, Apart, BuffersApart
    <3>4. /\ OutputBack \in Seq(Outputs) /\ ToSet(OutputBack) = ToSet(output_idle) \cup {h}
          /\ IsInjective(OutputBack)
      BY <1>1, <2>5, <3>2, <3>3, SendLemma DEF Sound, Apart, BuffersApart
    <3>5. /\ h \notin ToSet(output_queued) /\ h # open
          /\ ToSet(StillActive) \subseteq ToSet(output_active) /\ h \notin ToSet(StillActive)
          /\ StillActive \in Seq(Buffers) /\ IsInjective(StillActive)
      BY <2>1, <2>2 DEF Sound, Apart, BuffersApart
    <3>6. /\ ToSet(OutputBack) \cap ToSet(output_queued) = {}
          /\ ToSet(OutputBack) \cap ToSet(StillActive) = {}
          /\ ToSet(output_queued) \cap ToSet(StillActive) = {}
          /\ ToSet(SilenceBack) \cap ToSet(StillActive) = {}
          /\ open \notin ToSet(OutputBack) \cup ToSet(output_queued) \cup ToSet(StillActive)
      BY <3>2, <3>4, <3>5 DEF Sound, Apart, BuffersApart
    <3>7. /\ Outputs \subseteq ToSet(OutputBack) \cup ToSet(output_queued)
                                \cup ToSet(StillActive) \cup {open}
          /\ Silences \subseteq ToSet(SilenceBack) \cup ToSet(StillActive)
      BY <2>1, <2>2, <3>1, <3>2, <3>4 DEF Sound, Apart, BuffersApart
    <3>8. IsInjective(output_queued) /\ IsInjective(SilenceBack) /\ SilenceBack \in Seq(Silences)
      BY <1>1, <3>2 DEF Sound, Apart, BuffersApart
    <3>9. QED BY <1>1, <1>3, <2>3, <3>4, <3>5, <3>6, <3>7, <3>8 DEF BuffersApart
  <2>6. CASE h \in Silences
    <3>1. h \notin Outputs
      BY <2>6, BufferAssumption
    <3>2. SilenceBack = Append(idle_silence, h) /\ OutputBack = output_idle
      <4>1. Finished(Silences) = <<h>> /\ Finished(Outputs) = <<>>
        BY <2>4, <2>6, <3>1
      <4>2. output_idle \o <<>> = output_idle
        BY <1>1, ConcatEmptySeq
      <4>3. idle_silence \o <<h>> = Append(idle_silence, h)
        BY <1>1, <2>6
      <4>4. QED BY <4>1, <4>2, <4>3 DEF OutputBack, SilenceBack
    <3>3. h \notin ToSet(idle_silence)
      BY <2>1 DEF Sound, Apart, BuffersApart
    <3>4. /\ SilenceBack \in Seq(Silences) /\ ToSet(SilenceBack) = ToSet(idle_silence) \cup {h}
          /\ IsInjective(SilenceBack)
      BY <1>1, <2>6, <3>2, <3>3, SendLemma DEF Sound, Apart, BuffersApart
    <3>5. QED BY <1>1, <1>3, <2>1, <2>2, <2>3, <3>1, <3>2, <3>4 DEF Sound, Apart, BuffersApart
  <2>7. QED BY <2>1, <2>5, <2>6 DEF Buffers
<1>4. QED BY <1>2, <1>3

(* There is silence to fill __output_active with.                          *)
LEMMA SilenceLeft ==
  ASSUME Sound
  PROVE  Len(SilenceBack) + Len(StillActive) >= 2
<1>1. PICK y \in Silences, z \in Silences : y # z
  BY SilenceAssumption
<1>2. /\ StillActive \in Seq(Buffers) /\ SilenceBack \in Seq(Silences)
      /\ Silences \subseteq ToSet(SilenceBack) \cup ToSet(StillActive)
  BY BufferBack DEF BuffersApart
<1>3. PICK b \in Seq(Silences) : b = SilenceBack
  BY <1>2
<1>4. Len(b) \in Nat /\ DOMAIN b = 1 .. Len(b)
  OBVIOUS
<1>5. CASE StillActive = <<>>
  <2>1. y \in ToSet(b) /\ z \in ToSet(b)
    BY <1>1, <1>2, <1>3, <1>5 DEF ToSet
  <2>2. PICK i \in 1 .. Len(b), j \in 1 .. Len(b) : b[i] = y /\ b[j] = z
    BY <1>4, <2>1 DEF ToSet
  <2>3. i # j
    BY <1>1, <2>2
  <2>4. Len(b) >= 2 /\ Len(StillActive) = 0
    BY <1>4, <1>5, <2>3
  <2>5. QED BY <1>3, <1>4, <2>4
<1>6. CASE StillActive # <<>>
  <2>1. StillActive = <<output_active[2]>> /\ Len(StillActive) = 1
    BY <1>6, BufferBack
  <2>2. ToSet(StillActive) = {output_active[2]}
    BY <2>1 DEF ToSet
  <2>3. PICK x \in {y, z} : x \in ToSet(b)
    BY <1>1, <1>2, <1>3, <2>2
  <2>4. Len(b) >= 1
    BY <1>4, <2>3 DEF ToSet
  <2>5. QED BY <1>3, <1>4, <2>1, <2>4
<1>7. QED BY <1>5, <1>6

(* Buffers move from a queue to __output_active, in order.                 *)
LEMMA AudioActive ==
  ASSUME NEW i, NEW q, NEW a, NEW z, BuffersApart(i, q, a, z), NEW n \in Nat
  PROVE  BuffersApart(i, After(q, Len(Upto(q, n))), a \o Upto(q, n), z)
<1>1. q \in Seq(Outputs) /\ a \in Seq(Buffers)
  BY DEF BuffersApart
<1>2. PICK u \in Seq(Outputs), v \in Seq(Outputs) :
        u = Upto(q, n) /\ v = After(q, Len(Upto(q, n))) /\ u \o v = q
  BY <1>1, UptoLemma
<1>3. /\ ToSet(q) = ToSet(u) \cup ToSet(v)
      /\ IsInjective(q) <=> IsInjective(u) /\ IsInjective(v) /\ ToSet(u) \cap ToSet(v) = {}
  <2>1. /\ ToSet(u \o v) = ToSet(u) \cup ToSet(v)
        /\ IsInjective(u \o v) <=>
             IsInjective(u) /\ IsInjective(v) /\ ToSet(u) \cap ToSet(v) = {}
    BY ConcatLemma
  <2>2. QED BY <1>2, <2>1
<1>4. u \in Seq(Buffers)
  BY DEF Buffers
<1>5. /\ a \o u \in Seq(Buffers) /\ ToSet(a \o u) = ToSet(a) \cup ToSet(u)
      /\ IsInjective(a \o u) <=> IsInjective(a) /\ IsInjective(u) /\ ToSet(a) \cap ToSet(u) = {}
  BY <1>1, <1>4, ConcatLemma
<1>6. ToSet(u) \cap ToSet(z) = {}
  BY BufferAssumption DEF BuffersApart, ToSet
<1>7. BuffersApart(i, v, a \o u, z)
  BY <1>1, <1>2, <1>3, <1>5, <1>6 DEF BuffersApart
<1>8. QED BY <1>2, <1>7

(* Silent buffers move to __output_active.                                 *)
LEMMA SilenceActive ==
  ASSUME open \in Outputs \cup {Nil}, NEW n \in Nat,
         NEW i, NEW q, NEW a, NEW z, BuffersApart(i, q, a, z)
  PROVE  BuffersApart(i, q, a \o Upto(z, n), After(z, Len(Upto(z, n))))
<1>1. z \in Seq(Silences) /\ a \in Seq(Buffers)
  BY DEF BuffersApart
<1>2. PICK u \in Seq(Silences), v \in Seq(Silences) :
        u = Upto(z, n) /\ v = After(z, Len(Upto(z, n))) /\ u \o v = z
  BY <1>1, UptoLemma
<1>3. /\ ToSet(z) = ToSet(u) \cup ToSet(v)
      /\ IsInjective(z) <=> IsInjective(u) /\ IsInjective(v) /\ ToSet(u) \cap ToSet(v) = {}
  <2>1. /\ ToSet(u \o v) = ToSet(u) \cup ToSet(v)
        /\ IsInjective(u \o v) <=>
             IsInjective(u) /\ IsInjective(v) /\ ToSet(u) \cap ToSet(v) = {}
    BY ConcatLemma
  <2>2. QED BY <1>2, <2>1
<1>4. u \in Seq(Buffers)
  BY DEF Buffers
<1>5. /\ a \o u \in Seq(Buffers) /\ ToSet(a \o u) = ToSet(a) \cup ToSet(u)
      /\ IsInjective(a \o u) <=> IsInjective(a) /\ IsInjective(u) /\ ToSet(a) \cap ToSet(u) = {}
  BY <1>1, <1>4, ConcatLemma
<1>6. ToSet(u) \cap ToSet(i) = {} /\ ToSet(u) \cap ToSet(q) = {} /\ open \notin ToSet(u)
      /\ ToSet(u) \subseteq Silences
  BY BufferAssumption DEF BuffersApart, ToSet, Sound, Types, TypeOK
<1>7. BuffersApart(i, q, a \o u, v)
  BY <1>1, <1>2, <1>3, <1>5, <1>6 DEF BuffersApart
<1>8. QED BY <1>2, <1>7

(* The smaller of two numbers.                                             *)
LEMMA LeastIs ==
  ASSUME NEW a \in Nat, NEW b \in Nat
  PROVE  /\ Least(a, b) \in Nat /\ Least(a, b) <= a /\ Least(a, b) <= b
         /\ a <= b => Least(a, b) = a
         /\ a - Least(a, b) \in Nat
BY DEF Least

(* One, or none of nothing.                                                *)
LEMMA LeastOne == \A k \in Nat : k >= 1 => Least(1, k) = 1
BY DEF Least

(* How many buffers the interrupt moves: enough to fill __output_active    *)
(* again.                                                                  *)
LEMMA RefillSizes ==
  ASSUME Sound, ~bitrate_change
  PROVE  LET bubble == IF RateChanges THEN Bubble ELSE <<>> IN
         /\ Len(bubble) = IF RateChanges THEN 1 ELSE 0
         /\ bubble \in Seq(Silences)
         /\ Room \in Nat /\ Room = 2 - Len(StillActive) - Len(bubble)
         /\ NextAudio \in Seq(Outputs) /\ NextSilence \in Seq(Silences)
         /\ Room - Len(NextAudio) \in Nat
         /\ Len(NextAudio) + Len(NextSilence) = Room
         /\ Len(StillActive) \in {0, 1}
         /\ Len(StillActive) = 0 => output_active = <<>>
<1> DEFINE bubble == IF RateChanges THEN Bubble ELSE <<>>
<1>1. /\ output_queued \in Seq(Outputs) /\ SilenceBack \in Seq(Silences)
      /\ StillActive \in Seq(Buffers)
  BY BufferBack DEF BuffersApart
<1>2. Len(StillActive) \in {0, 1} /\ (Len(StillActive) = 0 => output_active = <<>>)
  <2>1. CASE output_active = <<>>
    <3>1. StillActive = <<>> /\ Len(<<>>) = 0
      BY <2>1, BufferBack
    <3>2. QED BY <2>1, <3>1
  <2>2. CASE output_active # <<>>
    <3>1. Len(StillActive) = 1
      BY <2>2, BufferBack
    <3>2. QED BY <3>1
  <2>3. QED BY <2>1, <2>2
<1>3. Len(SilenceBack) + Len(StillActive) >= 2 /\ Len(SilenceBack) \in Nat
  BY <1>1, SilenceLeft
<1>4. /\ Bubble \in Seq(Silences) /\ Rest \in Seq(Silences)
      /\ Len(Bubble) = 1 /\ Len(Rest) = Len(SilenceBack) - 1
  <2>1. /\ Upto(SilenceBack, 1) \in Seq(Silences)
        /\ Len(Upto(SilenceBack, 1)) = Least(1, Len(SilenceBack))
        /\ After(SilenceBack, Len(Upto(SilenceBack, 1))) \in Seq(Silences)
        /\ Len(After(SilenceBack, Len(Upto(SilenceBack, 1)))) =
              Len(SilenceBack) - Len(Upto(SilenceBack, 1))
    BY <1>1, UptoLemma
  <2>2. Least(1, Len(SilenceBack)) = 1
    <3>1. Len(SilenceBack) >= 1
      BY <1>2, <1>3
    <3>2. QED BY <1>3, <3>1, LeastOne
  <2>3. QED BY <2>1, <2>2, Zenon DEF Bubble, Rest
<1>5. Len(bubble) = (IF RateChanges THEN 1 ELSE 0) /\ bubble \in Seq(Silences)
  <2>1. CASE RateChanges
    BY <1>4, <2>1
  <2>2. CASE ~RateChanges
    <3>1. <<>> \in Seq(Silences) /\ Len(<<>>) = 0
      OBVIOUS
    <3>2. QED BY <2>2, <3>1
  <2>3. QED BY <2>1, <2>2
<1>6. Room = 2 - Len(StillActive) - Len(bubble) /\ Room \in Nat
  <2>1. Room = 2 - Len(StillActive) - (IF RateChanges THEN 1 ELSE 0)
    BY <1>4 DEF Room
  <2>2. QED BY <1>2, <1>5, <2>1
<1>7. /\ NextAudio \in Seq(Outputs) /\ Len(NextAudio) = Least(Room, Len(output_queued))
      /\ Room - Len(NextAudio) \in Nat
  <2>1. NextAudio \in Seq(Outputs) /\ Len(NextAudio) = Least(Room, Len(output_queued))
    BY <1>1, <1>6, UptoLemma DEF NextAudio
  <2>2. Len(output_queued) \in Nat
    BY <1>1
  <2>3. QED BY <1>6, <2>1, <2>2, LeastIs
<1>8. /\ Quiet \in Seq(Silences) /\ NextSilence \in Seq(Silences)
      /\ Len(NextSilence) = Least(Room - Len(NextAudio), Len(Quiet))
  <2>1. Quiet \in Seq(Silences)
    BY <1>1, <1>4 DEF Quiet
  <2>2. QED BY <1>7, <2>1, UptoLemma DEF NextSilence
<1>9. Len(Quiet) >= Room - Len(NextAudio)
  <2>1. CASE RateChanges
    <3>1. Len(output_queued) >= 1
      <4>1. output_queued # <<>>
        BY <2>1 DEF RateChanges
      <4>2. QED BY <1>1, <4>1, EmptySeq
    <3>2. Room \in {0, 1} /\ Len(Quiet) \in Nat
      <4>1. Len(bubble) = 1
        BY <1>5, <2>1
      <4>2. Len(Quiet) \in Nat
        BY <1>8
      <4> HIDE DEF bubble
      <4>3. QED BY <1>2, <1>6, <4>1, <4>2
    <3>3. Len(output_queued) \in Nat
      BY <1>1
    <3>4. Len(NextAudio) = Room
      BY <1>7, <3>1, <3>2, <3>3 DEF Least
    <3>5. QED BY <3>2, <3>4
  <2>2. CASE ~RateChanges
    <3>1. Len(Quiet) = Len(SilenceBack) /\ Room = 2 - Len(StillActive)
      BY <1>2, <1>5, <1>6, <2>2 DEF Quiet
    <3>2. Len(NextAudio) \in Nat
      BY <1>7
    <3>3. QED BY <1>2, <1>3, <3>1, <3>2
  <2>3. QED BY <2>1, <2>2
<1>10. Len(NextAudio) + Len(NextSilence) = Room
  <2>1. Len(NextSilence) = Room - Len(NextAudio)
    <3>1. Len(Quiet) \in Nat
      BY <1>8
    <3>2. QED BY <1>7, <1>8, <1>9, <3>1 DEF Least
  <2>2. Len(NextAudio) \in Nat
    BY <1>7
  <2>3. QED BY <1>6, <2>1, <2>2
<1>11. QED BY <1>2, <1>5, <1>6, <1>7, <1>8, <1>10

(* What the DMA channel would hold.                                        *)
LEMMA ChannelSize ==
  ASSUME Sound, ~bitrate_change
  PROVE  /\ dma \o NextAudio \o NextSilence \in Seq(Buffers)
         /\ Len(dma \o NextAudio \o NextSilence) = Len(dma) + Room
         /\ Len(dma) < 2 => Len(dma) + Room <= 2
<1>1. PICK d \in Seq(Buffers), a \in Seq(Buffers), z \in Seq(Buffers) :
        d = dma /\ a = NextAudio /\ z = NextSilence
  <2>1. NextAudio \in Seq(Outputs) /\ NextSilence \in Seq(Silences)
    BY RefillSizes
  <2>2. NextAudio \in Seq(Buffers) /\ NextSilence \in Seq(Buffers)
    BY <2>1 DEF Buffers
  <2>3. QED BY <2>2 DEF Sound, Types
<1>2. d \o a \o z \in Seq(Buffers) /\ Len(d \o a \o z) = Len(d) + Len(a) + Len(z)
  OBVIOUS
<1>3. Len(a) + Len(z) = Room /\ Room \in Nat
  BY <1>1, RefillSizes
<1>4. Len(dma) < 2 => Len(dma) + Room <= 2
  <2>1. Len(dma) \in Nat /\ (output_active = <<>> => Len(dma) = 0)
    BY DEF Sound, Types, Channel
  <2>2. /\ Len(StillActive) \in {0, 1} /\ (Len(StillActive) = 0 => output_active = <<>>)
        /\ Room <= 2 - Len(StillActive)
    BY RefillSizes
  <2>3. QED BY <1>3, <2>1, <2>2
<1>5. Len(d \o a \o z) = Len(d) + Room
  <2>1. Len(d) \in Nat /\ Len(a) \in Nat /\ Len(z) \in Nat
    OBVIOUS
  <2>2. QED BY <1>2, <1>3, <2>1
<1>6. QED BY <1>1, <1>2, <1>4, <1>5

(* The interrupt fills __output_active again ...                           *)
LEMMA RefillSound ==
  ASSUME Sound, Refill, output_idle' = OutputBack, Len(dma) < 2,
         UNCHANGED <<inputVars, out, taskVars, made, played>>
  PROVE  Sound'
<1> DEFINE bubble == IF RateChanges THEN Bubble ELSE <<>>
<1> USE DEF inputVars, taskVars
<1>1. /\ ~bitrate_change
      /\ bitrate_change' = RateChanges
      /\ new_bitrate' = IF RateChanges THEN out[Head(output_queued)].rate ELSE new_bitrate
      /\ output_active' = StillActive \o bubble \o NextAudio \o NextSilence
      /\ dma' = dma \o NextAudio \o NextSilence
      /\ output_queued' = After(output_queued, Len(NextAudio))
      /\ idle_silence' = After(Quiet, Len(NextSilence))
      /\ UNCHANGED bitrate
  BY Zenon DEF Refill
<1>2. /\ Len(bubble) = (IF RateChanges THEN 1 ELSE 0) /\ bubble \in Seq(Silences)
      /\ Room \in Nat /\ Room = 2 - Len(StillActive) - Len(bubble)
      /\ NextAudio \in Seq(Outputs) /\ NextSilence \in Seq(Silences)
      /\ Room - Len(NextAudio) \in Nat /\ Len(NextAudio) + Len(NextSilence) = Room
      /\ Len(StillActive) \in {0, 1}
  BY <1>1, RefillSizes
<1>3. BuffersApart(OutputBack, output_queued, StillActive, SilenceBack)
  BY BufferBack
<1>4. BuffersApart(OutputBack, output_queued, StillActive \o bubble, Quiet)
  <2>1. CASE RateChanges
    <3>1. BuffersApart(OutputBack, output_queued, StillActive \o Upto(SilenceBack, 1),
                       After(SilenceBack, Len(Upto(SilenceBack, 1))))
      BY <1>3, SilenceActive DEF Sound, Types, TypeOK
    <3>2. Len(Upto(SilenceBack, 1)) = 1
      BY <1>2, <2>1 DEF Bubble
    <3>3. QED BY <2>1, <3>1, <3>2 DEF Bubble, Rest, Quiet
  <2>2. CASE ~RateChanges
    <3>1. StillActive \o <<>> = StillActive
      BY <1>3, ConcatEmptySeq DEF BuffersApart
    <3>2. QED BY <1>3, <2>2, <3>1 DEF Quiet
  <2>3. QED BY <2>1, <2>2
<1> HIDE DEF bubble
<1>5. BuffersApart(OutputBack, output_queued', StillActive \o bubble \o NextAudio, Quiet)
  BY <1>1, <1>2, <1>4, AudioActive DEF NextAudio
<1>6. BuffersApart(OutputBack, output_queued', output_active', idle_silence')
  <2>1. open \in Outputs \cup {Nil}
    BY DEF Sound, Types, TypeOK
  <2>2. QED BY <1>1, <1>2, <1>5, <2>1, SilenceActive DEF NextSilence
<1>7. Apart'
  BY <1>6 DEF Apart, BuffersApart
<1>8. output_active' \in Seq(Buffers) /\ Len(output_active') = 2
  <2>1. PICK s \in Seq(Buffers), b \in Seq(Buffers), a \in Seq(Buffers), z \in Seq(Buffers) :
          s = StillActive /\ b = bubble /\ a = NextAudio /\ z = NextSilence
    <3>1. /\ bubble \in Seq(Buffers) /\ NextAudio \in Seq(Buffers)
          /\ NextSilence \in Seq(Buffers)
      BY <1>2 DEF Buffers
    <3>2. QED BY <1>3, <3>1 DEF BuffersApart
  <2>2. /\ s \o b \o a \o z \in Seq(Buffers)
        /\ Len(s \o b \o a \o z) = Len(s) + Len(b) + Len(a) + Len(z)
    OBVIOUS
  <2>3. Len(s) \in Nat /\ Len(b) \in Nat /\ Len(a) \in Nat /\ Len(z) \in Nat
    OBVIOUS
  <2>4. Len(s) + Len(b) + Len(a) + Len(z) = 2
    BY <1>2, <2>1, <2>3
  <2>5. QED BY <1>1, <2>1, <2>2, <2>4
<1>9. dma' \in Seq(Buffers) /\ Len(dma') <= 2
  BY <1>1, ChannelSize
<1>10. Types'
  <2>1. output_idle' \in Seq(Outputs) /\ output_queued' \in Seq(Outputs)
        /\ idle_silence' \in Seq(Silences)
    BY <1>7 DEF Apart, BuffersApart
  <2>2. /\ new_bitrate' \in Rates \cup {0} /\ bitrate_change' = (new_bitrate' # 0)
    <3>1. CASE RateChanges
      <4>1. Head(output_queued) \in Outputs
        BY <3>1, ReceiveLemma DEF RateChanges, Sound, Types, TypeOK
      <4>2. out[Head(output_queued)].rate \in Rates /\ 0 \notin Rates
        BY <4>1, CountAssumption DEF Sound, Types, TypeOK
      <4>3. QED BY <1>1, <3>1, <4>2
    <3>2. CASE ~RateChanges
      <4>1. new_bitrate \in Rates \cup {0} /\ ~(new_bitrate # 0)
        BY <1>1 DEF Sound, Types, TypeOK
      <4>2. new_bitrate' = new_bitrate /\ ~bitrate_change' /\ bitrate_change' \in BOOLEAN
        BY <1>1, <3>2 DEF RateChanges
      <4>3. QED BY <4>1, <4>2
    <3>3. QED BY <3>1, <3>2
  <2>3. TypeOK'
    BY <1>1, <1>8, <2>1, <2>2 DEF Sound, Types, TypeOK
  <2>4. QED BY <1>8, <1>9, <2>3 DEF Sound, Types
<1>11. RequestsApart' /\ TaskRoles'
  BY DEF Sound, RequestsApart, TaskRoles
<1>12. Channel'
  BY <1>8, <1>9 DEF Channel
<1>13. QED BY <1>7, <1>10, <1>11, <1>12 DEF Sound

(* ... or, half way through a change of rate, puts in one silent buffer.   *)
LEMMA ChangeRateSound ==
  ASSUME Sound, ChangeRate, output_idle' = OutputBack,
         UNCHANGED <<inputVars, out, taskVars, made, played>>
  PROVE  Sound'
<1> USE DEF inputVars, taskVars
<1>1. /\ bitrate_change /\ bitrate' = new_bitrate /\ bitrate_change' = FALSE /\ new_bitrate' = 0
      /\ output_active' = StillActive \o Bubble /\ idle_silence' = Rest
      /\ UNCHANGED <<output_queued, dma>>
  BY Zenon DEF ChangeRate
<1>2. output_active # <<>>
  BY <1>1, EmptySeq, SMTT(30) DEF Sound, Channel
<1>3. Len(StillActive) = 1
  BY <1>2, BufferBack
<1>4. BuffersApart(OutputBack, output_queued, StillActive, SilenceBack)
  BY BufferBack
<1>5. /\ Bubble \in Seq(Silences) /\ Len(Bubble) = 1
      /\ Rest = After(SilenceBack, Len(Upto(SilenceBack, 1)))
  <2>1. SilenceBack \in Seq(Silences)
    BY <1>4 DEF BuffersApart
  <2>2. /\ Upto(SilenceBack, 1) \in Seq(Silences)
        /\ Len(Upto(SilenceBack, 1)) = Least(1, Len(SilenceBack))
    BY <2>1, UptoLemma
  <2>3. Least(1, Len(SilenceBack)) = 1
    <3>1. Len(SilenceBack) \in Nat /\ Len(SilenceBack) + Len(StillActive) >= 2
      BY <2>1, SilenceLeft
    <3>2. Len(SilenceBack) >= 1
      BY <1>3, <3>1
    <3>3. QED BY <3>1, <3>2, LeastOne
  <2>4. QED BY <2>2, <2>3, Zenon DEF Bubble, Rest
<1>6. BuffersApart(OutputBack, output_queued, output_active', idle_silence')
  <2>1. open \in Outputs \cup {Nil}
    BY DEF Sound, Types, TypeOK
  <2>2. BuffersApart(OutputBack, output_queued, StillActive \o Upto(SilenceBack, 1),
                     After(SilenceBack, Len(Upto(SilenceBack, 1))))
    BY <1>4, <2>1, SilenceActive
  <2>3. QED BY <1>1, <1>5, <2>2 DEF Bubble
<1>7. Apart'
  BY <1>1, <1>6 DEF Apart, BuffersApart
<1>8. output_active' \in Seq(Buffers) /\ Len(output_active') = 2
  <2>1. PICK s \in Seq(Buffers), b \in Seq(Buffers) : s = StillActive /\ b = Bubble
    BY <1>4, <1>5 DEF BuffersApart, Buffers
  <2>2. s \o b \in Seq(Buffers) /\ Len(s \o b) = Len(s) + Len(b)
    OBVIOUS
  <2>3. QED BY <1>1, <1>3, <1>5, <2>1, <2>2
<1>9. Types'
  <2>1. output_idle' \in Seq(Outputs) /\ idle_silence' \in Seq(Silences)
    BY <1>7 DEF Apart, BuffersApart
  <2>2. bitrate' \in Rates
    BY <1>1 DEF Sound, Types, TypeOK
  <2>3. bitrate_change' = (new_bitrate' # 0) /\ new_bitrate' \in Rates \cup {0}
    BY <1>1
  <2>4. TypeOK'
    BY <1>1, <1>8, <2>1, <2>2, <2>3 DEF Sound, Types, TypeOK
  <2>5. QED BY <1>1, <1>8, <2>4 DEF Sound, Types
<1>10. RequestsApart' /\ TaskRoles'
  BY DEF Sound, RequestsApart, TaskRoles
<1>11. Channel'
  BY <1>1, <1>8 DEF Sound, Channel
<1>12. QED BY <1>7, <1>9, <1>10, <1>11 DEF Sound

(* Every step keeps the invariant.                                         *)
LEMMA NextSound == Sound /\ [Next]_vars => Sound'
<1> SUFFICES ASSUME Sound, [Next]_vars PROVE Sound'
  OBVIOUS
<1>1. CASE QueueData
  <2>1. PICK n \in Counts, r \in Rates : QueueRequest(n, r)
    BY <1>1 DEF QueueData
  <2>2. n \in Nat
    BY CountAssumption
  <2>3. QED BY <2>1, <2>2, QueueRequestSound
<1>2. CASE DataComplete
  <2>1. QueueRequest(0, FirstRate) /\ 0 \in Nat /\ FirstRate \in Rates
    BY <1>2, CountAssumption DEF DataComplete
  <2>2. QED BY <2>1, QueueRequestSound
<1>3. CASE Task
  BY <1>3, TaskReceiveSound, FlushSound, TakeOutputSound, ProcessSamplesSound, ReturnInputSound
  DEF Task
<1>4. CASE Play
  BY <1>4, PlaySound
<1>5. CASE DacBufferComplete
  BY <1>5, RefillSound, ChangeRateSound DEF DacBufferComplete
<1>6. CASE UNCHANGED vars
  BY <1>6 DEF vars, inputVars, outputVars, dacVars, taskVars, Sound, Types, TypeOK, RequestsApart,
              Apart, BuffersApart, TaskRoles, Channel
<1>7. QED BY <1>1, <1>2, <1>3, <1>4, <1>5, <1>6 DEF Next

(* The message in hand, as a queue of one or none.                         *)
LEMMA InHand ==
  ASSUME NEW S, NEW x \in S \cup {Nil}, Nil \notin S
  PROVE  LET h == IF x = Nil THEN <<>> ELSE <<x>> IN
         h \in Seq(S) /\ IsInjective(h) /\ ToSet(h) = {x} \ {Nil}
<1>1. CASE x = Nil
  BY <1>1 DEF IsInjective, ToSet
<1>2. CASE x # Nil
  <2>1. <<x>> \in Seq(S) /\ DOMAIN <<x>> = {1} /\ <<x>>[1] = x
    BY <1>2
  <2>2. IsInjective(<<x>>) /\ ToSet(<<x>>) = {x}
    BY <2>1 DEF IsInjective, ToSet
  <2>3. QED BY <1>2, <2>1, <2>2
<1>3. QED BY <1>1, <1>2

(* The queues are apart: together they name every buffer once.             *)
LEMMA SoundOnePlace == Sound => OnePlace
<1> SUFFICES ASSUME Sound PROVE OnePlace
  OBVIOUS
<1> DEFINE c == IF cur = Nil THEN <<>> ELSE <<cur>>
           o == IF open = Nil THEN <<>> ELSE <<open>>
<1>1. c \in Seq(Inputs) /\ IsInjective(c) /\ ToSet(c) = {cur} \ {Nil}
  BY InHand, BufferAssumption DEF Sound, Types, TypeOK
<1>2. o \in Seq(Buffers) /\ IsInjective(o) /\ ToSet(o) = {open} \ {Nil}
  <2>1. open \in Buffers \cup {Nil} /\ Nil \notin Buffers
    BY BufferAssumption DEF Sound, Types, TypeOK, Buffers
  <2>2. QED BY <2>1, InHand
<1> HIDE DEF c, o
<1>3. /\ IsInjective(input_idle \o input_queued \o c)
      /\ ToSet(input_idle \o input_queued \o c) = Inputs
  <2>1. PICK a \in Seq(Inputs), b \in Seq(Inputs) : a = input_idle /\ b = input_queued
    BY DEF Sound, Types, TypeOK
  <2>2. /\ a \o b \in Seq(Inputs) /\ ToSet(a \o b) = ToSet(a) \cup ToSet(b)
        /\ IsInjective(a \o b)
    BY <2>1, ConcatLemma DEF Sound, RequestsApart
  <2>3. ToSet(a \o b) \cap ToSet(c) = {}
    BY <1>1, <2>1, <2>2 DEF Sound, RequestsApart
  <2>4. PICK ab \in Seq(Inputs) : ab = a \o b
    BY <2>2
  <2>5. ToSet(ab \o c) = ToSet(ab) \cup ToSet(c) /\ IsInjective(ab \o c)
    BY <1>1, <2>2, <2>3, <2>4, ConcatLemma
  <2>6. ToSet(ab \o c) = Inputs
    <3>1. Inputs \subseteq ToSet(ab \o c)
      BY <1>1, <2>1, <2>2, <2>4, <2>5, BufferAssumption DEF Sound, RequestsApart
    <3>2. ToSet(a) \subseteq Inputs /\ ToSet(b) \subseteq Inputs /\ ToSet(c) \subseteq Inputs
      BY <1>1 DEF ToSet
    <3>3. QED BY <2>2, <2>4, <2>5, <3>1, <3>2
  <2>7. QED BY <2>1, <2>4, <2>5, <2>6
<1>4. /\ IsInjective(output_idle \o output_queued \o o \o output_active \o idle_silence)
      /\ ToSet(output_idle \o output_queued \o o \o output_active \o idle_silence) = Buffers
  <2>1. PICK i \in Seq(Buffers), q \in Seq(Buffers), a \in Seq(Buffers), z \in Seq(Buffers) :
          i = output_idle /\ q = output_queued /\ a = output_active /\ z = idle_silence
    BY DEF Sound, Types, TypeOK, Buffers
  <2>2. /\ IsInjective(i) /\ IsInjective(q) /\ IsInjective(a) /\ IsInjective(z)
        /\ ToSet(i) \cap ToSet(q) = {} /\ ToSet(i) \cap ToSet(a) = {}
        /\ ToSet(q) \cap ToSet(a) = {} /\ ToSet(z) \cap ToSet(a) = {}
        /\ open \notin ToSet(i) \cup ToSet(q) \cup ToSet(a)
        /\ Outputs \subseteq ToSet(i) \cup ToSet(q) \cup ToSet(a) \cup {open}
        /\ Silences \subseteq ToSet(z) \cup ToSet(a)
    BY <2>1 DEF Sound, Apart, BuffersApart
  <2>3. /\ ToSet(i) \subseteq Outputs /\ ToSet(q) \subseteq Outputs /\ ToSet(z) \subseteq Silences
        /\ ToSet(a) \subseteq Buffers /\ ToSet(o) \subseteq Outputs
    <3>1. i \in Seq(Outputs) /\ q \in Seq(Outputs) /\ z \in Seq(Silences)
      BY <2>1 DEF Sound, Types, TypeOK
    <3>2. \A S : \A s \in Seq(S) : ToSet(s) \subseteq S
      BY DEF ToSet
    <3>3. ToSet(o) \subseteq Outputs
      BY <1>2 DEF Sound, Types, TypeOK
    <3>4. QED BY <2>1, <3>1, <3>2, <3>3
  <2>4. PICK iq \in Seq(Buffers) : /\ iq = i \o q /\ IsInjective(iq)
                                   /\ ToSet(iq) = ToSet(i) \cup ToSet(q)
    <3>1. i \o q \in Seq(Buffers) /\ IsInjective(i \o q) /\ ToSet(i \o q) = ToSet(i) \cup ToSet(q)
      BY <2>2, ConcatLemma
    <3>2. QED BY <3>1
  <2>5. PICK io \in Seq(Buffers) : /\ io = iq \o o /\ IsInjective(io)
                                   /\ ToSet(io) = ToSet(iq) \cup ToSet(o)
    <3>1. ToSet(iq) \cap ToSet(o) = {}
      BY <1>2, <2>2, <2>4
    <3>2. QED BY <1>2, <2>4, <3>1, ConcatLemma
  <2>6. PICK ia \in Seq(Buffers) : /\ ia = io \o a /\ IsInjective(ia)
                                   /\ ToSet(ia) = ToSet(io) \cup ToSet(a)
    <3>1. ToSet(io) \cap ToSet(a) = {}
      BY <1>2, <2>2, <2>4, <2>5
    <3>2. QED BY <2>2, <2>5, <3>1, ConcatLemma, ZenonT(30)
  <2>7. IsInjective(ia \o z) /\ ToSet(ia \o z) = ToSet(ia) \cup ToSet(z)
    <3>1. ToSet(ia) \cap ToSet(z) = {}
      BY <2>2, <2>3, <2>4, <2>5, <2>6, BufferAssumption
    <3>2. QED BY <2>2, <2>6, <3>1, ConcatLemma
  <2>8. ToSet(ia \o z) = Buffers
    <3>1. ToSet(ia \o z) \subseteq Buffers
      BY <2>3, <2>4, <2>5, <2>6, <2>7 DEF Buffers
    <3>2. Outputs \subseteq ToSet(ia \o z)
      BY <1>2, <2>2, <2>4, <2>5, <2>6, <2>7, BufferAssumption
    <3>3. Silences \subseteq ToSet(ia \o z)
      BY <2>2, <2>6, <2>7
    <3>4. QED BY <3>1, <3>2, <3>3 DEF Buffers
  <2>9. QED BY <2>1, <2>4, <2>5, <2>6, <2>7, <2>8
<1>5. TypeOK
  BY DEF Sound, Types
<1>6. QED BY <1>3, <1>4, <1>5 DEF OnePlace, c, o, Buffers

-----------------------------------------------------------------------------

(* Requests, output buffers and silent buffers are each in one place, and  *)
(* none is lost (dsp.c), across any number of songs and rates.             *)
THEOREM BuffersConserved == Spec => []OnePlace
BY InitSound, NextSound, SoundOnePlace, PTL DEF Spec

(* __dac_buffer_complete never finds the DMA channel full, where it would  *)
(* never return (dsp.c lines 338-357).                                     *)
THEOREM ChannelHasRoom == Spec => []PdcaHasRoom
<1>1. Sound => PdcaHasRoom
  BY ChannelSize DEF PdcaHasRoom
<1>2. QED BY <1>1, InitSound, NextSound, PTL DEF Spec

-----------------------------------------------------------------------------
(* What RequestsReturn rests on.                                           *)

(* How much of the request in hand is left to do.                          *)
RequestAhead ==
  IF pc = "fill" THEN 2 * (in[cur].count - offset) + (IF open = Nil THEN 2 ELSE 1)
  ELSE IF pc = "flush" THEN 1 ELSE 0

LEMMA TaskNearsEnd ==
  ASSUME Sound, Task, cur # Nil, cur' = cur
  PROVE  RequestAhead' \in Nat /\ RequestAhead' < RequestAhead
<1>1. ~TaskReceive /\ ~ReturnInput
  BY DEF TaskReceive, ReturnInput, Sound, TaskRoles
<1>2. cur \in Inputs /\ in' = in
  BY <1>1 DEF Sound, Types, TypeOK, Task, Flush, TakeOutput, ProcessSamples, inputVars
<1>3. PICK c \in Nat : c = in[cur].count /\ c = in'[cur'].count
  BY <1>2 DEF Sound, Types
<1>4. offset \in Nat
  BY DEF Sound, Types, TypeOK
<1>5. CASE Flush
  <2>1. pc = "flush" /\ pc' = "return"
    BY <1>5 DEF Flush
  <2>2. RequestAhead = 1 /\ RequestAhead' = 0
    BY <2>1 DEF RequestAhead
  <2>3. QED BY <2>2
<1>6. CASE TakeOutput
  <2>1. pc = "fill" /\ pc' = "fill" /\ offset' = offset /\ open = Nil /\ open' # Nil
    <3>1. Head(output_idle) \in Outputs
      BY <1>6, ReceiveLemma DEF TakeOutput, Sound, Types, TypeOK
    <3>2. QED BY <1>6, <3>1, BufferAssumption DEF TakeOutput
  <2>2. RequestAhead = 2 * (c - offset) + 2 /\ RequestAhead' = 2 * (c - offset) + 1
    BY <1>3, <2>1 DEF RequestAhead
  <2>3. offset < c
    BY <1>3, <2>1 DEF Sound, TaskRoles
  <2>4. QED BY <1>4, <2>2, <2>3
<1>7. CASE ProcessSamples
  <2>1. /\ pc = "fill" /\ open # Nil /\ offset' = offset + ProcessSize
        /\ pc' = IF offset + ProcessSize < in[cur].count THEN "fill" ELSE "return"
    BY <1>7 DEF ProcessSamples
  <2>2. PICK n \in Nat \ {0} : n = ProcessSize /\ offset + n <= c
    BY <1>3, <2>1, ProcessSizeIs
  <2>3. RequestAhead = 2 * (c - offset) + 1
    BY <1>3, <2>1 DEF RequestAhead
  <2>4. CASE offset + n < c
    <3>1. PICK k \in {1, 2} : k = IF open' = Nil THEN 2 ELSE 1
      OBVIOUS
    <3>2. pc' = "fill" /\ offset' = offset + n
      BY <1>3, <2>1, <2>2, <2>4
    <3>3. RequestAhead' = 2 * (c - (offset + n)) + k
      BY <1>3, <3>1, <3>2 DEF RequestAhead
    <3>4. QED BY <1>4, <2>2, <2>3, <2>4, <3>3
  <2>5. CASE ~(offset + n < c)
    <3>1. pc' = "return"
      BY <1>3, <2>1, <2>2, <2>5
    <3>2. RequestAhead' = 0
      BY <3>1 DEF RequestAhead
    <3>3. QED BY <1>4, <2>2, <2>3, <3>2
  <2>6. QED BY <2>4, <2>5
<1>8. QED BY <1>1, <1>5, <1>6, <1>7 DEF Task

(* The task ends what it has begun: each of its steps brings it nearer to  *)
(* the end of the request in hand, and nobody else's step takes it further *)
(* away, for any number of samples in a request and in a buffer.           *)
THEOREM RequestsGetDone ==
  Spec => [][cur # Nil /\ cur' = cur =>
               IF Task THEN RequestAhead' \in Nat /\ RequestAhead' < RequestAhead
               ELSE RequestAhead' = RequestAhead]_vars
<1>1. ASSUME Sound, Next, cur # Nil, cur' = cur, ~Task PROVE RequestAhead' = RequestAhead
  <2>1. UNCHANGED taskVars
    BY <1>1 DEF Next, QueueData, DataComplete, QueueRequest, Play, DacBufferComplete
  <2>2. in'[cur] = in[cur]
    <3>1. CASE in' = in
      BY <3>1
    <3>2. ASSUME NEW n, NEW r, QueueRequest(n, r) PROVE in'[cur] = in[cur]
      <4>1. Head(input_idle) \in ToSet(input_idle) /\ Head(input_idle) \in Inputs
        BY <1>1, <3>2, ReceiveLemma DEF QueueRequest, Sound, Types, TypeOK
      <4>2. cur # Head(input_idle) /\ cur \in Inputs
        BY <1>1, <4>1 DEF Sound, RequestsApart, Types, TypeOK
      <4>3. QED BY <1>1, <3>2, <4>2 DEF QueueRequest, Sound, Types
    <3>3. QED
      BY <1>1, <3>1, <3>2 DEF Next, QueueData, DataComplete, Play, DacBufferComplete, inputVars
  <2>3. QED BY <2>1, <2>2 DEF taskVars, RequestAhead
<1>2. Sound /\ [Next]_vars =>
        [cur # Nil /\ cur' = cur =>
           IF Task THEN RequestAhead' \in Nat /\ RequestAhead' < RequestAhead
           ELSE RequestAhead' = RequestAhead]_vars
  BY <1>1, TaskNearsEnd
<1>3. QED BY <1>2, InitSound, NextSound, PTL DEF Spec

(* The task waits for a buffer to fill.                                    *)
TaskWaits == pc = "fill" /\ open = Nil /\ output_idle = <<>>

(* How many interrupts until one gives it back: where the first of them is *)
(* in __output_active, which holds two; else it is queued, and the next    *)
(* interrupt takes it, once a change of rate has been gone through.        *)
AudioAt ==
  IF output_active # <<>> /\ output_active[1] \in Outputs THEN 1
  ELSE IF Len(output_active) = 2 /\ output_active[2] \in Outputs THEN 2
  ELSE IF bitrate_change THEN 4
  ELSE IF RateChanges THEN 5 ELSE 3

(* And how many ends of a buffer in the DMA channel before them.           *)
DacAhead == 3 * AudioAt + Len(dma)

(* A change of rate half way is to that of the buffer that comes next, or  *)
(* there is one in __output_active.                                        *)
AudioIn(q) == \E k \in {1, 2} : k <= Len(q) /\ q[k] \in Outputs
RateKnown ==
  bitrate_change =>
    \/ AudioIn(output_active)
    \/ output_queued # <<>> /\ out[Head(output_queued)].rate = new_bitrate

(* What the interrupt makes of __output_active: the buffer that was second *)
(* is first, and there is one of samples, if any is queued, or the change  *)
(* of rate comes before it.                                                *)
LEMMA RefillActive ==
  ASSUME Sound, Refill
  PROVE  /\ Len(output_active') = 2
         /\ output_active # <<>> => output_active'[1] = output_active[2]
         /\ output_queued # <<>> =>
              AudioIn(output_active') \/ (RateChanges /\ output_queued' = output_queued)
<1>1. /\ ~bitrate_change
      /\ output_active' =
           StillActive \o (IF RateChanges THEN Bubble ELSE <<>>) \o NextAudio \o NextSilence
      /\ output_queued' = After(output_queued, Len(NextAudio))
  BY Zenon DEF Refill
<1>2. PICK bubble : bubble = IF RateChanges THEN Bubble ELSE <<>>
  OBVIOUS
<1>3. /\ Len(bubble) = (IF RateChanges THEN 1 ELSE 0) /\ bubble \in Seq(Silences)
      /\ Room \in Nat /\ Room = 2 - Len(StillActive) - Len(bubble)
      /\ NextAudio \in Seq(Outputs) /\ NextSilence \in Seq(Silences)
      /\ Len(NextAudio) + Len(NextSilence) = Room
      /\ Len(StillActive) \in {0, 1}
      /\ Len(StillActive) = 0 => output_active = <<>>
  BY <1>1, <1>2, RefillSizes
<1>4. StillActive \in Seq(Buffers) /\ output_queued \in Seq(Outputs)
  BY BufferBack DEF BuffersApart
<1>5. PICK s \in Seq(Buffers), b \in Seq(Buffers), a \in Seq(Buffers), z \in Seq(Buffers) :
        s = StillActive /\ b = bubble /\ a = NextAudio /\ z = NextSilence
  BY <1>3, <1>4 DEF Buffers
<1>6. /\ Len(s \o b \o a \o z) = Len(s) + Len(b) + Len(a) + Len(z)
      /\ s # <<>> => (s \o b \o a \o z)[1] = s[1]
      /\ a # <<>> => (s \o b \o a \o z)[Len(s) + Len(b) + 1] = a[1]
      /\ Len(s) \in Nat /\ Len(b) \in Nat /\ Len(a) \in Nat /\ Len(z) \in Nat
  OBVIOUS
<1>7. PICK r : r = output_active' /\ r = s \o b \o a \o z
  BY <1>1, <1>2, <1>5
<1>8. Len(s) + Len(b) + Len(a) + Len(z) = 2 /\ Len(r) = 2
  BY <1>3, <1>5, <1>6, <1>7
<1>9. output_active # <<>> => r[1] = output_active[2]
  <2>1. PICK x \in {output_active[2]} : output_active # <<>> => s = <<x>>
    BY <1>5, BufferBack
  <2>2. <<x>> # <<>> /\ <<x>>[1] = x
    OBVIOUS
  <2>3. QED BY <1>6, <1>7, <2>1, <2>2
<1>10. ASSUME output_queued # <<>>
       PROVE  AudioIn(r) \/ (RateChanges /\ output_queued' = output_queued)
  <2>1. Len(output_queued) \in Nat /\ Len(output_queued) >= 1
    BY <1>4, <1>10, EmptySeq
  <2>2. PICK n \in Nat : n = Room
    BY <1>3
  <2>3. Len(a) = Least(n, Len(output_queued))
    BY <1>4, <1>5, <2>2, UptoLemma DEF NextAudio
  <2>4. CASE n = 0
    <3>1. RateChanges
      <4>1. SUFFICES ASSUME ~RateChanges PROVE FALSE
        OBVIOUS
      <4>2. PICK k \in {0, 1} : k = Len(StillActive)
        BY <1>3
      <4>3. 0 = 2 - k - 0
        BY <1>3, <2>2, <2>4, <4>1, <4>2
      <4>4. 2 - 0 - 0 # 0 /\ 2 - 1 - 0 # 0
        OBVIOUS
      <4>5. QED BY <4>2, <4>3, <4>4
    <3>2. Len(a) = 0
      BY <2>1, <2>3, <2>4 DEF Least
    <3>3. After(output_queued, 0) = output_queued
      BY <1>4 DEF After
    <3>4. QED BY <1>1, <1>5, <3>1, <3>2, <3>3
  <2>5. CASE n # 0
    <3>1. Len(a) >= 1
      BY <2>1, <2>3, <2>5 DEF Least
    <3>2. a # <<>> /\ a[1] \in Outputs
      BY <1>3, <1>5, <3>1
    <3>3. Len(s) + Len(b) + 1 \in {1, 2}
      BY <1>6, <1>8, <3>1
    <3>4. PICK k \in {1, 2} : k = Len(s) + Len(b) + 1
      BY <3>3
    <3>5. k <= Len(r) /\ r[k] \in Outputs
      BY <1>6, <1>7, <1>8, <3>2, <3>4
    <3>6. QED BY <3>5 DEF AudioIn
  <2>6. QED BY <2>4, <2>5
<1>11. QED BY <1>7, <1>8, <1>9, <1>10

(* A change of rate that ends leaves the queue alone.                      *)
LEMMA ChangeActive ==
  ASSUME Sound, ChangeRate, Len(output_active') = 2
  PROVE  output_active # <<>> /\ output_active'[1] = output_active[2]
<1>1. bitrate_change /\ output_active' = StillActive \o Bubble
  BY Zenon DEF ChangeRate
<1>2. output_active # <<>>
  BY <1>1, EmptySeq, SMTT(30) DEF Sound, Channel
<1>3. StillActive = <<output_active[2]>> /\ SilenceBack \in Seq(Silences)
  BY <1>2, BufferBack DEF BuffersApart
<1>4. Bubble \in Seq(Silences)
  BY <1>3, UptoLemma DEF Bubble
<1>5. PICK b \in Seq(Silences), x \in {output_active[2]} : b = Bubble
  BY <1>4
<1>6. (<<x>> \o b)[1] = x
  OBVIOUS
<1>7. QED BY <1>1, <1>2, <1>3, <1>5, <1>6

LEMMA NextRateKnown == Sound /\ RateKnown /\ [Next]_vars => RateKnown'
<1> SUFFICES ASSUME Sound, RateKnown, [Next]_vars PROVE RateKnown'
  OBVIOUS
<1>1. output_queued \in Seq(Outputs) /\ (output_queued # <<>> => Head(output_queued) \in Outputs)
  BY ReceiveLemma DEF Sound, Types, TypeOK
<1>2. ASSUME UNCHANGED <<bitrate_change, new_bitrate, output_active>>,
             output_queued # <<>> =>
               /\ output_queued' # <<>> /\ Head(output_queued') = Head(output_queued)
               /\ out'[Head(output_queued)].rate = out[Head(output_queued)].rate
      PROVE  RateKnown'
  BY <1>2 DEF RateKnown, AudioIn
<1>3. CASE UNCHANGED <<output_queued, out, bitrate_change, new_bitrate, output_active>>
  BY <1>2, <1>3
<1>4. CASE QueueData \/ DataComplete \/ TaskReceive \/ ReturnInput \/ Play \/ UNCHANGED vars
  BY <1>3, <1>4 DEF QueueData, DataComplete, QueueRequest, TaskReceive, ReturnInput, Play, vars,
                    outputVars, dacVars
<1>5. ASSUME output_queued # <<>>, NEW o \in Outputs
      PROVE  Append(output_queued, o) # <<>> /\ Head(Append(output_queued, o)) = Head(output_queued)
  BY <1>1, <1>5
<1>6. open \in Outputs \cup {Nil}
  BY DEF Sound, Types, TypeOK
<1>7. CASE Flush
  BY <1>2, <1>5, <1>6, <1>7 DEF Flush, dacVars
<1>8. CASE TakeOutput
  <2>1. Head(output_idle) \in Outputs
    BY <1>8, ReceiveLemma DEF TakeOutput, Sound, Types, TypeOK
  <2>2. \A o \in Outputs : out'[o].rate = out[o].rate
    BY <1>8, <2>1 DEF TakeOutput, Sound, Types
  <2>3. QED BY <1>1, <1>2, <1>8, <2>2 DEF TakeOutput, dacVars
<1>9. CASE ProcessSamples
  <2>1. open # Nil /\ open \in Outputs /\ UNCHANGED dacVars
    BY <1>6, <1>9 DEF ProcessSamples
  <2>2. /\ output_queued' \in {output_queued, Append(output_queued, open)}
        /\ \A o \in Outputs : o # open => out'[o] = out[o]
    BY <1>9 DEF ProcessSamples, Sound, Types
  <2>3. output_queued # <<>> => Head(output_queued) # open
    BY <1>1, ReceiveLemma DEF Sound, Apart, BuffersApart
  <2>4. QED BY <1>1, <1>2, <1>5, <2>1, <2>2, <2>3 DEF dacVars
<1>10. CASE DacBufferComplete
  <2>1. CASE ChangeRate
    BY <2>1 DEF ChangeRate, RateKnown
  <2>2. CASE Refill
    <3>1. /\ bitrate_change' = RateChanges /\ out' = out
          /\ RateChanges => new_bitrate' = out[Head(output_queued)].rate
      BY <1>10, <2>2 DEF DacBufferComplete, Refill
    <3>2. CASE RateChanges
      <4>1. output_queued # <<>>
        BY <3>2 DEF RateChanges
      <4>2. AudioIn(output_active') \/ output_queued' = output_queued
        BY <2>2, <4>1, RefillActive
      <4>3. AudioIn(output_active)' <=> AudioIn(output_active')
        BY DEF AudioIn
      <4>4. QED BY <3>1, <3>2, <4>1, <4>2, <4>3 DEF RateKnown
    <3>3. CASE ~RateChanges
      BY <3>1, <3>3 DEF RateKnown
    <3>4. QED BY <3>2, <3>3
  <2>3. QED BY <1>10, <2>1, <2>2 DEF DacBufferComplete
<1>11. QED BY <1>4, <1>7, <1>8, <1>9, <1>10 DEF Next, Task

(* Where the first buffer of samples is, place by place.                   *)
LEMMA AudioAtIs ==
  ASSUME Sound
  PROVE  /\ AudioAt \in 1..5
         /\ AudioAt = 1 <=> output_active # <<>> /\ output_active[1] \in Outputs
         /\ AudioAt <= 2 <=> AudioIn(output_active)
         /\ AudioAt = 4 => bitrate_change
         /\ AudioAt = 3 => ~bitrate_change /\ ~RateChanges
         /\ AudioAt = 5 => ~bitrate_change /\ RateChanges
<1>1. output_active = <<>> \/ Len(output_active) = 2
  BY DEF Sound, Channel
<1>2. output_active = <<>> => Len(output_active) = 0
  OBVIOUS
<1>3. Len(output_active) = 2 => output_active # <<>>
  BY <1>2
<1>4. AudioIn(output_active) <=> /\ Len(output_active) = 2
                                 /\ output_active[1] \in Outputs \/ output_active[2] \in Outputs
  BY <1>1, <1>2 DEF AudioIn
<1>5. QED BY <1>1, <1>2, <1>3, <1>4 DEF AudioAt

LEMMA AudioAtNext ==
  ASSUME Sound'
  PROVE  /\ AudioAt' \in 1..5
         /\ AudioAt' = 1 <=> output_active' # <<>> /\ output_active'[1] \in Outputs
         /\ AudioAt' <= 2 <=> AudioIn(output_active')
         /\ AudioAt' = 4 => bitrate_change'
         /\ AudioAt' = 3 => ~bitrate_change' /\ ~RateChanges'
         /\ AudioAt' = 5 => ~bitrate_change' /\ RateChanges'
<1>1. output_active' = <<>> \/ Len(output_active') = 2
  BY DEF Sound, Channel
<1>2. output_active' = <<>> => Len(output_active') = 0
  OBVIOUS
<1>3. Len(output_active') = 2 => output_active' # <<>>
  BY <1>2
<1>4. AudioIn(output_active') <=> /\ Len(output_active') = 2
                                  /\ output_active'[1] \in Outputs \/ output_active'[2] \in Outputs
  BY <1>1, <1>2 DEF AudioIn
<1>5. QED BY <1>1, <1>2, <1>3, <1>4 DEF AudioAt

(* An interrupt that gives the waiting task nothing brings the next buffer *)
(* nearer.                                                                 *)
LEMMA CompleteNears ==
  ASSUME Sound, Sound', RateKnown, Outputs # {}, DacBufferComplete, TaskWaits, TaskWaits'
  PROVE  AudioAt' < AudioAt
<1>1. (Refill \/ ChangeRate) /\ output_idle' = OutputBack /\ out' = out
  BY DEF DacBufferComplete
<1>2. AudioAt # 1
  <2>1. SUFFICES ASSUME output_active # <<>>, output_active[1] \in Outputs PROVE FALSE
    BY AudioAtIs
  <2>2. output_active \in Seq(Buffers) /\ Head(output_active) = output_active[1]
    BY <2>1 DEF Sound, Types
  <2>3. OutputBack = <<>> \o <<output_active[1]>>
    BY <2>1, <2>2 DEF OutputBack, Finished, TaskWaits
  <2>4. OutputBack # <<>>
    BY <2>3
  <2>5. QED BY <1>1, <2>4 DEF TaskWaits
<1>3. output_active # <<>> =>
        output_active' # <<>> /\ output_active'[1] = output_active[2]
  <2>1. CASE Refill
    <3>1. Len(output_active') = 2
      BY <2>1, RefillActive
    <3>2. output_active' # <<>>
      BY <3>1
    <3>3. QED BY <2>1, <3>2, RefillActive
  <2>2. CASE ChangeRate
    <3>1. output_active' = StillActive \o Bubble /\ bitrate_change
      BY <2>2, Zenon DEF ChangeRate
    <3>2. output_active # <<>>
      BY <3>1, EmptySeq, SMTT(30) DEF Sound, Channel
    <3>3. Len(StillActive) = 1 /\ StillActive \in Seq(Buffers) /\ SilenceBack \in Seq(Silences)
      BY <3>2, BufferBack DEF BuffersApart
    <3>4. Bubble \in Seq(Silences)
      BY <3>3, UptoLemma DEF Bubble
    <3>5. PICK s \in Seq(Buffers), b \in Seq(Silences) : s = StillActive /\ b = Bubble
      BY <3>3, <3>4
    <3>6. s \o b # <<>>
      BY <3>3, <3>5
    <3>7. Len(output_active') = 2
      BY <3>1, <3>5, <3>6 DEF Sound, Channel
    <3>8. QED BY <2>2, <3>1, <3>5, <3>6, <3>7, ChangeActive
  <2>3. QED BY <1>1, <2>1, <2>2
<1>4. CASE AudioAt = 2
  <2>1. output_active # <<>> /\ output_active[2] \in Outputs
    BY <1>4 DEF AudioAt
  <2>2. AudioAt' = 1
    BY <1>3, <2>1, AudioAtNext
  <2>3. QED BY <1>4, <2>2
<1>5. CASE AudioAt \notin {1, 2}
  <2>1. ~AudioIn(output_active)
    BY <1>5, AudioAtIs
  <2>2. output_queued # <<>>
    <3>1. PICK o \in Outputs : TRUE
      OBVIOUS
    <3>2. o \notin ToSet(output_active)
      <4>1. output_active = <<>> \/ (Len(output_active) = 2 /\ output_active[1] \notin Outputs
                                                            /\ output_active[2] \notin Outputs)
        BY <2>1 DEF AudioIn, Sound, Channel
      <4>2. DOMAIN output_active = 1..Len(output_active)
        BY DEF Sound, Types
      <4>3. QED BY <4>1, <4>2 DEF ToSet
    <3>3. o \in ToSet(output_queued)
      BY <3>2, BufferAssumption DEF Sound, Apart, BuffersApart, TaskWaits, ToSet
    <3>4. QED BY <3>3 DEF ToSet
  <2>3. CASE AudioAt = 3
    <3>1. ~bitrate_change /\ ~RateChanges
      BY <2>3, AudioAtIs
    <3>2. AudioIn(output_active')
      BY <1>1, <2>2, <3>1, RefillActive DEF ChangeRate
    <3>3. QED BY <2>3, <3>2, AudioAtNext
  <2>4. CASE AudioAt = 4
    <3>1. bitrate_change
      BY <2>4, AudioAtIs
    <3>2. /\ bitrate' = new_bitrate /\ bitrate_change' = FALSE /\ output_queued' = output_queued
      BY <1>1, <3>1 DEF Refill, ChangeRate
    <3>3. out[Head(output_queued)].rate = new_bitrate
      BY <2>1, <3>1 DEF RateKnown
    <3>4. ~RateChanges'
      BY <1>1, <3>2, <3>3 DEF RateChanges
    <3>5. AudioAt' \notin {4, 5}
      BY <3>2, <3>4, AudioAtNext
    <3>6. QED BY <2>4, <3>5, AudioAtNext
  <2>5. CASE AudioAt = 5
    <3>1. ~bitrate_change /\ RateChanges
      BY <2>5, AudioAtIs
    <3>2. bitrate_change' = TRUE
      BY <1>1, <3>1 DEF Refill, ChangeRate
    <3>3. AudioAt' # 5
      BY <3>2, AudioAtNext
    <3>4. QED BY <2>5, <3>3, AudioAtNext
  <2>6. QED BY <1>5, <2>3, <2>4, <2>5, AudioAtIs
<1>6. QED BY <1>2, <1>4, <1>5

(* A task that waits for a buffer gets one: every end of a buffer in the   *)
(* DMA channel and every interrupt brings it nearer, silences and changes  *)
(* of rate between them included, and no request puts it off.              *)
THEOREM BuffersComeBack ==
  ASSUME Outputs # {}
  PROVE  Spec => [][TaskWaits /\ TaskWaits' =>
                      /\ DacAhead' \in Nat
                      /\ IF Play \/ DacBufferComplete THEN DacAhead' < DacAhead
                         ELSE DacAhead' = DacAhead]_vars
<1>1. ASSUME Sound, Sound', RateKnown, Next, TaskWaits, TaskWaits'
      PROVE  /\ DacAhead' \in Nat
             /\ IF Play \/ DacBufferComplete THEN DacAhead' < DacAhead
                ELSE DacAhead' = DacAhead
  <2>1. PICK a \in 1..5, b \in 1..5 : a = AudioAt /\ b = AudioAt'
    BY <1>1, AudioAtIs, AudioAtNext
  <2>2. PICK d \in Nat, e \in Nat : d = Len(dma) /\ e = Len(dma') /\ d <= 2 /\ e <= 2
    <3>1. Len(dma) \in Nat /\ Len(dma') \in Nat /\ Len(dma) <= 2 /\ Len(dma') <= 2
      BY <1>1 DEF Sound, Types, Channel
    <3>2. QED BY <3>1, Zenon
  <2>3. DacAhead = 3 * a + d /\ DacAhead' = 3 * b + e
    BY <2>1, <2>2 DEF DacAhead
  <2>4. CASE DacBufferComplete
    <3>1. b < a
      BY <1>1, <2>1, <2>4, CompleteNears
    <3>2. QED BY <2>2, <2>3, <2>4, <3>1
  <2>5. CASE Play
    <3>1. dma # <<>> /\ dma' = Tail(dma) /\ UNCHANGED <<outputVars, dacVars>>
      BY <2>5 DEF Play
    <3>2. e = d - 1
      BY <1>1, <2>2, <3>1 DEF Sound, Types
    <3>3. a = b
      BY <2>1, <3>1 DEF AudioAt, RateChanges, outputVars, dacVars
    <3>4. QED BY <2>2, <2>3, <2>5, <3>2, <3>3
  <2>6. CASE ~Play /\ ~DacBufferComplete
    <3>1. QueueData \/ DataComplete
      <4>1. ~TaskReceive /\ ~Flush /\ ~TakeOutput /\ ~ProcessSamples /\ ~ReturnInput
        BY <1>1 DEF TaskWaits, TaskReceive, Flush, TakeOutput, ProcessSamples, ReturnInput
      <4>2. QED BY <1>1, <2>6, <4>1 DEF Next, Task
    <3>2. UNCHANGED <<outputVars, dacVars, dma>>
      BY <3>1 DEF QueueData, DataComplete, QueueRequest
    <3>3. a = b /\ d = e
      BY <2>1, <2>2, <3>2 DEF AudioAt, RateChanges, outputVars, dacVars
    <3>4. QED BY <2>3, <2>6, <3>3
  <2>7. QED BY <2>4, <2>5, <2>6
<1>2. Init => RateKnown
  BY DEF Init, RateKnown
<1>3. Sound /\ Sound' /\ RateKnown /\ [Next]_vars =>
        [TaskWaits /\ TaskWaits' =>
           /\ DacAhead' \in Nat
           /\ IF Play \/ DacBufferComplete THEN DacAhead' < DacAhead
              ELSE DacAhead' = DacAhead]_vars
  BY <1>1
<1>4. QED BY <1>2, <1>3, InitSound, NextSound, NextRateKnown, PTL DEF Spec

-----------------------------------------------------------------------------
(* At one rate.                                                            *)

(* At one rate there is no change of rate.                                 *)
LEMMA OneRate == Sound /\ Rates = {FirstRate} => ~RateChanges
<1> SUFFICES ASSUME Sound, Rates = {FirstRate}, output_queued # <<>>
             PROVE  out[Head(output_queued)].rate = bitrate
  BY DEF RateChanges
<1>1. Head(output_queued) \in Outputs
  BY ReceiveLemma DEF Sound, Types, TypeOK
<1>2. QED BY <1>1 DEF Sound, Types, TypeOK

(* The buffers that the interrupt gives to the DAC are those that it puts  *)
(* in __output_active.                                                     *)
LEMMA RefillFollows ==
  ASSUME Rates = {FirstRate}, Sound, Follows, Refill, Len(dma) < 2
  PROVE  Follows'
<1>assoc. \A p, q, r \in Seq(Buffers) : (p \o q) \o r = p \o (q \o r)
  BY AssociativeLemma, SMTT(30)
<1>second. \A p, q \in Seq(Buffers) : Len(p) = 1 /\ Len(q) = 1 => (p \o q)[2] = q[1]
  BY SMTT(30)
<1>single. \A q \in Seq(Buffers) : Len(q) = 1 => q[1] \in Buffers /\ q = <<q[1]>>
  <2>1. \A q \in Seq(Buffers) : Len(q) = 1 => q[1] \in Buffers
    OBVIOUS
  <2>2. \A q \in Seq(Buffers) : Len(q) = 1 => q = <<q[1]>>
    OBVIOUS
  <2>3. QED BY <2>1, <2>2
<1>two. Len(dma) # 2
  <2>1. Len(dma) \in Nat
    BY DEF Sound, Types
  <2>2. QED BY <2>1
<1>1. PICK s \in Seq(Buffers), a \in Seq(Buffers), z \in Seq(Buffers), d \in Seq(Buffers) :
        s = StillActive /\ a = NextAudio /\ z = NextSilence /\ d = dma
  <2>1. NextAudio \in Seq(Outputs) /\ NextSilence \in Seq(Silences)
    BY RefillSizes DEF Refill
  <2>2. NextAudio \in Seq(Buffers) /\ NextSilence \in Seq(Buffers)
    BY <2>1 DEF Buffers
  <2>3. StillActive \in Seq(Buffers)
    BY BufferBack DEF BuffersApart
  <2>4. QED BY <2>2, <2>3 DEF Sound, Types
<1>2. ~RateChanges
  BY OneRate
<1>3. output_active' = s \o a \o z /\ dma' = d \o a \o z /\ ~bitrate_change'
  <2>1. /\ output_active' = StillActive \o <<>> \o NextAudio \o NextSilence
        /\ dma' = dma \o NextAudio \o NextSilence /\ bitrate_change' = RateChanges
    BY <1>2 DEF Refill
  <2>2. s \o <<>> = s
    BY ConcatEmptySeq
  <2>3. QED BY <1>1, <1>2, <2>1, <2>2
<1>4. Len(s) + Len(a) + Len(z) = 2
  <2>1. ~bitrate_change
    BY DEF Refill
  <2>2. Len(a) + Len(z) = Room /\ Room = 2 - Len(s) - 0 /\ Len(s) \in {0, 1}
    <3>1. /\ Len(a) + Len(z) = Room /\ Len(s) \in {0, 1}
          /\ Room = 2 - Len(s) - Len(IF RateChanges THEN Bubble ELSE <<>>)
          /\ Len(IF RateChanges THEN Bubble ELSE <<>>) = IF RateChanges THEN 1 ELSE 0
      BY <1>1, <2>1, RefillSizes
    <3>2. QED BY <1>2, <3>1, Zenon
  <2>3. Len(s) \in Nat /\ Len(a) \in Nat /\ Len(z) \in Nat
    OBVIOUS
  <2>4. QED BY <2>2, <2>3
<1>5. s \o a \o z = s \o (a \o z) /\ d \o a \o z = d \o (a \o z)
  BY <1>assoc, ZenonT(30)
<1>6. PICK f \in Seq(Buffers) : f = a \o z
  <2>1. a \o z \in Seq(Buffers)
    BY ConcatProperties
  <2>2. QED BY <2>1
<1>7. output_active' = s \o f /\ dma' = d \o f /\ Len(s) + Len(f) = 2
  BY <1>3, <1>4, <1>5, <1>6
<1>8. CASE output_active = <<>>
  <2>1. s = <<>> /\ d = <<>>
    BY <1>1, <1>8, BufferBack DEF Sound, Channel
  <2>2. output_active' = dma'
    BY <1>7, <2>1
  <2>3. QED BY <1>3, <2>2 DEF Follows
<1>9. CASE output_active # <<>>
  <2>1. s = <<output_active[2]>> /\ Len(s) = 1
    BY <1>1, <1>9, BufferBack
  <2>2. Len(f) = 1
    BY <1>7, <2>1
  <2>3. f = <<f[1]>> /\ output_active'[2] = f[1]
    BY <1>second, <1>single, <1>7, <2>1, <2>2
  <2>4. CASE d = <<>>
    <3>1. dma' = f
      BY <1>7, <2>4
    <3>2. QED BY <1>3, <2>3, <3>1, Zenon DEF Follows
  <2>5. CASE d = <<output_active[2]>>
    <3>1. dma' = output_active'
      BY <1>7, <2>1, <2>5
    <3>2. QED BY <1>3, <3>1 DEF Follows
  <2>6. d # output_active
    <3>1. Len(output_active) = 2
      BY <1>9 DEF Sound, Channel
    <3>2. QED BY <1>1, <1>two, <3>1, Zenon
  <2>7. QED BY <1>1, <2>4, <2>5, <2>6 DEF Follows
<1>10. QED BY <1>8, <1>9

(* At one rate, every step keeps the channel on the end of                 *)
(* __output_active.                                                        *)
LEMMA FollowsStep ==
  ASSUME Rates = {FirstRate}
  PROVE  Sound /\ Follows /\ [Next]_vars => Follows'
<1> SUFFICES ASSUME Sound, Follows, [Next]_vars PROVE Follows'
  OBVIOUS
<1> USE DEF inputVars, outputVars, dacVars, taskVars
<1>1. CASE QueueData \/ DataComplete
  <2>1. UNCHANGED <<dma, output_active, bitrate_change>>
    BY <1>1, Zenon DEF QueueData, DataComplete, QueueRequest
  <2>2. QED BY <2>1 DEF Follows
<1>2. CASE Task
  <2>1. UNCHANGED <<dma, output_active, bitrate_change>>
    BY <1>2, Zenon DEF Task, TaskReceive, Flush, TakeOutput, ProcessSamples, ReturnInput
  <2>2. QED BY <2>1 DEF Follows
<1>3. CASE Play
  <2>1. dma # <<>> /\ dma' = Tail(dma) /\ UNCHANGED <<output_active, bitrate_change>>
    BY <1>3 DEF Play
  <2>2. output_active \in Seq(Buffers) /\ Len(output_active) = 2
    BY <2>1 DEF Sound, Types, Channel
  <2>3. PICK x \in Buffers, y \in Buffers : output_active = <<x, y>>
    BY <2>2
  <2>4. Tail(<<x, y>>) = <<y>> /\ Tail(<<y>>) = <<>> /\ <<x, y>>[2] = y
    OBVIOUS
  <2>5. QED BY <2>1, <2>3, <2>4 DEF Follows
<1>4. CASE DacBufferComplete
  <2>1. Refill
    BY <1>4 DEF DacBufferComplete, ChangeRate, Follows
  <2>2. QED BY <1>4, <2>1, RefillFollows DEF DacBufferComplete
<1>5. CASE UNCHANGED vars
  BY <1>5 DEF vars, Follows
<1>6. QED BY <1>1, <1>2, <1>3, <1>4, <1>5 DEF Next

(* At one rate the channel plays nothing that has been given back.         *)
LEMMA FollowsKept == Sound /\ Follows => PlayingKept
<1> SUFFICES ASSUME Sound, Follows PROVE PlayingKept
  OBVIOUS
<1>1. CASE dma = <<>> \/ dma = output_active
  BY <1>1 DEF PlayingKept, ToSet
<1>2. CASE dma # <<>> /\ dma = <<output_active[2]>>
  <2>1. output_active \in Seq(Buffers) /\ Len(output_active) = 2
    BY <1>2 DEF Sound, Types, Channel
  <2>2. output_active[2] \in ToSet(output_active)
    BY <2>1 DEF ToSet
  <2>3. ToSet(dma) = {output_active[2]}
    BY <1>2 DEF ToSet
  <2>4. QED BY <2>2, <2>3 DEF PlayingKept
<1>3. QED BY <1>1, <1>2 DEF Follows

(* At one rate, what the DMA channel still plays is not idle, where the    *)
(* task takes a buffer to fill it again (dsp.c, __dac_buffer_complete).    *)
THEOREM PlayingBuffersKept == Rates = {FirstRate} => (Spec => []PlayingKept)
<1> SUFFICES ASSUME Rates = {FirstRate} PROVE Spec => []PlayingKept
  OBVIOUS
<1>1. Init => Sound /\ Follows
  BY InitSound DEF Init, Follows
<1>2. Sound /\ Follows /\ [Next]_vars => (Sound /\ Follows)'
  BY NextSound, FollowsStep
<1>3. Sound /\ Follows => PlayingKept
  BY FollowsKept
<1>4. QED BY <1>1, <1>2, <1>3, PTL DEF Spec

-----------------------------------------------------------------------------
(* The order of the samples.                                               *)

InOrder(u, p, m) == u = Samples(p, Len(u)) /\ (p + Len(u)) % TagMod = m

(* As many samples as asked for.                                           *)
LEMMA SamplesLen == \A f, n \in Nat : Samples(f, n) \in Seq(Nat) /\ Len(Samples(f, n)) = n
<1> SUFFICES ASSUME NEW f \in Nat, NEW n \in Nat
             PROVE  Samples(f, n) \in Seq(Nat) /\ Len(Samples(f, n)) = n
  OBVIOUS
<1>1. QED BY SamplesType

(* New samples continue those on their way.                                *)
LEMMA OrderQueued ==
  ASSUME NEW u \in Seq(Nat), NEW p \in Nat, NEW n \in Nat, NEW m, InOrder(u, p, m)
  PROVE  InOrder(u \o Samples(m, n), p, (m + n) % TagMod)
<1>1. PICK N \in Nat : N = Len(u)
  OBVIOUS
<1>2. u = Samples(p, N) /\ m = (p + N) % TagMod
  BY <1>1 DEF InOrder
<1>3. Samples(m, n) = Samples(p + N, n)
  <2>1. p + N \in Nat
    OBVIOUS
  <2>2. QED BY <1>2, <2>1, SamplesMod
<1>4. u \o Samples(m, n) = Samples(p, N + n)
  BY <1>2, <1>3, SamplesSplit, ZenonT(30)
<1>5. Len(u \o Samples(m, n)) = N + n
  <2>1. N + n \in Nat /\ N + n >= 0
    OBVIOUS
  <2>2. Len(Samples(p, N + n)) = N + n
    BY <2>1, SamplesType
  <2>3. QED BY <1>4, <2>2
<1>6. (m + n) % TagMod = (p + (N + n)) % TagMod
  <2>1. p + N \in Nat /\ (p + N) + n = p + (N + n)
    OBVIOUS
  <2>2. (((p + N) % TagMod) + n) % TagMod = ((p + N) + n) % TagMod
    BY <2>1, SizeAssumption, ModAdd
  <2>3. QED BY <1>2, <2>1, <2>2, Zenon
<1>7. QED BY <1>4, <1>5, <1>6, Zenon DEF InOrder

(* A buffer has been played: the others continue its last sample.          *)
LEMMA OrderPlayed ==
  ASSUME NEW d \in Seq(Nat), NEW u \in Seq(Nat), NEW p \in Nat, NEW m,
         d # <<>>, InOrder(d \o u, p, m)
  PROVE  InOrder(u, Last(d), m)
<1>0. \A x, y, v, w \in Seq(Nat) :
        x \o v = y \o w /\ Len(x) = Len(y) /\ Len(v) = Len(w) => x = y /\ v = w
  BY CancelLemma
<1>1. PICK D \in Nat, N \in Nat : D = Len(d) /\ N = Len(u)
  OBVIOUS
<1>2. D >= 1
  <2>1. D # 0
    BY <1>1, EmptySeq
  <2>2. QED BY <2>1
<1>3. Len(d \o u) = D + N
  BY <1>1, ConcatProperties
<1>4. d \o u = Samples(p, D + N) /\ (p + (D + N)) % TagMod = m
  BY <1>3 DEF InOrder
<1>5. PICK a \in Seq(Nat), b \in Seq(Nat) :
        a = Samples(p, D) /\ b = Samples(p + D, N) /\ Len(a) = D /\ Len(b) = N
  <2>1. p + D \in Nat
    OBVIOUS
  <2>2. QED BY <2>1, SamplesLen, ZenonT(30)
<1>6. d \o u = a \o b
  BY <1>4, <1>5, SamplesSplit
<1>7. d = a /\ u = b
  <2>1. Len(d) = Len(a) /\ Len(u) = Len(b)
    BY <1>1, <1>5
  <2>2. QED BY <1>0, <1>6, <2>1
<1>8. Last(d) = (p + D) % TagMod
  <2>1. d[D] = (p + D) % TagMod
    <3>1. D \in 1 .. D
      BY <1>2
    <3>2. Samples(p, D)[D] = (p + D) % TagMod
      BY <3>1, SamplesType
    <3>3. QED BY <1>5, <1>7, <3>2
  <2>2. QED BY <1>1, <2>1 DEF Last
<1>9. u = Samples(Last(d), N)
  <2>1. p + D \in Nat
    OBVIOUS
  <2>2. QED BY <1>5, <1>7, <1>8, <2>1, SamplesMod
<1>10. (Last(d) + N) % TagMod = m
  <2>1. p + D \in Nat /\ (p + D) + N = p + (D + N)
    OBVIOUS
  <2>2. (((p + D) % TagMod) + N) % TagMod = ((p + D) + N) % TagMod
    BY <2>1, SizeAssumption, ModAdd
  <2>3. QED BY <1>4, <1>8, <2>1, <2>2, Zenon
<1>11. QED BY <1>1, <1>9, <1>10, Zenon DEF InOrder

(* What is on its way: in the DMA channel, queued for it, in the buffer    *)
(* that is filled, in the request that is done, and in those queued.       *)
Data == [o \in Buffers |-> IF o \in Outputs THEN out[o].data ELSE <<>>]
Wanted == [m \in Inputs |-> Samples(in[m].first, in[m].count)]
Playing == Joined(dma, Data)
Waiting == Joined(output_queued, Data)
Filling == IF open = Nil THEN <<>> ELSE out[open].data
Doing == IF cur = Nil THEN <<>> ELSE Samples(in[cur].first + offset, in[cur].count - offset)
Coming == Joined(input_queued, Wanted)

(* The parts are sequences of samples ...                                  *)
LEMMA PartTypes ==
  Sound => /\ Data \in [Buffers -> Seq(Nat)] /\ Wanted \in [Inputs -> Seq(Nat)]
           /\ dma \in Seq(Buffers) /\ output_queued \in Seq(Buffers)
           /\ input_queued \in Seq(Inputs)
           /\ Playing \in Seq(Nat) /\ Waiting \in Seq(Nat) /\ Filling \in Seq(Nat)
           /\ Doing \in Seq(Nat) /\ Coming \in Seq(Nat)
<1> SUFFICES ASSUME Sound
             PROVE  /\ Data \in [Buffers -> Seq(Nat)] /\ Wanted \in [Inputs -> Seq(Nat)]
                    /\ dma \in Seq(Buffers) /\ output_queued \in Seq(Buffers)
                    /\ input_queued \in Seq(Inputs)
                    /\ Playing \in Seq(Nat) /\ Waiting \in Seq(Nat) /\ Filling \in Seq(Nat)
                    /\ Doing \in Seq(Nat) /\ Coming \in Seq(Nat)
  OBVIOUS
<1>1. Data \in [Buffers -> Seq(Nat)]
  <2>1. \A o \in Buffers : (IF o \in Outputs THEN out[o].data ELSE <<>>) \in Seq(Nat)
    BY DEF Sound, Types
  <2>2. QED BY <2>1 DEF Data
<1>2. Wanted \in [Inputs -> Seq(Nat)]
  <2>1. ASSUME NEW m \in Inputs PROVE Samples(in[m].first, in[m].count) \in Seq(Nat)
    <3>1. in[m].first \in Nat /\ in[m].count \in Nat
      BY DEF Sound, Types
    <3>2. QED BY <3>1, SamplesLen
  <2>2. QED BY <2>1 DEF Wanted
<1>3. dma \in Seq(Buffers) /\ output_queued \in Seq(Buffers) /\ input_queued \in Seq(Inputs)
  <2>1. output_queued \in Seq(Outputs)
    BY DEF Sound, Types, TypeOK
  <2>2. output_queued \in Seq(Buffers)
    BY <2>1 DEF Buffers
  <2>3. QED BY <2>2 DEF Sound, Types, TypeOK
<1>4. Playing \in Seq(Nat) /\ Waiting \in Seq(Nat)
  <2>1. \A q \in Seq(Buffers) : Joined(q, Data) \in Seq(Nat)
    BY <1>1, JoinedLemma
  <2>2. QED BY <1>3, <2>1 DEF Playing, Waiting
<1>5. Coming \in Seq(Nat)
  <2>1. \A q \in Seq(Inputs) : Joined(q, Wanted) \in Seq(Nat)
    BY <1>2, JoinedLemma
  <2>2. QED BY <1>3, <2>1 DEF Coming
<1>6. Filling \in Seq(Nat)
  BY DEF Sound, Types, TypeOK, Filling
<1>7. Doing \in Seq(Nat)
  <2>1. CASE cur = Nil
    BY <2>1 DEF Doing
  <2>2. CASE cur # Nil
    <3>1. in[cur].first + offset \in Nat /\ in[cur].count - offset \in Int
      <4>1. cur \in Inputs /\ offset \in Nat
        BY <2>2 DEF Sound, Types, TypeOK
      <4>2. in[cur].first \in Nat /\ in[cur].count \in Nat
        BY <4>1 DEF Sound, Types
      <4>3. QED BY <4>1, <4>2
    <3>2. QED BY <2>2, <3>1, SamplesType DEF Doing
  <2>3. QED BY <2>1, <2>2
<1>8. QED BY <1>1, <1>2, <1>3, <1>4, <1>5, <1>6, <1>7

(* ... and make up what is on its way.                                     *)
LEMMA UnderwayParts ==
  Sound => Underway = Playing \o Waiting \o Filling \o Doing \o Coming
<1> SUFFICES ASSUME Sound PROVE Underway = Playing \o Waiting \o Filling \o Doing \o Coming
  OBVIOUS
<1>0. /\ Data \in [Buffers -> Seq(Nat)] /\ dma \in Seq(Buffers) /\ output_queued \in Seq(Buffers)
      /\ input_queued \in Seq(Inputs)
  BY PartTypes
<1>1. ASSUME NEW q \in Seq(Buffers) PROVE Audio(q) = Joined(q, Data)
  <2>1. \A k \in DOMAIN q :
          (IF q[k] \in Outputs THEN out[q[k]].data ELSE <<>>) = Data[q[k]]
    BY DEF Data
  <2>2. [k \in DOMAIN q |-> IF q[k] \in Outputs THEN out[q[k]].data ELSE <<>>] = Carried(q, Data)
    BY <2>1 DEF Carried
  <2>3. QED BY <2>2 DEF Audio, Joined
<1>2. ASSUME NEW q \in Seq(Inputs) PROVE Requested(q) = Joined(q, Wanted)
  <2>1. \A k \in DOMAIN q : Samples(in[q[k]].first, in[q[k]].count) = Wanted[q[k]]
    BY DEF Wanted
  <2>2. [k \in DOMAIN q |-> Samples(in[q[k]].first, in[q[k]].count)] = Carried(q, Wanted)
    BY <2>1 DEF Carried
  <2>3. QED BY <2>2 DEF Requested, Joined
<1>3. Audio(dma \o output_queued) = Playing \o Waiting
  <2>1. dma \o output_queued \in Seq(Buffers)
    BY <1>0, ConcatProperties
  <2>2. Joined(dma \o output_queued, Data) = Joined(dma, Data) \o Joined(output_queued, Data)
    BY <1>0, JoinedConcat
  <2>3. QED BY <1>1, <2>1, <2>2 DEF Playing, Waiting
<1>4. Requested(input_queued) = Coming
  BY <1>0, <1>2 DEF Coming
<1>5. QED BY <1>3, <1>4 DEF Underway, Filling, Doing

(* One part behind another, and the parts one behind the other.            *)
Then(p, q) == p \o q
Line(a, b, c, d, e) == Then(Then(Then(Then(a, b), c), d), e)

(* How the parts join.                                                     *)
LEMMA ThenLemma ==
  /\ \A p, q, r \in Seq(Nat) : Then(Then(p, q), r) = Then(p, Then(q, r))
  /\ \A p \in Seq(Nat) : Then(p, <<>>) = p
  /\ \A p, q \in Seq(Nat) : Then(p, q) \in Seq(Nat)
<1>1. \A p, q, r \in Seq(Nat) : (p \o q) \o r = p \o (q \o r)
  BY AssociativeLemma, SMTT(30)
<1>2. \A p, q, r \in Seq(Nat) : Then(Then(p, q), r) = Then(p, Then(q, r))
  BY <1>1, Zenon DEF Then
<1>3. \A p \in Seq(Nat) : Then(p, <<>>) = p
  BY ConcatEmptySeq DEF Then
<1>4. \A p, q \in Seq(Nat) : Then(p, q) \in Seq(Nat)
  BY ConcatProperties DEF Then
<1>5. QED BY <1>2, <1>3, <1>4

(* The steps only move the bounds between the parts: a request is taken,   *)
LEMMA LineTaken ==
  \A a, b, c, x, e \in Seq(Nat) : Line(a, b, c, <<>>, Then(x, e)) = Line(a, b, c, x, e)
<1> TAKE a, b, c, x, e \in Seq(Nat)
<1>1. Then(Then(a, b), c) \in Seq(Nat)
  BY ThenLemma
<1>2. QED BY <1>1, ThenLemma DEF Line

(* ... a buffer is queued as it is,                                        *)
LEMMA LineFlushed ==
  \A a, b, c, d, e \in Seq(Nat) : Line(a, Then(b, c), <<>>, d, e) = Line(a, b, c, d, e)
<1> TAKE a, b, c, d, e \in Seq(Nat)
<1>1. Then(Then(a, Then(b, c)), <<>>) = Then(Then(a, b), c)
  BY ThenLemma
<1>2. QED BY <1>1 DEF Line

(* ... samples go from the request to the buffer,                          *)
LEMMA LineFilled ==
  \A a, b, c, x, d, e \in Seq(Nat) : Line(a, b, Then(c, x), d, e) = Line(a, b, c, Then(x, d), e)
<1> TAKE a, b, c, x, d, e \in Seq(Nat)
<1>1. Then(Then(Then(a, b), Then(c, x)), d) = Then(Then(Then(a, b), c), Then(x, d))
  BY ThenLemma, SMTT(30)
<1>2. QED BY <1>1 DEF Line

(* ... and the buffer is queued when they have filled it,                  *)
LEMMA LineFull ==
  \A a, b, c, x, d, e \in Seq(Nat) :
     Line(a, Then(b, Then(c, x)), <<>>, d, e) = Line(a, b, c, Then(x, d), e)
<1> TAKE a, b, c, x, d, e \in Seq(Nat)
<1>1. Then(c, x) \in Seq(Nat)
  BY ThenLemma
<1>2. Line(a, Then(b, Then(c, x)), <<>>, d, e) = Line(a, b, Then(c, x), d, e)
  BY <1>1, LineFlushed
<1>3. QED BY <1>2, LineFilled

(* ... a buffer has been played,                                           *)
LEMMA LinePlayed ==
  \A a, b, c, d, e, x \in Seq(Nat) : Line(Then(x, a), b, c, d, e) = Then(x, Line(a, b, c, d, e))
<1> TAKE a, b, c, d, e, x \in Seq(Nat)
<1>1. Then(Then(x, a), b) = Then(x, Then(a, b)) /\ Then(a, b) \in Seq(Nat)
  BY ThenLemma
<1>2. /\ Then(Then(x, Then(a, b)), c) = Then(x, Then(Then(a, b), c))
      /\ Then(Then(a, b), c) \in Seq(Nat)
  BY <1>1, ThenLemma
<1>3. /\ Then(Then(x, Then(Then(a, b), c)), d) = Then(x, Then(Then(Then(a, b), c), d))
      /\ Then(Then(Then(a, b), c), d) \in Seq(Nat)
  BY <1>2, ThenLemma
<1>4. QED BY <1>1, <1>2, <1>3, ThenLemma DEF Line

(* ... a request is queued.                                                *)
LEMMA LineQueued ==
  \A a, b, c, d, e, x \in Seq(Nat) : Line(a, b, c, d, Then(e, x)) = Then(Line(a, b, c, d, e), x)
<1> TAKE a, b, c, d, e, x \in Seq(Nat)
<1>1. Then(Then(Then(a, b), c), d) \in Seq(Nat)
  BY ThenLemma
<1>2. QED BY <1>1, ThenLemma DEF Line

(* The parts in the state of a step and in the next.                       *)
Parts ==
  /\ Data \in [Buffers -> Seq(Nat)] /\ Wanted \in [Inputs -> Seq(Nat)]
  /\ dma \in Seq(Buffers) /\ output_queued \in Seq(Buffers) /\ input_queued \in Seq(Inputs)
  /\ Playing \in Seq(Nat) /\ Waiting \in Seq(Nat) /\ Filling \in Seq(Nat)
  /\ Doing \in Seq(Nat) /\ Coming \in Seq(Nat)
  /\ Underway = Line(Playing, Waiting, Filling, Doing, Coming)

(* The parts are as they should be in every state ...                      *)
LEMMA PartsLemma == Sound => Parts
BY PartTypes, UnderwayParts DEF Parts, Line, Then

(* ... and in the one after a step.                                        *)
LEMMA PartsNext == Sound' => Parts'
BY PartsLemma, PTL

(* The samples of requests in a queue.                                     *)
LEMMA RequestsJoined ==
  \A f \in [Inputs -> Seq(Nat)], q \in Seq(Inputs) :
     /\ \A m \in Inputs : Joined(Append(q, m), f) = Joined(q, f) \o f[m]
     /\ q # <<>> => Joined(q, f) = f[Head(q)] \o Joined(Tail(q), f)
     /\ \A g : (\A x \in ToSet(q) : g[x] = f[x]) => Joined(q, g) = Joined(q, f)
<1> TAKE f \in [Inputs -> Seq(Nat)]
<1>1. Joins(Inputs, Nat, f)
  BY JoinsLemma
<1>2. QED BY <1>1, Zenon DEF Joins

(* The samples of buffers in a queue.                                      *)
LEMMA BuffersJoined ==
  \A f \in [Buffers -> Seq(Nat)], q \in Seq(Buffers) :
     /\ \A o \in Buffers : Joined(Append(q, o), f) = Joined(q, f) \o f[o]
     /\ q # <<>> => Joined(q, f) = f[Head(q)] \o Joined(Tail(q), f)
     /\ \A g : (\A x \in ToSet(q) : g[x] = f[x]) => Joined(q, g) = Joined(q, f)
<1> TAKE f \in [Buffers -> Seq(Nat)]
<1>1. Joins(Buffers, Nat, f)
  BY JoinsLemma
<1>2. QED BY <1>1, Zenon DEF Joins

(* A request that is queued adds its samples at the end.                   *)
LEMMA QueueAudio ==
  ASSUME Sound, NEW n \in Nat, NEW r \in Rates, QueueRequest(n, r)
  PROVE  Underway' = Then(Underway, Samples(made, n))
<1>0. Sound'
  BY QueueRequestSound
<1> DEFINE m == Head(input_idle)
<1>1. /\ in' = [in EXCEPT ![m] = [count |-> n, rate |-> r, first |-> made]]
      /\ input_queued' = Append(input_queued, m)
      /\ UNCHANGED <<output_queued, out, cur, offset, open, dma>>
  BY DEF QueueRequest, outputVars, taskVars
<1>2. m \in Inputs /\ m \notin ToSet(input_queued) /\ m # cur
  BY QueueRequestSound
<1> HIDE DEF m
<1>3. in'[m].first = made /\ in'[m].count = n /\ \A x \in Inputs : x # m => in'[x] = in[x]
  BY <1>1, <1>2 DEF Sound, Types
<1>4. Playing' = Playing /\ Waiting' = Waiting /\ Filling' = Filling
  BY <1>1 DEF Playing, Waiting, Filling, Data
<1>5. Doing' = Doing
  <2>1. cur # Nil => in'[cur] = in[cur]
    BY <1>2, <1>3 DEF Sound, Types, TypeOK
  <2>2. QED BY <1>1, <2>1 DEF Doing
<1>6. Coming' = Coming \o Samples(made, n)
  <2>0. Wanted' \in [Inputs -> Seq(Nat)]
    BY <1>0, PartsNext DEF Parts
  <2>1. \A q \in Seq(Inputs) :
          /\ \A e \in Inputs : Joined(Append(q, e), Wanted') = Joined(q, Wanted') \o Wanted'[e]
          /\ \A g : (\A x \in ToSet(q) : g[x] = Wanted'[x]) => Joined(q, g) = Joined(q, Wanted')
    BY <2>0, RequestsJoined
  <2>2. input_queued \in Seq(Inputs)
    BY PartTypes
  <2>3. \A x \in ToSet(input_queued) : Wanted[x] = Wanted'[x]
    <3>1. \A x \in ToSet(input_queued) : x \in Inputs /\ x # m
      BY <1>2, <2>2 DEF ToSet
    <3>2. QED BY <1>3, <3>1 DEF Wanted
  <2>4. Wanted'[m] = Samples(made, n)
    BY <1>2, <1>3 DEF Wanted
  <2>5. Joined(input_queued, Wanted) = Joined(input_queued, Wanted')
    BY <2>1, <2>2, <2>3
  <2>6. Joined(input_queued', Wanted') = Joined(input_queued, Wanted') \o Wanted'[m]
    BY <1>1, <1>2, <2>1, <2>2
  <2>7. QED BY <2>4, <2>5, <2>6 DEF Coming
<1>7. Samples(made, n) \in Seq(Nat)
  BY SamplesLen DEF Sound, Types
<1>8. /\ Underway = Line(Playing, Waiting, Filling, Doing, Coming)
      /\ Playing \in Seq(Nat) /\ Waiting \in Seq(Nat) /\ Filling \in Seq(Nat)
      /\ Doing \in Seq(Nat) /\ Coming \in Seq(Nat)
      /\ Underway' = Line(Playing, Waiting, Filling, Doing, Then(Coming, Samples(made, n)))
  BY <1>0, <1>4, <1>5, <1>6, PartsLemma, PartsNext DEF Parts, Then
<1>9. QED BY <1>7, <1>8, LineQueued

(* A request taken goes on where it was.                                   *)
LEMMA ReceiveAudio == Sound /\ TaskReceive => Underway' = Underway
<1> SUFFICES ASSUME Sound, TaskReceive PROVE Underway' = Underway
  OBVIOUS
<1>0. Sound'
  BY TaskReceiveSound
<1> DEFINE m == Head(input_queued)
<1>1. /\ pc = "wait" /\ input_queued # <<>> /\ cur' = m /\ input_queued' = Tail(input_queued)
      /\ offset' = 0 /\ UNCHANGED <<in, output_queued, out, open, dma>>
  BY DEF TaskReceive, outputVars
<1>2. m \in Inputs /\ m # Nil /\ cur = Nil
  BY <1>1, ReceiveLemma, BufferAssumption DEF Sound, Types, TypeOK, TaskRoles
<1> HIDE DEF m
<1>3. Playing' = Playing /\ Waiting' = Waiting /\ Filling' = Filling
  BY <1>1 DEF Playing, Waiting, Filling, Data
<1>4. Doing = <<>>
  BY <1>2 DEF Doing
<1>5. Doing' = Wanted[m]
  <2>1. in[m].first + 0 = in[m].first /\ in[m].count - 0 = in[m].count
    BY <1>2 DEF Sound, Types
  <2>2. Doing' = Samples(in[m].first + 0, in[m].count - 0)
    BY <1>1, <1>2 DEF Doing
  <2>3. QED BY <1>2, <2>1, <2>2, Zenon DEF Wanted
<1>6. Coming = Wanted[m] \o Coming' /\ Wanted[m] \in Seq(Nat)
  <2>0. Wanted \in [Inputs -> Seq(Nat)]
    BY PartTypes
  <2>1. \A q \in Seq(Inputs) :
          q # <<>> => Joined(q, Wanted) = Wanted[Head(q)] \o Joined(Tail(q), Wanted)
    BY <2>0, RequestsJoined
  <2>2. input_queued \in Seq(Inputs) /\ Wanted[m] \in Seq(Nat)
    BY <1>2, PartTypes
  <2>3. Wanted' = Wanted
    BY <1>1 DEF Wanted
  <2>4. Joined(input_queued, Wanted) = Wanted[m] \o Joined(input_queued', Wanted)
    BY <1>1, <2>1, <2>2 DEF m
  <2>5. QED BY <2>2, <2>3, <2>4 DEF Coming
<1>7. /\ Underway = Line(Playing, Waiting, Filling, <<>>, Then(Wanted[m], Coming'))
      /\ Underway' = Line(Playing, Waiting, Filling, Wanted[m], Coming')
      /\ Playing \in Seq(Nat) /\ Waiting \in Seq(Nat) /\ Filling \in Seq(Nat)
      /\ Coming' \in Seq(Nat)
  BY <1>0, <1>3, <1>4, <1>5, <1>6, PartsLemma, PartsNext DEF Parts, Then
<1>8. QED BY <1>6, <1>7, LineTaken

(* A buffer with new contents, neither queued nor in the channel, leaves   *)
(* what they hold as it is.                                                *)
LEMMA OthersKept ==
  ASSUME Sound, PlayingKept, NEW o, o \notin ToSet(output_queued) \cup ToSet(output_active),
         \A x \in Outputs : x # o => out'[x] = out[x]
  PROVE  Joined(dma, Data') = Playing /\ Joined(output_queued, Data') = Waiting
<1>1. /\ Data \in [Buffers -> Seq(Nat)]
      /\ dma \in Seq(Buffers) /\ output_queued \in Seq(Buffers)
  BY PartTypes
<1>2. \A x \in Buffers : x # o => Data'[x] = Data[x]
  BY DEF Data
<1>3. \A x \in ToSet(dma) \cup ToSet(output_queued) : x \in Buffers /\ x # o
  <2>1. ToSet(dma) \subseteq Buffers /\ ToSet(output_queued) \subseteq Buffers
    BY <1>1 DEF ToSet
  <2>2. ToSet(dma) \subseteq ToSet(output_active)
    BY DEF PlayingKept
  <2>3. QED BY <2>1, <2>2
<1>4. \A x \in ToSet(dma) : Data'[x] = Data[x]
  BY <1>2, <1>3
<1>5. \A x \in ToSet(output_queued) : Data'[x] = Data[x]
  BY <1>2, <1>3
<1>6. \A q \in Seq(Buffers) : \A g :
        (\A x \in ToSet(q) : g[x] = Data[x]) => Joined(q, g) = Joined(q, Data)
  BY <1>1, BuffersJoined
<1>7. QED BY <1>1, <1>4, <1>5, <1>6 DEF Playing, Waiting

(* At the end of the data the open buffer is queued with what it holds.    *)
LEMMA FlushAudio == Sound /\ Flush => Underway' = Underway
<1> SUFFICES ASSUME Sound, Flush PROVE Underway' = Underway
  OBVIOUS
<1>0. Sound'
  BY FlushSound
<1>1. /\ pc = "flush" /\ open' = Nil
      /\ output_queued' = IF open = Nil THEN output_queued ELSE Append(output_queued, open)
      /\ UNCHANGED <<in, input_queued, out, cur, offset, dma>>
  BY DEF Flush, inputVars
<1>2. /\ Data' = Data /\ Playing' = Playing /\ Coming' = Coming /\ Doing' = Doing
      /\ Filling' = <<>>
  BY <1>1 DEF Data, Wanted, Playing, Coming, Doing, Filling
<1>3. Waiting' = Then(Waiting, Filling)
  <2>1. /\ Data \in [Buffers -> Seq(Nat)] /\ output_queued \in Seq(Buffers)
        /\ Waiting \in Seq(Nat)
    BY PartTypes
  <2>2. CASE open = Nil
    <3>1. Then(Waiting, <<>>) = Waiting
      BY <2>1, ThenLemma
    <3>2. QED BY <1>1, <1>2, <2>2, <3>1 DEF Waiting, Filling
  <2>3. CASE open # Nil
    <3>1. open \in Buffers /\ open \in Outputs
      BY <2>3 DEF Sound, Types, TypeOK, Buffers
    <3>2. Joined(Append(output_queued, open), Data) = Joined(output_queued, Data) \o Data[open]
      BY <2>1, <3>1, BuffersJoined
    <3>3. Data[open] = Filling
      BY <2>3, <3>1 DEF Data, Filling
    <3>4. QED BY <1>1, <1>2, <2>3, <3>2, <3>3 DEF Waiting, Then
  <2>4. QED BY <2>2, <2>3
<1>4. /\ Underway = Line(Playing, Waiting, Filling, Doing, Coming)
      /\ Underway' = Line(Playing, Then(Waiting, Filling), <<>>, Doing, Coming)
      /\ Playing \in Seq(Nat) /\ Waiting \in Seq(Nat) /\ Filling \in Seq(Nat)
      /\ Doing \in Seq(Nat) /\ Coming \in Seq(Nat)
  BY <1>0, <1>2, <1>3, PartsLemma, PartsNext DEF Parts
<1>5. QED BY <1>4, LineFlushed

(* A buffer taken to be filled is empty, and nobody waits for it.          *)
LEMMA TakeAudio == Sound /\ PlayingKept /\ TakeOutput => Underway' = Underway
<1> SUFFICES ASSUME Sound, PlayingKept, TakeOutput PROVE Underway' = Underway
  OBVIOUS
<1>0. /\ Sound' /\ open' \in Outputs
      /\ open' \notin ToSet(output_queued) \cup ToSet(output_active)
  BY TakeOutputSound
<1>1. /\ open = Nil /\ out' = [out EXCEPT ![open'].data = <<>>]
      /\ UNCHANGED <<in, input_queued, output_queued, cur, offset, dma>>
  BY DEF TakeOutput, inputVars
<1>2. out'[open'].data = <<>> /\ \A x \in Outputs : x # open' => out'[x] = out[x]
  <2>1. out \in [Outputs -> [data : Seq(Nat), rate : Rates]]
    BY DEF Sound, Types
  <2>2. \A x \in Outputs : out'[x] = IF x = open' THEN [out[x] EXCEPT !.data = <<>>] ELSE out[x]
    BY <1>1, <2>1
  <2>3. [out[open'] EXCEPT !.data = <<>>].data = <<>>
    BY <1>0, <2>1
  <2>4. QED BY <1>0, <2>2, <2>3
<1>3. Joined(dma, Data') = Playing /\ Joined(output_queued, Data') = Waiting
  BY <1>0, <1>2, OthersKept
<1>4. Playing' = Playing /\ Waiting' = Waiting
  BY <1>1, <1>3 DEF Playing, Waiting
<1>5. Filling = <<>> /\ Filling' = <<>> /\ Coming' = Coming /\ Doing' = Doing
  <2>1. Filling = <<>>
    BY <1>1 DEF Filling
  <2>2. Filling' = <<>>
    BY <1>2 DEF Filling
  <2>3. QED BY <1>1, <2>1, <2>2 DEF Coming, Wanted, Doing
<1>6. QED BY <1>0, <1>4, <1>5, PartsLemma, PartsNext DEF Parts

(* The request that is given back has nothing left to do.                  *)
LEMMA ReturnAudio == Sound /\ ReturnInput => Underway' = Underway
<1> SUFFICES ASSUME Sound, ReturnInput PROVE Underway' = Underway
  OBVIOUS
<1>0. Sound'
  BY ReturnInputSound
<1>1. /\ pc = "return" /\ cur' = Nil
      /\ UNCHANGED <<in, input_queued, out, output_queued, offset, open, dma>>
  BY DEF ReturnInput, outputVars
<1>2. Doing' = <<>>
  BY <1>1 DEF Doing
<1>3. Doing = <<>>
  <2>1. cur \in Inputs /\ offset = in[cur].count /\ offset \in Nat /\ cur # Nil
    BY <1>1 DEF Sound, Types, TypeOK, TaskRoles
  <2>2. in[cur].first + offset \in Nat /\ in[cur].count - offset = 0
    BY <2>1 DEF Sound, Types
  <2>3. \A f \in Nat : Samples(f, 0) = <<>>
    BY SamplesType
  <2>4. QED BY <2>1, <2>2, <2>3 DEF Doing
<1>4. Playing' = Playing /\ Waiting' = Waiting /\ Filling' = Filling /\ Coming' = Coming
  BY <1>1 DEF Playing, Waiting, Filling, Coming, Data, Wanted
<1>5. QED BY <1>0, <1>2, <1>3, <1>4, PartsLemma, PartsNext DEF Parts

(* What a request has left is what is processed, then what is left of it.  *)
LEMMA FillSplit ==
  ASSUME Sound, pc = "fill", open # Nil
  PROVE  LET new == Samples(in[cur].first + offset, ProcessSize)
             left == Samples(in[cur].first + (offset + ProcessSize),
                             in[cur].count - (offset + ProcessSize))
         IN  Doing = Then(new, left) /\ new \in Seq(Nat) /\ left \in Seq(Nat)
<1>1. /\ ProcessSize \in Nat /\ cur \in Inputs /\ offset \in Nat
      /\ in[cur].first \in Nat /\ in[cur].count \in Nat
      /\ offset + ProcessSize <= in[cur].count
  BY ProcessSizeIs
<1>2. PICK f \in Nat, n \in Nat, c \in Nat, p \in Nat :
        f = in[cur].first /\ n = in[cur].count /\ c = offset /\ p = ProcessSize /\ c + p <= n
  BY <1>1
<1>3. /\ f + c \in Nat /\ n - (c + p) \in Nat /\ (f + c) + p = f + (c + p)
      /\ p + (n - (c + p)) = n - c
  BY <1>2
<1>4. Samples(f + c, p) \o Samples((f + c) + p, n - (c + p)) = Samples(f + c, p + (n - (c + p)))
  BY <1>3, SamplesSplit, ZenonT(30)
<1>5. Samples(f + c, p) \in Seq(Nat) /\ Samples(f + (c + p), n - (c + p)) \in Seq(Nat)
  <2>1. f + (c + p) \in Nat
    BY <1>3
  <2>2. QED BY <1>3, <2>1, SamplesLen
<1>6. Samples(f + c, p) \o Samples(f + (c + p), n - (c + p)) = Samples(f + c, n - c)
  BY <1>3, <1>4, Zenon
<1>7. Doing = Samples(f + c, n - c)
  BY <1>1, <1>2, BufferAssumption DEF Doing
<1>8. QED BY <1>2, <1>5, <1>6, <1>7, Zenon DEF Then

(* Samples go from the request to the open buffer.                         *)
LEMMA FillAudio == Sound /\ PlayingKept /\ ProcessSamples => Underway' = Underway
<1> SUFFICES ASSUME Sound, PlayingKept, ProcessSamples PROVE Underway' = Underway
  OBVIOUS
<1>0. Sound'
  BY ProcessSamplesSound
<1> DEFINE new == Samples(in[cur].first + offset, ProcessSize)
           left == Samples(in[cur].first + (offset + ProcessSize),
                           in[cur].count - (offset + ProcessSize))
           data == out[open].data \o new
           full == Len(data) = DSP_BUFFER_SIZE
<1>1. /\ pc = "fill" /\ open # Nil
      /\ out' = [out EXCEPT ![open] = [data |-> data, rate |-> in[cur].rate]]
      /\ IF full THEN output_queued' = Append(output_queued, open) /\ open' = Nil
                 ELSE UNCHANGED <<output_queued, open>>
      /\ offset' = offset + ProcessSize
      /\ UNCHANGED <<in, input_queued, cur, dma>>
  BY DEF ProcessSamples, inputVars
<1>2. Doing = Then(new, left) /\ new \in Seq(Nat) /\ left \in Seq(Nat)
  BY <1>1, FillSplit
<1>3. Doing' = left /\ cur \in Inputs /\ open \in Outputs /\ open \in Buffers
  <2>1. cur \in Inputs /\ open \in Outputs
    BY <1>1, ProcessSizeIs
  <2>2. cur # Nil /\ open \in Buffers
    BY <2>1, BufferAssumption DEF Buffers
  <2>3. QED BY <1>1, <2>1, <2>2 DEF Doing
<1>4. data = Then(Filling, new)
  BY <1>1 DEF Filling, Then
<1> HIDE DEF new, left, data
<1>5. out'[open].data = data /\ \A x \in Outputs : x # open => out'[x] = out[x]
  BY <1>1, <1>3 DEF Sound, Types
<1>6. Joined(dma, Data') = Playing /\ Joined(output_queued, Data') = Waiting
  <2>1. open \notin ToSet(output_queued) \cup ToSet(output_active)
    BY DEF Sound, Apart, BuffersApart
  <2>2. QED BY <1>5, <2>1, OthersKept
<1>7. Playing' = Playing /\ Coming' = Coming
  BY <1>1, <1>6 DEF Playing, Coming, Wanted
<1>8. /\ Underway = Line(Playing, Waiting, Filling, Then(new, left), Coming)
      /\ Underway' = Line(Playing, Waiting', Filling', left, Coming)
      /\ Playing \in Seq(Nat) /\ Waiting \in Seq(Nat) /\ Filling \in Seq(Nat)
      /\ Coming \in Seq(Nat) /\ new \in Seq(Nat) /\ left \in Seq(Nat)
  BY <1>0, <1>2, <1>3, <1>7, PartsLemma, PartsNext DEF Parts
<1>9. CASE full
  <2>1. Filling' = <<>>
    BY <1>1, <1>9 DEF Filling
  <2>2. Waiting' = Then(Waiting, Then(Filling, new))
    <3>1. Data' \in [Buffers -> Seq(Nat)] /\ output_queued \in Seq(Buffers)
      BY <1>0, PartsNext, PartTypes DEF Parts
    <3>2. Joined(Append(output_queued, open), Data') = Joined(output_queued, Data') \o Data'[open]
      BY <1>3, <3>1, BuffersJoined
    <3>3. Data'[open] = data
      BY <1>3, <1>5 DEF Data
    <3>4. QED BY <1>1, <1>4, <1>6, <1>9, <3>2, <3>3 DEF Waiting, Then
  <2>3. QED BY <1>8, <2>1, <2>2, LineFull
<1>10. CASE ~full
  <2>1. Waiting' = Waiting
    BY <1>1, <1>6, <1>10 DEF Waiting
  <2>2. Filling' = Then(Filling, new)
    BY <1>1, <1>4, <1>5, <1>10 DEF Filling
  <2>3. QED BY <1>8, <2>1, <2>2, LineFilled
<1>11. QED BY <1>9, <1>10

(* The channel has played its first buffer.                                *)
LEMMA PlayAudio ==
  Sound /\ Play => /\ Underway = Then(Data[Head(dma)], Underway')
                   /\ Data[Head(dma)] \in Seq(Nat) /\ Underway' \in Seq(Nat)
<1> SUFFICES ASSUME Sound, Play
             PROVE  /\ Underway = Then(Data[Head(dma)], Underway')
                    /\ Data[Head(dma)] \in Seq(Nat) /\ Underway' \in Seq(Nat)
  OBVIOUS
<1>0. Sound'
  BY PlaySound
<1>1. /\ dma # <<>> /\ dma' = Tail(dma)
      /\ UNCHANGED <<in, input_queued, out, output_queued, cur, offset, open>>
  BY DEF Play, inputVars, outputVars, taskVars
<1>2. /\ Data' = Data /\ Waiting' = Waiting /\ Filling' = Filling /\ Doing' = Doing
      /\ Coming' = Coming
  BY <1>1 DEF Data, Waiting, Filling, Doing, Coming, Wanted
<1>3. Data \in [Buffers -> Seq(Nat)] /\ dma \in Seq(Buffers)
  BY PartTypes
<1>4. Head(dma) \in Buffers /\ Data[Head(dma)] \in Seq(Nat)
  BY <1>1, <1>3, ReceiveLemma
<1>5. Playing = Then(Data[Head(dma)], Playing')
  BY <1>1, <1>2, <1>3, BuffersJoined DEF Playing, Then
<1>6. /\ Underway = Line(Then(Data[Head(dma)], Playing'), Waiting, Filling, Doing, Coming)
      /\ Underway' = Line(Playing', Waiting, Filling, Doing, Coming)
      /\ Playing' \in Seq(Nat) /\ Waiting \in Seq(Nat) /\ Filling \in Seq(Nat)
      /\ Doing \in Seq(Nat) /\ Coming \in Seq(Nat)
  BY <1>0, <1>2, <1>5, PartsLemma, PartsNext DEF Parts
<1>7. Underway = Then(Data[Head(dma)], Underway')
  BY <1>4, <1>6, LinePlayed
<1>8. Underway' \in Seq(Nat)
  BY <1>6, ThenLemma DEF Line
<1>9. QED BY <1>4, <1>7, <1>8

(* Buffers go from the queue to the DMA channel.                           *)
LEMMA LineMoved ==
  \A a, x, b, c, d, e \in Seq(Nat) : Line(Then(a, x), b, c, d, e) = Line(a, Then(x, b), c, d, e)
<1> TAKE a, x, b, c, d, e \in Seq(Nat)
<1>1. Then(Then(a, x), b) = Then(a, Then(x, b))
  BY ThenLemma
<1>2. QED BY <1>1 DEF Line

(* The interrupt moves buffers in order; silent ones hold no sample.       *)
LEMMA CompleteAudio == Sound /\ DacBufferComplete => Underway' = Underway
<1> SUFFICES ASSUME Sound, DacBufferComplete PROVE Underway' = Underway
  OBVIOUS
<1>0. Sound'
  BY NextSound DEF Next
<1>1. UNCHANGED <<in, input_queued, out, cur, offset, open>>
  BY DEF DacBufferComplete, inputVars, taskVars
<1>2. Data' = Data /\ Filling' = Filling /\ Doing' = Doing /\ Coming' = Coming
  BY <1>1 DEF Data, Filling, Doing, Coming, Wanted
<1>3. CASE ChangeRate
  <2>1. UNCHANGED <<dma, output_queued>>
    BY <1>3 DEF ChangeRate
  <2>2. Playing' = Playing /\ Waiting' = Waiting
    BY <1>2, <2>1 DEF Playing, Waiting
  <2>3. QED BY <1>0, <1>2, <2>2, PartsLemma, PartsNext DEF Parts
<1>4. CASE Refill
  <2>0. ~bitrate_change
    BY <1>4 DEF Refill
  <2>1. Data \in [Buffers -> Seq(Nat)] /\ dma \in Seq(Buffers)
    BY PartTypes
  <2>2. \A p, q \in Seq(Buffers) : Joined(p \o q, Data) = Joined(p, Data) \o Joined(q, Data)
    BY <2>1, JoinedConcat
  <2>3. \A q \in Seq(Buffers) : (\A x \in ToSet(q) : Data[x] = <<>>) => Joined(q, Data) = <<>>
    BY <2>1, JoinedQuiet
  <2>4. \A q \in Seq(Buffers) : Joined(q, Data) \in Seq(Nat)
    BY <2>1, JoinedLemma
  <2>5. /\ NextAudio \in Seq(Buffers) /\ NextSilence \in Seq(Buffers)
        /\ NextSilence \in Seq(Silences)
    <3>1. NextAudio \in Seq(Outputs) /\ NextSilence \in Seq(Silences)
      BY <2>0, RefillSizes
    <3>2. QED BY <3>1 DEF Buffers
  <2>6. /\ After(output_queued, Len(NextAudio)) \in Seq(Buffers)
        /\ NextAudio \o After(output_queued, Len(NextAudio)) = output_queued
    <3>1. Room \in Nat /\ output_queued \in Seq(Buffers)
      BY <2>0, RefillSizes, PartTypes
    <3>2. QED BY <3>1, UptoLemma DEF NextAudio
  <2>7. Joined(NextSilence, Data) = <<>>
    <3>1. \A x \in ToSet(NextSilence) : x \in Silences
      BY <2>5 DEF ToSet
    <3>2. \A x \in ToSet(NextSilence) : Data[x] = <<>>
      BY <3>1, BufferAssumption DEF Data, Buffers
    <3>3. QED BY <2>3, <2>5, <3>2
  <2>8. PICK x \in Seq(Nat) : x = Joined(NextAudio, Data)
    BY <2>4, <2>5
  <2>9. Playing' = Then(Playing, x)
    <3>1. dma' = dma \o NextAudio \o NextSilence /\ dma \o NextAudio \in Seq(Buffers)
      BY <1>4, <2>1, <2>5, ConcatProperties DEF Refill
    <3>2. Joined(dma', Data) = Joined(dma, Data) \o x \o <<>>
      BY <2>1, <2>2, <2>5, <2>7, <2>8, <3>1
    <3>3. Then(Playing, x) \in Seq(Nat)
      BY <2>8, PartTypes, ThenLemma
    <3>4. Then(Then(Playing, x), <<>>) = Then(Playing, x)
      BY <3>3, ThenLemma
    <3>5. QED BY <1>2, <3>2, <3>4 DEF Playing, Then
  <2>10. Waiting = Then(x, Waiting')
    <3>1. output_queued' = After(output_queued, Len(NextAudio))
      BY <1>4 DEF Refill
    <3>2. Joined(output_queued, Data) = Joined(NextAudio, Data) \o Joined(output_queued', Data)
      BY <2>2, <2>5, <2>6, <3>1
    <3>3. QED BY <1>2, <2>8, <3>2 DEF Waiting, Then
  <2>11. /\ Underway = Line(Playing, Then(x, Waiting'), Filling, Doing, Coming)
         /\ Underway' = Line(Then(Playing, x), Waiting', Filling, Doing, Coming)
         /\ Playing \in Seq(Nat) /\ Waiting' \in Seq(Nat) /\ Filling \in Seq(Nat)
         /\ Doing \in Seq(Nat) /\ Coming \in Seq(Nat)
    BY <1>0, <1>2, <2>9, <2>10, PartsLemma, PartsNext DEF Parts
  <2>12. QED BY <2>8, <2>11, LineMoved
<1>5. QED BY <1>3, <1>4 DEF DacBufferComplete

(* Every step keeps the samples in order.                                  *)
LEMMA AudioStep == Sound /\ PlayingKept /\ AudioInOrder /\ [Next]_vars => AudioInOrder'
<1> SUFFICES ASSUME Sound, PlayingKept, AudioInOrder, [Next]_vars PROVE AudioInOrder'
  OBVIOUS
<1>0. InOrder(Underway, played, made)
  BY DEF AudioInOrder, InOrder
<1>1. Underway \in Seq(Nat) /\ played \in Nat
  <2>1. /\ Underway = Line(Playing, Waiting, Filling, Doing, Coming)
        /\ Playing \in Seq(Nat) /\ Waiting \in Seq(Nat) /\ Filling \in Seq(Nat)
        /\ Doing \in Seq(Nat) /\ Coming \in Seq(Nat)
    BY PartsLemma DEF Parts
  <2>2. Underway \in Seq(Nat)
    BY <2>1, ThenLemma DEF Line
  <2>3. QED BY <2>2 DEF Sound, Types
<1>2. ASSUME NEW n \in Nat, NEW r \in Rates, QueueRequest(n, r) PROVE AudioInOrder'
  <2>1. made' = (made + n) % TagMod /\ played' = played
    BY <1>2 DEF QueueRequest
  <2>2. Underway' = Underway \o Samples(made, n)
    BY <1>2, QueueAudio DEF Then
  <2>3. InOrder(Underway \o Samples(made, n), played, (made + n) % TagMod)
    BY <1>0, <1>1, OrderQueued
  <2>4. QED BY <2>1, <2>2, <2>3 DEF InOrder, AudioInOrder
<1>3. CASE QueueData \/ DataComplete
  <2>1. Counts \subseteq Nat /\ 0 \in Nat /\ FirstRate \in Rates
    BY CountAssumption
  <2>2. QED BY <1>2, <1>3, <2>1 DEF QueueData, DataComplete
<1>4. CASE Task \/ DacBufferComplete
  <2>1. Underway' = Underway
    BY <1>4, ReceiveAudio, FlushAudio, TakeAudio, FillAudio, ReturnAudio, CompleteAudio DEF Task
  <2>2. played' = played /\ made' = made
    BY <1>4, Zenon DEF Task, TaskReceive, Flush, TakeOutput, ProcessSamples, ReturnInput,
                       DacBufferComplete
  <2>3. QED BY <2>1, <2>2 DEF AudioInOrder
<1>5. CASE Play
  <2> DEFINE d == Data[Head(dma)]
  <2>1. Underway = d \o Underway' /\ d \in Seq(Nat) /\ Underway' \in Seq(Nat)
    BY <1>5, PlayAudio DEF Then
  <2>2. made' = made /\ played' = IF d # <<>> THEN Last(d) ELSE played
    <3>1. Head(dma) \in Buffers
      BY <1>5, ReceiveLemma DEF Play, Sound, Types
    <3>2. d # <<>> <=> Played(Head(dma))
      BY <3>1 DEF Data, Played
    <3>3. d # <<>> => d = out[Head(dma)].data
      BY <3>1 DEF Data
    <3>4. /\ made' = made
          /\ played' = IF Played(Head(dma)) THEN Last(out[Head(dma)].data) ELSE played
      BY <1>5 DEF Play
    <3>5. QED BY <3>2, <3>3, <3>4
  <2> HIDE DEF d
  <2>3. CASE d = <<>>
    <3>1. Underway' = Underway
      BY <2>1, <2>3
    <3>2. QED BY <2>2, <2>3, <3>1 DEF AudioInOrder
  <2>4. CASE d # <<>>
    <3>1. InOrder(d \o Underway', played, made)
      BY <1>0, <2>1
    <3>2. InOrder(Underway', Last(d), made)
      BY <1>1, <2>1, <2>4, <3>1, OrderPlayed
    <3>3. QED BY <2>2, <2>4, <3>2 DEF InOrder, AudioInOrder
  <2>5. QED BY <2>3, <2>4
<1>6. CASE UNCHANGED vars
  BY <1>6 DEF vars, inputVars, outputVars, dacVars, taskVars, AudioInOrder, Underway, Audio,
              Requested
<1>7. QED BY <1>3, <1>4, <1>5, <1>6 DEF Next

(* At first nothing is on its way.                                         *)
LEMMA InitAudio == Init => AudioInOrder
<1> SUFFICES ASSUME Init PROVE AudioInOrder
  OBVIOUS
<1>1. /\ Underway = Line(Playing, Waiting, Filling, Doing, Coming)
      /\ Data \in [Buffers -> Seq(Nat)] /\ Wanted \in [Inputs -> Seq(Nat)]
  BY InitSound, PartsLemma DEF Parts
<1>2. Playing = <<>> /\ Waiting = <<>>
  <2>1. Joined(<<>>, Data) = <<>>
    BY <1>1, JoinedLemma
  <2>2. QED BY <2>1 DEF Init, Playing, Waiting
<1>3. Coming = <<>>
  <2>1. Joined(<<>>, Wanted) = <<>>
    BY <1>1, JoinedLemma
  <2>2. QED BY <2>1 DEF Init, Coming
<1>4. Filling = <<>> /\ Doing = <<>>
  BY DEF Init, Filling, Doing
<1>5. Underway = <<>>
  <2>1. <<>> \in Seq(Nat)
    OBVIOUS
  <2>2. QED BY <1>1, <1>2, <1>3, <1>4, <2>1, ThenLemma DEF Line
<1>6. Samples(0, 0) = <<>> /\ Len(<<>>) = 0
  BY SamplesType
<1>7. (0 + 0) % TagMod = 0
  <2>1. TagMod \in Nat \ {0}
    BY SizeAssumption
  <2>2. 0 \in 0 .. TagMod - 1 /\ TagMod * 0 + 0 = 0
    BY <2>1
  <2>3. (TagMod * 0 + 0) % TagMod = 0
    BY <2>1, <2>2, ModUnique
  <2>4. QED BY <2>2, <2>3
<1>8. QED BY <1>5, <1>6, <1>7 DEF Init, AudioInOrder

(* At one rate, every sample that the decoder queued is played once and in *)
(* order (dsp.c): none is lost, repeated, overtaken between the request,   *)
(* the buffers and the DAC, or overwritten while it waits.                 *)
THEOREM AudioPlaysInOrder == Rates = {FirstRate} => (Spec => []AudioInOrder)
<1> SUFFICES ASSUME Rates = {FirstRate} PROVE Spec => []AudioInOrder
  OBVIOUS
<1>1. Init => Sound /\ Follows /\ AudioInOrder
  BY InitSound, InitAudio DEF Init, Follows
<1>2. Sound /\ Follows /\ AudioInOrder /\ [Next]_vars => (Sound /\ Follows /\ AudioInOrder)'
  BY NextSound, FollowsStep, FollowsKept, AudioStep
<1>3. QED BY <1>1, <1>2, PTL DEF Spec
=============================================================================
