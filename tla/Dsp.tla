-------------------------------- MODULE Dsp --------------------------------
(***************************************************************************)
(* src/library/dsp/src/dsp.c: the decoder hands buffers of samples to the  *)
(* DSP task, which packs them into output buffers of a fixed size; the     *)
(* interrupt __dac_buffer_complete moves output buffers to the DAC and     *)
(* back, puts in silence when there is nothing to play, and changes the    *)
(* sample rate between two songs.                                          *)
(*                                                                         *)
(* The DAC's DMA channel (bsp/src/pdca.c, dac.c) plays a buffer and keeps  *)
(* one more in reload; it interrupts as long as the reload slot is free.   *)
(* A sample is its number, modulo TagMod; silence and padding are nothing. *)
(***************************************************************************)
EXTENDS Integers, Sequences, FiniteSets, SequencesExt

CONSTANTS
  Inputs,           (* __input: DSP_IN_MSG_MAX requests                     *)
  Outputs,          (* __output: DSP_OUT_MSG_MAX buffers                    *)
  Silences,         (* __silence: DSP_SILENCE_MSG_MAX buffers               *)
  DSP_BUFFER_SIZE,  (* samples in an output buffer                          *)
  Counts, Rates,    (* how many samples the decoder queues, at which rates  *)
  FirstRate,        (* 44100                                                *)
  TagMod,           (* more than the samples that can be on their way       *)
  Nil

ASSUME PoolAssumption == IsFiniteSet(Inputs) /\ IsFiniteSet(Outputs) /\ IsFiniteSet(Silences)
ASSUME BufferAssumption == Silences \cap Outputs = {} /\ Nil \notin Inputs \cup Outputs \cup Silences
(* As many silent buffers as the DMA channel holds, and __output_active.   *)
ASSUME SilenceAssumption == \E y, z \in Silences : y # z
ASSUME SizeAssumption == DSP_BUFFER_SIZE \in Nat \ {0} /\ TagMod \in Nat \ {0}
ASSUME CountAssumption == Counts \subseteq Nat \ {0} /\ Rates \subseteq Nat \ {0} /\ FirstRate \in Rates

VARIABLES
  input_idle, input_queued, in,     (* requests: their queues and contents  *)
  output_idle, output_queued,       (* output buffers: their queues ...     *)
  output_active, idle_silence,
  out,                              (* ... and contents                     *)
  bitrate, bitrate_change, new_bitrate,
  pc, cur, offset, open,            (* __dsp_task: the request, how much of *)
                                    (* it is done, the buffer being filled  *)
  dma,                              (* the buffers of the DMA channel       *)
  made, played                      (* the numbers of the last samples      *)
                                    (* queued and played                    *)

inputVars == <<input_idle, input_queued, in>>
outputVars == <<output_idle, output_queued, out>>
dacVars == <<output_active, idle_silence, bitrate, bitrate_change, new_bitrate>>
taskVars == <<pc, cur, offset, open>>
vars == <<inputVars, outputVars, dacVars, taskVars, dma, made, played>>

Least(a, b) == IF a < b THEN a ELSE b
(* The first n elements of s, or all of them, and the others.              *)
Upto(s, n) == SubSeq(s, 1, Least(n, Len(s)))
After(s, n) == SubSeq(s, n + 1, Len(s))
(* The n samples after the first-th.                                       *)
Samples(first, n) == [k \in 1 .. n |-> (first + k) % TagMod]

Init ==
  /\ input_idle \in SetToSeqs(Inputs) /\ input_queued = <<>>
  /\ in = [m \in Inputs |-> [count |-> 0, rate |-> FirstRate, first |-> 0]]
  /\ output_idle \in SetToSeqs(Outputs) /\ output_queued = <<>>
  /\ out = [o \in Outputs |-> [data |-> <<>>, rate |-> FirstRate]]
  /\ output_active = <<>> /\ idle_silence \in SetToSeqs(Silences)
  /\ bitrate = FirstRate /\ bitrate_change = FALSE /\ new_bitrate = 0
  /\ pc = "wait" /\ cur = Nil /\ offset = 0 /\ open = Nil
  /\ dma = <<>>
  /\ made = 0 /\ played = 0

-----------------------------------------------------------------------------
(* dsp_queue_data and, with no samples, dsp_data_complete.                 *)
QueueRequest(n, r) ==
  /\ input_idle # <<>>
  /\ in' = [in EXCEPT ![Head(input_idle)] = [count |-> n, rate |-> r, first |-> made]]
  /\ input_queued' = Append(input_queued, Head(input_idle))
  /\ input_idle' = Tail(input_idle)
  /\ made' = (made + n) % TagMod
  /\ UNCHANGED <<outputVars, dacVars, taskVars, dma, played>>

(* The decoder ends a song before it starts another at a different rate.   *)
LastRequest == IF input_queued # <<>> THEN Last(input_queued) ELSE cur

QueueData ==
  \E n \in Counts, r \in Rates :
    /\ open # Nil \/ LastRequest # Nil =>
         \/ LastRequest # Nil /\ (in[LastRequest].count = 0 \/ in[LastRequest].rate = r)
         \/ LastRequest = Nil /\ out[open].rate = r
    /\ QueueRequest(n, r)

DataComplete == QueueRequest(0, FirstRate)

-----------------------------------------------------------------------------
(* __dsp_task                                                              *)
TaskReceive ==
  /\ pc = "wait" /\ input_queued # <<>>
  /\ cur' = Head(input_queued) /\ input_queued' = Tail(input_queued)
  /\ offset' = 0
  /\ pc' = IF in[Head(input_queued)].count = 0 THEN "flush" ELSE "fill"
  /\ UNCHANGED <<input_idle, in, outputVars, dacVars, open, dma, made, played>>

(* The end of the data: what the open buffer holds is padded and queued.   *)
Flush ==
  /\ pc = "flush"
  /\ output_queued' = IF open = Nil THEN output_queued ELSE Append(output_queued, open)
  /\ open' = Nil /\ pc' = "return"
  /\ UNCHANGED <<inputVars, output_idle, out, dacVars, cur, offset, dma, made, played>>

TakeOutput ==
  /\ pc = "fill" /\ open = Nil /\ output_idle # <<>>
  /\ open' = Head(output_idle) /\ output_idle' = Tail(output_idle)
  /\ out' = [out EXCEPT ![Head(output_idle)].data = <<>>]
  /\ UNCHANGED <<inputVars, output_queued, dacVars, pc, cur, offset, dma, made, played>>

(* How many samples fit; the mutant forgets what the request has left.     *)
ProcessSizeAll == DSP_BUFFER_SIZE - Len(out[open].data)
ProcessSize == Least(DSP_BUFFER_SIZE - Len(out[open].data), in[cur].count - offset)

(* __process_samples, and the buffer queued if that filled it.             *)
ProcessSamples ==
  /\ pc = "fill" /\ open # Nil
  /\ LET new == Samples(in[cur].first + offset, ProcessSize) IN
       /\ out' = [out EXCEPT ![open] = [data |-> @.data \o new, rate |-> in[cur].rate]]
       /\ IF Len(out[open].data \o new) = DSP_BUFFER_SIZE
            THEN output_queued' = Append(output_queued, open) /\ open' = Nil
            ELSE UNCHANGED <<output_queued, open>>
  /\ offset' = offset + ProcessSize
  /\ pc' = IF offset + ProcessSize < in[cur].count THEN "fill" ELSE "return"
  /\ UNCHANGED <<inputVars, output_idle, dacVars, cur, dma, made, played>>

(* The callback gives the decoder its buffer back, the request is free.    *)
ReturnInput ==
  /\ pc = "return"
  /\ input_idle' = Append(input_idle, cur)
  /\ cur' = Nil /\ pc' = "wait"
  /\ UNCHANGED <<input_queued, in, outputVars, dacVars, offset, open, dma, made, played>>

Task == TaskReceive \/ Flush \/ TakeOutput \/ ProcessSamples \/ ReturnInput

-----------------------------------------------------------------------------
(* The DAC.                                                                *)

(* A buffer has been played.                                               *)
Played(o) == o \in Outputs /\ out[o].data # <<>>
Play ==
  /\ dma # <<>>
  /\ dma' = Tail(dma)
  /\ played' = IF Played(Head(dma)) THEN Last(out[Head(dma)].data) ELSE played
  /\ UNCHANGED <<inputVars, outputVars, dacVars, taskVars, made>>

(* __dac_buffer_complete.  The head of __output_active has been played;    *)
(* it goes back to the pool it came from (mutants: every buffer goes back  *)
(* to the silences, a buffer of samples to nowhere).                       *)
Finished(pool) ==
  IF output_active # <<>> /\ Head(output_active) \in pool THEN <<Head(output_active)>> ELSE <<>>
SilenceBackAll == idle_silence \o Finished(Silences \cup Outputs)
SilenceBack == idle_silence \o Finished(Silences)
OutputLost == output_idle
OutputBack == output_idle \o Finished(Outputs)
StillActive == After(output_active, 1)

(* The next buffer has another rate (mutant: whatever its rate).           *)
RateChangesAlways == output_queued # <<>>
RateChanges == output_queued # <<>> /\ out[Head(output_queued)].rate # bitrate

(* A change of rate puts a silent buffer in __output_active, unplayed.     *)
Bubble == Upto(SilenceBack, 1)
Rest == After(SilenceBack, 1)

(* The buffers that fill __output_active, which holds two (the mutant:     *)
(* three): what is queued, then silence.                                   *)
RoomThree == 3 - Len(StillActive) - (IF RateChanges THEN Len(Bubble) ELSE 0)
Room == 2 - Len(StillActive) - (IF RateChanges THEN Len(Bubble) ELSE 0)
Quiet == IF RateChanges THEN Rest ELSE SilenceBack
NextAudio == Upto(output_queued, Room)
NextSilence == Upto(Quiet, Room - Len(NextAudio))

Refill ==
  /\ ~bitrate_change
  /\ Len(dma \o NextAudio \o NextSilence) <= 2
  /\ bitrate_change' = RateChanges
  /\ new_bitrate' = IF RateChanges THEN out[Head(output_queued)].rate ELSE new_bitrate
  /\ output_active' =
       StillActive \o (IF RateChanges THEN Bubble ELSE <<>>) \o NextAudio \o NextSilence
  /\ dma' = dma \o NextAudio \o NextSilence
  /\ output_queued' = After(output_queued, Len(NextAudio))
  /\ idle_silence' = After(Quiet, Len(NextSilence))
  /\ UNCHANGED bitrate

ChangeRate ==
  /\ bitrate_change
  /\ bitrate' = new_bitrate
  /\ bitrate_change' = FALSE /\ new_bitrate' = 0
  /\ output_active' = StillActive \o Bubble
  /\ idle_silence' = Rest
  /\ UNCHANGED <<output_queued, dma>>

DacBufferComplete ==
  /\ Len(dma) < 2
  /\ Refill \/ ChangeRate
  /\ output_idle' = OutputBack
  /\ UNCHANGED <<inputVars, out, taskVars, made, played>>

Next == QueueData \/ DataComplete \/ Task \/ Play \/ DacBufferComplete

Spec == Init /\ [][Next]_vars

(* The task is scheduled, the DAC plays and its interrupts are taken.      *)
FairSpec == Spec /\ WF_vars(Task) /\ WF_vars(Play) /\ WF_vars(DacBufferComplete)

-----------------------------------------------------------------------------
TypeOK ==
  /\ input_idle \in Seq(Inputs) /\ input_queued \in Seq(Inputs)
  /\ output_idle \in Seq(Outputs) /\ output_queued \in Seq(Outputs)
  /\ idle_silence \in Seq(Silences) /\ Len(output_active) <= 2
  /\ \A o \in Outputs : Len(out[o].data) <= DSP_BUFFER_SIZE /\ out[o].rate \in Rates
  /\ bitrate \in Rates /\ new_bitrate \in Rates \cup {0} /\ bitrate_change = (new_bitrate # 0)
  /\ cur \in Inputs \cup {Nil} /\ open \in Outputs \cup {Nil}
  /\ pc \in {"wait", "flush", "fill", "return"} /\ offset \in Nat

(* Requests, output buffers and silent buffers are each in one place, and  *)
(* none is lost, across any number of songs and rates.                     *)
OnePlace ==
  LET requests == input_idle \o input_queued \o (IF cur = Nil THEN <<>> ELSE <<cur>>)
      buffers == output_idle \o output_queued \o (IF open = Nil THEN <<>> ELSE <<open>>)
                   \o output_active \o idle_silence
  IN  /\ TypeOK
      /\ IsInjective(requests) /\ ToSet(requests) = Inputs
      /\ IsInjective(buffers) /\ ToSet(buffers) = Outputs \cup Silences

(* What is on its way to the DAC, oldest first.                            *)
Audio(s) == FlattenSeq([k \in DOMAIN s |-> IF s[k] \in Outputs THEN out[s[k]].data ELSE <<>>])
Requested(s) == FlattenSeq([k \in DOMAIN s |-> Samples(in[s[k]].first, in[s[k]].count)])
Underway ==
  Audio(dma \o output_queued) \o (IF open = Nil THEN <<>> ELSE out[open].data)
    \o (IF cur = Nil THEN <<>>
        ELSE Samples(in[cur].first + offset, in[cur].count - offset))
    \o Requested(input_queued)

(* Every sample the decoder queued is played once and in order: none is    *)
(* lost, repeated, or overtaken between the request, the buffers and the   *)
(* DAC, nor overwritten while it waits.                                    *)
AudioInOrder == Underway = Samples(played, Len(Underway)) /\ (played + Len(Underway)) % TagMod = made

(* "This can't fail because one of the two buffers just became available": *)
(* the interrupt never finds the DMA channel full (it would never return). *)
PdcaHasRoom == Len(dma) < 2 /\ ~bitrate_change => Len(dma \o NextAudio \o NextSilence) <= 2

(* "Move the transferred message to the idle queue": what the DMA channel  *)
(* still plays is not idle, where the task takes it to fill it again.      *)
PlayingKept == ToSet(dma) \subseteq ToSet(output_active)

(* Every request comes back to the decoder.                                *)
RequestsReturn == \A m \in Inputs : m \in ToSet(input_queued) ~> m \in ToSet(input_idle)
=============================================================================
