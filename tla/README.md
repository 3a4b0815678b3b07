# Open Roadster Crooner: formal models and proofs

Open Roadster Crooner is the firmware of a CD-changer emulator for a car: C on
FreeRTOS, for an AVR32 with a memory card, a DAC and the car's iBus. It plays
mp3 and flac files from the card while the radio of the car believes it talks
to a CD changer. This directory holds TLA+ modules translated from its source,
TLC configurations that check them, and proofs checked by TLAPS.

Paths below are relative to `src/`.

## 1. The system

### Components

The program is a set of tasks that exchange pointers to messages of fixed
pools through queues. `apps/cd_changer/main.c` (lines 165 to 186) starts them:
the file stream and the DSP at priority 2, playback, LED, system time and the
system log at 1; the radio interface and the memory card start tasks of their
own.

| Component | State it keeps | Operations | Correct when |
| --- | --- | --- | --- |
| Playback task, `library/playback` | the command pool, its two queues, the 16-bit id, the song and command in hand | `playback_play`, `playback_command`, the task, `__continue_decoding`, callbacks | no message is lost or shared, no send blocks, requests are answered in order and each song is closed once |
| Media players, `library/media-mp3`, `library/media-flac` | the nodes of samples and the queue `__idle`, the status of the song | `media_mp3_play`, `media_flac_play`, `dsp_callback` | no node is freed under its user or kept for the next song, every song returns |
| File stream, `library/file-stream` | the open file, nodes of data, the big buffer, one command message | `fstream_open`, `fstream_close`, `fstream_get_buffer`, `fstream_release_buffer`, `fstream_skip`, the task | the decoder reads the file it opened, in order, and no call waits forever |
| DSP and DAC, `library/dsp`, `bsp/src/dac.c` | requests, output buffers, silence, sample rate, the DMA channel | `dsp_queue_data`, `dsp_data_complete`, the task, `__dac_buffer_complete` | every sample is played once and in order, no buffer is filled while it plays |
| iBus physical layer, `library/ibus-physical`, `bsp/src/usart.c`, `bsp/src/pdca.c` | two pools of messages, two semaphores, the DMA channel, the state of the receive interrupt | send, get and release a message, the transmit task, four interrupt handlers | a message goes out once, whole and in order; one marked OK arrived whole |
| iBus radio, phone and debug protocols | none beyond a translation table | frames to commands, status to frames | each is the inverse the radio expects |
| Radio interface, `apps/cd_changer/radio-interface.c` | the state of the changer, the pool of 20 messages, the last status reported | the polling, command, iBus and database tasks, callbacks of card and playback | one owner per message; the state follows the card and the song |
| User interface, `ui-t.c`, `user-interface.c` | the song, disc and track, the display text | radio commands, status of playback | what the radio shows is what plays |
| Device status, LED, start-up | the last status, under a mutex | `device_status_set`, the LED task, `main` | the LED shows the last status |
| Memory card, `library/memcard` | the status of the card, its callbacks, the automount task | insertion, removal, mount, callbacks | each removal and insertion is reported in order |
| Block layer, `memcard/src/block.c` | one message in three queues, the DMA transfers, a magic number per card | `block_read`, `block_write`, two interrupt levels | a transfer that succeeds is of the card that was asked |
| Display, `library/display` | the text and its position, a queue of messages | start, stop and the scrolling task | the text shown is the last one given |
| System log, `library/system-log` | a pool of messages, a file | `_syslog`, the task | lines appear in order, no task waits forever |
| Circular buffer | a ring of the last elements pushed | push, pop, peek, clear | it is a stack that forgets its oldest element |
| System time, fillable buffer | counters; a buffer filled in two halves | pure functions under a mutex | differences are right across a wrap |
| Database, AVL tree, linked list | the tree of artists, albums and songs, the ring of songs picked at random | populate, purge, next, previous and random song | every node leads to a song, every song is reached once in a cycle, no pointer outlives its song |
| FreeRTOS wrapper, board support, FatFs, libmad, libflac, newlib | third-party, or registers | | modelled only as the code above uses them |

### How they interact

- Radio -> iBus physical -> radio protocol -> radio interface: frames are
  collected in the receive interrupt, queued, and converted in the iBus task.
- Card, radio, database task and playback -> radio interface: each posts a
  message of the pool of twenty; the BLU task receives them all, in four loops
  that differ in what they make of each message.
- Radio interface -> user interface -> playback: commands become
  `playback_play` and `playback_command`; answers come back through a callback
  that runs in the playback task and posts into the queue of the radio
  interface.
- Playback -> player -> file stream: the player is called by the playback
  task, looks into the playback queue through `__continue_decoding`, and reads
  the file through the stream task.
- Player -> DSP -> DAC: nodes of samples are lent to the DSP task, which gives
  them back through a callback and packs them into output buffers that the
  DAC interrupt hands to the DMA channel.
- File stream and system log -> FatFs -> block layer -> card; the card's
  removal reaches the block layer in an interrupt and everyone else through
  the automount task.

### What is hard here

- *Pools and blocking sends.* Nearly every queue is as long as its pool, and
  sends wait forever; that they never do is an argument over the whole pool.
- *Answers out of season.* The BLU task asks the database task and the playback
  and goes on listening; a card that comes or goes makes it leave the loop that
  expected the answer.
- *Peek, then receive.* Three tasks look at a queue and act later on what they
  saw (`playback.c:284`, `ibus-physical.c:289`, `file-stream.c:371`).
- *Interrupts.* The DAC, the iBus and the card each move messages between
  queues in interrupt handlers that run between any two steps of the tasks.
- *Ends.* The end of a song is the end of a file, of a stream, of the nodes
  lent to the DSP and of the audio in flight, each seen by another task.
- *Failure.* Reads fail when the card is pulled out, `malloc` fails, frames
  arrive with parity errors; the code has paths for each, rarely taken.

`PROJECT.json` lists the hazards one by one, with the line where each bites and
the property that would catch it.

## 2. The modules

| Module | Role |
| --- | --- |
| `PlayerService` | what `playback.h` promises: a queue of requests, one song, three phases |
| `Playback` | `playback.c`, step by step; refines `PlayerService` |
| `QueueLemmas` | proved facts about queues of distinct pointers, the places of what waits, and the contents of a queue joined in order |
| `PlaybackProofs` | theorems about `Playback`, the refinement of `PlayerService` included, and about `MediaPlay` |
| `ByteStream` | what `file-stream.h` promises: an open file and a position in it |
| `FileStream` | `file-stream.c`; refines `ByteStream` |
| `FileStreamProofs` | theorems about `FileStream`, the refinement of `ByteStream` included |
| `IbusLine` | what sending on the iBus promises: a queue and a wire |
| `IbusTx` | the sending half of `ibus-physical.c`, with `usart.c` and `pdca.c`; refines `IbusLine` |
| `IbusTxProofs` | theorems about `IbusTx`, the refinement of `IbusLine` included, and about `IbusRx`; `IbusRx` and `MediaPlay` name their state so that they can stand beside `IbusTx` and `Playback` |
| `IbusRx` | the receiving half of `ibus-physical.c` |
| `Dsp` | `dsp.c`, its task and its interrupt |
| `DspProofs` | theorems about `Dsp` |
| `MediaPlay` | the nodes, the file and the status across both players |
| `SdCard` | `block.c` with the interrupt of the card slot, the automount task of `memcard.c` and the lock of `glue.c` |
| `SdCardProofs` | theorems about `SdCard` |
| `UserInterface` | `__process_command` of `ui-t.c` as functions of the state of the interface |
| `RadioInterface` | the tasks of `radio-interface.c` around their message pool; composes `UserInterface` and, as the playback, `PlayerService` |
| `RadioInterfaceProofs` | theorems about `RadioInterface` |
| `CircularBuffer` | `circular-buffer.c` as functions of a ring |
| `Database` | the tree of the database, how it is filled, purged and moved through, with the ring of random songs |
| `History` | what the ring of random songs promises; `Database` refines it |
| `DatabaseProofs` | theorems about `Database`, the refinement of `History` included |
| `MCPlayback`, `MCFileStream`, `MCIbusTx`, `MCIbusRx`, `MCDsp`, `MCMediaPlay`, `MCSdCard`, `MCRadioInterface`, `MCDatabase` | instances for TLC: symmetry sets, the sizes of files, commands and songs, where a configuration needs them |

### Conventions

- A queue of message pointers is a sequence of model values, its length the
  number of buffers. `Init` puts the buffers in the idle queue in some order.
- A blocking receive is a guard: the action is not enabled on an empty queue.
  A send that waits forever is a guard on the room left.
- One action is one step between two points where another task or an interrupt
  can get in: a call of the kernel, or an access to shared memory.
- Local work between two such points, in one task, is one action.
- What is left in a free message is never read again in the code (every user
  overwrites it); the models reset it, so that states differ only in what
  matters.
- A definition and its mutants stand together: a mutant is the same step with a
  plausible mistake, and each property has been seen to fail under one.

### Playback and its service

`Playback` has the state of `playback.c`: `cmd_idle`, `cmd_active`, the contents
of every message (`msg`), the counter `tx_id`; for each caller the point it has
reached in its call (`cpc`), the message in its hands (`hold`), the copy of the
id (`tx_temp`) and what it returned (`ret`); for the task its point (`pc`), the
song (`cur`) and the command being answered (`ctl`). `__tx_id++` is a load and a
store, so that two callers interleave. The poll of the decoder, the absorbed
PAUSE, the blocking peek of a paused song and the nested answer to a command
are actions of their own. The player itself is seen from outside: it polls, and
it ends by itself or after a poll said no. A callback posts into a mailbox of
`HeardMax` places, because that is what `radio-interface.c` does with it, and it
waits there.

`PlayerService` has no buffers: a request is a value, `pending` the queue of
those not yet answered, `song` and `phase` what plays, `heard` the notices. The
refinement keeps a request at the head of `pending` until its callback is
made; the song leaves when its closing notice is given. `owed` is the id a
call is about to return: the caller gets the id of *its* request, although the
message may have been answered and taken by someone else before the call
returns.

### File stream and byte stream

`FileStream` models the task (command, open, read loop, end of the stream) and
the four calls of the decoder. The one command message is a record that says
where it is. Bytes are pairs of a file and a place in it, so an old byte is
never taken for a new one. `CallerRuns` is the priority of main.c: the decoder
runs only while the stream task waits for a queue or for the card. Opening or
reading may fail at any time; `lost` counts the nodes dropped by failed reads,
and `due` where the decoder's releases and skips should have brought it: at
most one past the end (`Forward`), because `media-flac.c:457` skips a length it
took from the file, however large.

`ByteStream` is a file, a position and what the reader looks at. It has two
exceptions. A reader past the end may see some of the last bytes again, fewer
than `Again`, which `FileStream` shows to be the size of the big buffer
(section 5 says why). Once a read has failed a reader may be given less than it
asked for, or see again what it skipped. Either way they are bytes of its file
in their order.

### iBus

`IbusTx` has a sender's three steps, the task's nine (the look at the queue, the
look at CTS, the sleep, the receive, the three calls that start the DMA, the
wait and the outcome), the DMA channel with its transfer and reload slots, the
transfer-complete interrupt and the changes of CTS. Whether the CTS interrupt
is reported depends on whether the CTS bit survives a mask with the interrupt
mask register; the register's layout is a header of the processor vendor that
is not in the repository, so `CtsReported` is a constant and both values are
run.

`IbusRx` has the receive interrupt's bytes, parity errors and the pause that
ends a frame, and the reader's get and release. A byte is its place in the
frame. The static index, status and buffer of the interrupt handler live from
one frame to the next, which is what its properties are about.

The check for room lets one byte too many through, and the model has what that
byte does. A message is its place in `__rx_messages`. The byte behind the buffer
may be padding, the most significant byte of `status` (`top`), or another
variable, as the linker lays them out; then `sane` is false and nothing more is
said. The copy into the message writes the same byte into the status of the
next message (`top` of that one), or behind the last. Which value the byte has
is left open. The processor is big-endian, so that `top` makes any status
unequal to OK.

### DSP

`Dsp` has the requests of the decoder, the task that packs them into output
buffers, the end of the data, and `__dac_buffer_complete` as one action, since
interrupts of the same level do not nest: return the buffer that ended, notice
a change of rate, fill the channel with audio and then silence. A sample is
its number. The DMA channel plays a buffer and holds one in reload.

### Media players

`MediaPlay` follows nodes of samples through a song: allocation, a loan to the DSP
for each frame, the callback, and the receive-and-free loop at the end, for mp3
and flac one after the other on the same queue. What is decoded is the outcome
of each step: sound, no sound, an error, a stop. A node is its address, which
the heap may give out again. The DSP may refuse either player a frame; `doubled`
counts the frames refused to flac, whose nodes are given back twice, and the
properties say what holds until then. What freeing a node twice does to the heap
is not modelled.

### Memory card and block layer

`SdCard` has four actors. The FatFs operation (`opc`) is granted if the volume's
magic number is still the present one, and makes block calls, one step per
queue operation and per access to the DMA, until one fails. The handler
(`hpc`) takes the message with the magic number, makes one turn of the state
machine, and puts the message back only if the number has not changed. The
slot's interrupt (`CardChange`), of a higher level, comes between any two of
these steps. The automount task (`mpc`) looks, mounts and reports. `TasksRun` is
the single processor: a task makes no step while the handler runs or is due.

Of the bytes only one thing is kept: whether the card was set up and in the
slot when the last transfer ended (`heard`). Without it they are all 0xff, which
the state machine reads as no answer, except at the end of a write, where 0xff
means no longer busy. A read is checked by its CRC (`MC_CHECK_CRCS` is 1), a
write is not. The magic number is only ever compared for equality, so it is
two Booleans: `current` for the volume, `bumped` for the handler.

Two assumptions come from outside the code. The sensor of the slot does not
change again before its interrupt is served. `Quiet`: the 250 ms that
`__mc_mount` waits (`memcard.c:444`) are enough for a request of the last card to
end, which takes a few transfers of at most 517 bytes each; only a request
stuck behind a stopped transfer (`Stuck`) may outlast it.

### Radio interface and user interface

`RadioInterface` counts the messages of the pool (`idle`) and keeps the contents of
those queued (`active`). Where the BLU task is in its nested functions is `blu`:
`main`, the two loops of `__transition_db` (`populating`, `purging`), the command loop
(`commands`), the loop without discs (`nodiscs`), and the three points where it
waits for someone else before it goes on (`populate` and `purge` wait for the one
message to the database task, `stop` for a free message of the playback). It
receives a message, processes it and returns it in one action, because nobody
else sees the state in between; where the code leaves a message in its hand or
returns early, so does the action: `NoDiscsLoop` peeks, `PopulatingFailed` does not
give the message back.

The playback is `PlayerService`, whose steps are the action `Play`, with one notice
at a time (`HeardMax` 1), because its callback posts before anything else
happens. What `PlayerService` leaves out is kept here: `Held` counts the messages
of the playback in use, so that `Ask` waits when there is none, and the answered
one becomes free only when the callback is through (`answering`).

`UserInterface` reduces the state of `ui-t.c` to what decides what is asked of the
playback and told to the radio. It is functions of a record, each a row of the
switch in `__process_command`; what `__find_song` may find is a set.

A null pointer handed to the playback ends the model (`crashed`): nothing is said
of what the program does after that.

### Database, circular buffer and history

A node of `Database` is its path. The comparisons of `next_song.c` are on the
position among sorted siblings; the balance of the AVL tree is left to its
library. `AddSong` creates what is missing and may fail for want of memory, in
which case what was created is removed, as in `add_song.c`; a failure at the
artist or the album is a use of a null pointer (`AddSongCrash`). Seeking is
`__find_song`: one level, then the next when the list ends, or the ring of random
songs, which is `CircularBuffer`. `History` says what the ring is for, a stack that
forgets its oldest element.

Three parts act on the tree, and the module has all of them. The database task
(`__dbase_task`) serves one request at a time (`asked`): it purges and fills the
tree, whatever the tree is in use for, and posts its answer (`answers`). Where the
BLU task is in `__transition_db` is `blu`; as in the code, the first loop takes any
answer for its own, may be left before its answer has come, and the loops that
follow drop or act on the answers of requests that were abandoned. The command
loop owns `song`, from its beginning to its end; `database_purge` does not touch
that pointer, and what it pointed to is then `Freed`. A command over a freed song,
or over a tree that is being changed, may go wrong (`Astray`) or find what is in the
tree by then. The messages of the pool that are not answers of the database are
in `RadioInterface`.

## 3. The runs

Every run ends with no error; every property of it has a mutant (a change to one
definition) under which the same run reports that property violated. The type
invariant of a module is a conjunct of the invariant that says where its buffers
are (`OnePlace`, `RxOnePlace`, `NodesOwned`, `NodesKept`, `MsgsKept`) or, in `Database`, of
`SongsInTree`. Section 4 proves all of them.

| Run | Question | Properties |
| --- | --- | --- |
| `playback_pool` | two callers, callbacks, failed allocations, invalid commands: who has each message? | `OnePlace`, `SendsNeverBlock`, `FileOwned` |
| `playback_service` | is it the service `playback.h` describes, and does it make progress? | `ImplementsService`, `CommandsServed`, `SongsClosed` |
| `file_stream_service` | does the decoder read its file, whatever is opened, closed, skipped or fails? | `InOrder`, `BigBufferFits`, `NodesKept`, `CloseStops`, `ImplementsStream`, `CallsReturnUnfailed` |
| `ibus_tx_line` | does each message go out once and in order, and is a wake-up never missed? | `DmaOwned`, `ImplementsLine`, `WakeUpDrains` |
| `ibus_tx_pool` | what if CTS cancels transfers at any point? | `OnePlace`, `ReceiveFinds` |
| `ibus_rx_frames` | is a message marked OK the frame that arrived? | `RxOnePlace`, `OkMeansWhole` |
| `dsp_order` | one rate: is every sample played once and in order? | `AudioInOrder`, `PlayingKept` |
| `dsp_rates` | several rates: is anything lost, or the DMA channel overfilled, or the decoder left waiting? | `PdcaHasRoom`, `OnePlace`, `RequestsReturn` |
| `media_nodes` | is each node with one owner, and does each song leave nothing and return? | `NodesOwned`, `SongLeavesNothing`, `SongReturns` |
| `sd_card` | what if the card goes or comes at any point of a request, an interrupt or a mount? | `OnePlace`, `WriteMeansCard`, `Settled`, `RequestsReturn` |
| `radio_interface` | what if cards, commands, time-outs and answers meet in any order: is a message lost, is the database there, does music stop, does the radio know? | `MsgsKept`, `SongsThere`, `SilentWithoutCard`, `StatusTells`, `RemovalSeen` |
| `database_browse` | is every song reached in order, whatever was short of memory, and does going back lead back? | `SongsInTree`, `NoneDangling`, `NextIsSuccessor`, `KeepsHistory` |

### Bounds, and why they are enough

- *Playback*: the source has ten messages; the runs have three for two callers
  and two for one. Three is enough for each party to hold one and for a queue
  to hold another; with two and one caller, requests wait behind the song and
  behind each other. The proofs remove the bound. Ids are modulo 1 where only
  places matter and modulo 2 where ids are compared, so that they wrap. The
  mailbox has one place: a callback that has to wait is the interesting case.
- *File stream*: a small buffer of two bytes, requests up to three, files of
  different lengths: an empty one, one within a node and one of several nodes
  with a short last one (`Sizes` in `MCFileStream`). Three nodes make the task
  run ahead of the decoder, wait for a free node, and lose all of them to
  failed reads.
- *iBus*: three buffers, two senders, two payloads that can be told apart. The
  wire remembers the last message and the parity of its number, enough for the
  refinement to notice a message sent twice or not at all.
- *Receive*: two messages, so that one has a neighbour and one is the last; a
  buffer of three bytes, frames of up to five: one that fits, one that hits the
  limit exactly, one past it and one further.
- *DSP*: buffers of two samples, requests of one and three, so that requests
  end inside buffers and buffers inside requests. `TagMod` exceeds the samples
  that can be under way, so numbers do not repeat among them. Two rates make
  every change possible.
- *Media*: three nodes a song of a heap of four, files of up to four buffers:
  enough to take every node, lend it, and reuse its address in the next song,
  and to play a song after one that was short of memory and left one behind. The
  DSP refuses flac one frame (`DoublesMax`), mp3 any: after the first node that was
  given back twice, the properties except what depends on it.
- *Radio interface*: three messages of twenty, two of the playback of ten, one
  failed populate. Three are enough for the iBus task to hold one, the database
  task another and the callback to wait for the third; with fewer free messages
  than tasks that want one, every wait the code contains is taken. The radio
  says play, the poll task stop; together with the statuses of the playback
  these reach each kind of request. The proofs below hold for any pools and any
  commands, `StatusTells` for any but SEEK, with which it is false (section 5).
- *Database*: five songs, an artist with two albums and one with one, so that a
  list ends at each level with and without a neighbour above. Three remembered
  songs of a hundred fill and empty the ring. Two messages for answers: one
  stale answer can be queued while the next is due.
- *Card*: one message, as in the code; two transfers without an answer before a
  time-out, so that the counter is used and runs out. The DMA channel holds
  two transfers. Removals and insertions are unlimited.

### Fairness

- Weak fairness of a task's steps: FreeRTOS schedules a ready task of the
  highest priority, shares time among equals, and every higher task blocks
  again (the stream task on its nodes, the DSP on its buffers).
- Weak fairness of a call once begun: it is code of a scheduled task. Nothing
  is assumed about whether a caller ever calls.
- `SongEnds` (playback) is weakly fair because files are finite and decoding
  them is a loop over the file; without it a song could last forever.
- `Listen` is weakly fair: the radio interface reads its queue.
- `Transfer` (iBus) is strongly fair: the line may be busy again and again, but
  a transfer that has been started gets through when it is clear often enough.
- `FileStream`'s reads answer: FatFs and the block layer return, with success
  or failure. For the block layer that is `RequestsReturn` of `SdCard`.
- In `SdCard` a block call, the handler and a transfer go on. A transfer queued
  behind one that was stopped is excepted: its missing bytes may never come.
- In `Dsp` the DAC plays and its interrupt is taken: the hardware clock does
  not stop.
- In `RadioInterface` the BLU task, the playback and the database task run (weak
  fairness). A task that waits for a message of a pool gets one when messages
  come back again and again (strong fairness of `DbaseTake` and `PlaybackCb`):
  the waiters of a FreeRTOS queue are served by priority and then in the order
  they came, and those here have one priority. Nothing is assumed of the radio
  or of the card.
- Deadlock is checked wherever the system cannot stop. It is not in
  `playback_pool` (invalid commands can use up the pool), `file_stream_service`
  (failed reads use up the nodes), `media_nodes` (a heap that refuses nodes),
  `radio_interface` (a null pointer, or the mutual wait that `RemovalSeen` excepts),
  `ibus_rx_frames` (a byte written over a variable, after which nothing is said)
  nor in `database_browse` (a null or freed pointer).

## 4. What is proved

`PlaybackProofs` proves, for every finite pool of messages, any number of callers,
any width of the id and any capacity of the listener's mailbox:

- `TypeCorrect`: `Spec => []TypeOK`;
- `PoolConserved`: `Spec => []OnePlace`, every message in exactly one place;
- `NoSendBlocks`: `Spec => []SendsNeverBlock`, so the waits for room in
  `playback.c` are never taken, at whatever size of the pool.

The assumptions are those `Playback` declares: a finite pool without `Nil`,
commands and callback choices from their types, a positive modulus, a mailbox
with at least one place, and a `Nil` that is no request and no id. TLC evaluates
them in each run.

The inductive invariant is `TypeOK /\ OnePlace /\ Roles`. `OnePlace` alone is not
inductive: when the task answers, it gives back `cur` or `ctl`, and nothing in
`OnePlace` says that there *is* a message to give back, or that a paused song
still holds its own. `Roles` ties the point the task has reached to what it
holds, and a caller at work to the message in its hand. `OnePlace` then reduces
to five moves of a message: taken from the idle queue by a caller, lost from
it, handed to the active queue, received by the task, and returned; each has a
lemma (`TakePool`, `LeakPool`, `HandPool`, `ReceivePool`, `ReturnPool`). `NoSendBlocks`
follows from `OnePlace`: a queue of distinct messages that lacks one of the pool
is shorter than the pool (`RoomLemma`).

`QueueLemmas` is independent of playback: receiving from and appending to an
injective sequence, and the length of one. The other components keep their
pools the same way and their proofs rest on the same lemmas.

`SdCardProofs` proves, for any patience `NacMax` with a card that does not answer:

- `TypeCorrect`: `Spec => []TypeOK`;
- `MessageKept`: `Spec => []OnePlace`, the one message is in one queue, with the
  caller or with the handler, however removals come; so no request is answered
  twice and no queue of one place overflows;
- `StatusSettled`: `Spec => []Settled`.

`OnePlace` is inductive with the types: each step moves the message from where
it has just been found. What matters is that `block_isr_cancel` takes only what
is in the pending queue, so it cannot answer for the handler. `Settled` speaks
only of the moments when the automount task waits; `Seen` extends it to each
point of its loop (what it has seen of the card still holds unless the
semaphore has been given again), and is what makes it inductive.

`RadioInterfaceProofs` proves, for any number of messages of the radio interface
and of the playback, any commands and any number of failed populates:

- `PoolConserved`: `Spec => []MsgsKept`, every message is free, queued or with the
  one task that will post it, and only a failed populate loses one;
- `NothingPlaysUnasked`: `Spec => []SilentWithoutCard`, outside the command loop
  the playback is idle, or a request to stop is the last it has been given;
- `CommandsHaveSongs`: `Spec => []SongsThere`, the command loop runs over a
  populated database unless an answer is due that will end it.

`MsgsKept` is inductive as it stands: it holds the types of all variables and the
sum, and each step moves one message between two places of the sum.
`SilentWithoutCard` is inductive with the types: a step of the playback takes the
first request and leaves the last, so it keeps "a stop comes last" until it
obeys that stop and has no song (`ServeSilent`), and the BLU task asks for nothing
else outside the command loop. `SongsThere` is not inductive: the answer that
begins the command loop was posted earlier, and the database may have been
purged since. `LastAnswerTrue` closes the gap: of the answers in the queue the
last one, if it says populated, is true unless the database task is at work
again; an earlier one is followed by another answer, which ends the loop it
begins.

The last invariants of these three components:

- `NamesOwned` (`PlaybackProofs`): `Spec => []FileOwned`, the name that a PLAY
  allocates is freed once. `FileOwned` is inductive with `IInv`: the only step
  that frees is the close of the song, and `Roles` says that the song closed is
  the one whose message the task holds.
- `WritesHaveCard` (`SdCardProofs`): `Spec => []WriteMeansCard`. The invariant is
  `WInv`. `Channel` relates the DMA to the handler; `Fresh` says that what the last
  transfer heard was the card now in the slot, unless the handler is about to
  find that it was changed; `Writing` follows a write through its states; and
  `Stray` covers what a cancelled request leaves in the channel: no card is
  initialised before all of it is gone. Here the assumption `Quiet` is used.
- `PlayingIsTold` (`RadioInterfaceProofs`): `"SEEK" \notin Commands => (Spec =>
  []StatusTells)`. What is told depends on notices and statuses in two queues.
  `Told` says that the last of them on its way is PLAYING, or that there is none
  and the interface has been told; `Selected`, that a song is selected when
  anything plays. The hypothesis is not a convenience: a seek breaks `Selected`
  and TLC then finds `StatusTells` false (section 5).

Under the same assumptions as its other theorems, `PlaybackProofs` also proves

- `ServiceStepsImplemented`: `Spec => Service!Spec`, every step of the callers, the
  task and the listener is a step of `PlayerService` or a stutter. Requests are
  answered in the order they were sent and with their own id, and each song is
  closed once. This is all of `ImplementsService` but the fairness of its
  right side.

`SInv` adds two parts to `IInv`. The task looks at a command and acts on it some
steps later, in other states of the queue and the pool; `Said` says that what it
has seen still holds when it acts (a paused song is left for a command that is
no RESUME, an absorbed PAUSE is a PAUSE). `Loaded` says that the id in a message
about to be sent is the one the call will return, although `tx_id` itself may
have been stored by another caller meanwhile. Both rest on `CallersWrite`: a
caller writes only into its own message or an idle one. The refinement then
goes by what the service sees: receiving, looking and giving back a message are
stutters (`LooksRefine`, `ReturnRefines`), a send is a submission, each callback is
the service's answer to its oldest request or the end of its song.

`IbusTxProofs` proves, for any pool, any senders and payloads:

- `PoolConserved`: `Spec => []OnePlace`, and `ReceiveFindsOne`: `Spec =>
  []ReceiveFinds`, whether changes of CTS are reported or not;
- `DmaOwnedByTask`: `~CtsReported => (Spec => []DmaOwned)`;
- `LineImplemented`: `~CtsReported => (Spec => ImplementsLine)`, every step of the
  senders, the task, the interrupts and the channel is a step of `IbusLine` or
  a stutter.

`Pool` says of each sender and of the task what it holds at each point of its
code, and is inductive alone. `DmaRoles` adds what the channel holds at each
point of the task: nothing until it queues its buffer, then that buffer alone,
until the transfer complete interrupt has given `tx_done`. For the refinement
the abstract queue is the message of the task, if it is not out yet, followed
by `tx_pending`, read through `payload` (`Contents`); a sender that fills a free
buffer does not change it, because the buffer is not among them. Both theorems
are false when changes of CTS are reported (section 5).

`FileStreamProofs` proves, for any files and sizes, any number of nodes, any
requests and skips, with reads that fail or not:

- `NodesNeverLeak` (`NodesKept`), `BigBufferHolds` (`BigBufferFits`),
  `CloseLeavesNothing` (`CloseStops`) and `BytesInOrder` (`InOrder`), the last
  with skips of any length, past the end of the file or not;
- `StreamImplemented`: `None \notin Seq(Octets) => (Spec => ImplementsStream)`. The
  hypothesis says that the value that stands for no view is not a view.

The invariant `IInv` has a part for the task (`TaskStage`), for the handshake of
opening and closing (`CallStage`: where the one command message is at each step
of a call, and what the task may then be doing), for the call (`Wanted`), for
the node marked last (`LastOnes`), and `Placed`: there is a place in the file from
which the big buffer, the queued nodes and what the task has yet to read follow
one another. `InOrder` is not inductive because it says nothing of the file
while a close or an open is under way, when data of the old file is still in the
queue. `Reached` relates that place to the decoder's: the place and what a skip has
still to pass are `due` while `due` is in the file; past the end, fewer bytes than
the big buffer are left before the end, or the skip still goes past it. `InOrder`
and the refinement state the same exception: a skip past the end may leave some
of the last bytes. None of these proofs uses `CallerRuns`: the order of the bytes does not
depend on the priorities of `main.c`. That no call is stuck does (below).

`DspProofs` proves, for any numbers of requests and buffers, any size of a
buffer, and at least two silent buffers:

- `BuffersConserved`: `Spec => []OnePlace`, and `ChannelHasRoom`: `Spec =>
  []PdcaHasRoom`, across any changes of rate;
- `PlayingBuffersKept`: `Rates = {FirstRate} => (Spec => []PlayingKept)`;
- `AudioPlaysInOrder`: `Rates = {FirstRate} => (Spec => []AudioInOrder)`.

`Sound` has the places of requests and buffers, the roles of the task, and
`Channel`: once the DAC has been given something, `output_active` holds exactly
two, which is why what the interrupt adds fits. It needs the two silent buffers
of `SilenceAssumption`, as `dsp.c` has (`DSP_SILENCE_MSG_MAX`). `Follows` says that
the DMA channel holds what `output_active` ends with, which the bubble of a
change of rate destroys: with two rates TLC finds `PlayingKept` and `AudioInOrder` false (section 5). For the
order of the samples, what is under way is written as one line: what plays,
waits, is being filled, of the request in hand, and of those queued. Each step
moves a cut of that line or adds new samples at its end; the interrupt, which
moves up to two buffers and silences between queues, is shown in two halves, to
return the finished buffer and to refill.

`DatabaseProofs` proves, for any set of files and any length of the queue of
random songs, whatever allocations fail:

- `NodesLeadToSongs`: `Spec => []SongsInTree`, and `PointersLive`: `Spec =>
  []NoneDangling`;
- `NextGoesOn`: `Spec => NextIsSuccessor`, next visits the songs of any card in
  their order and wraps around;
- `HistoryKept`: `Spec => KeepsHistory`, the ring of random songs implements
  `History`.

`SongsInTree` alone is not inductive: it says that there is a way down from each
node, and not that nothing else is in the tree. `Tree` says what the code's
recursive additions amount to: the tree is exactly the paths to its songs, so
an artist exists if and only if one of its songs does. `add_song.c` keeps this
because it frees what it has added when a later allocation fails. That the ring
points into the tree is inductive alone, since the purge clears it. For the
selected song, `LinksInv` follows the requests: a purge is asked for and waited
for outside the command loop, and its answer is the last there is. So what can
come under a running command loop is only a populate, the one whose place a
stale answer took; `SongInv` says that a song it freed implies that its answer is
still due, and that answer ends the loop. The exception of `NoneDangling` is
exactly that time. For `NextGoesOn`, a finite set of siblings has a first
member, a last and, above any but the last, a next (from the finiteness of
`Files`); the song that `next_song` finds is then the successor at the level where
there is one, and the first song below it. For `HistoryKept`, a push is to append
to the elements of the ring and keep the last `QueuedMax`, a pop is to drop the
newest, slot by slot through the wrap of the indices (`SlotLemma`, `MoreLemma`,
`FullLemma`).

The two smaller components are proved in the modules of their neighbours, from
the assumptions of their own modules:

- `FramesConserved` (`RxOnePlace`) and `OkIsWhole` (`OkMeansWhole`) in
  `IbusTxProofs`, for any pool, any size of the buffer and any length of frames.
  `OkMeansWhole` speaks of messages that are queued; `Honest` says the same of
  every message and of the frame that is still arriving. What makes it
  inductive is `i <= arrived`: when the buffer overflows, more bytes have come
  than it holds, so the frame really does not fit. `Behind` says of a message with
  a damaged status that the one before it in memory was queued after it, so that
  it is still there when the damaged one is read. Both theorems say nothing once
  `sane` is false.
- `NodeHasOneOwner` and `NothingLeftBehind` in `PlaybackProofs`, for any nodes,
  players and lengths of songs: `SongSpec => []SongLeavesNothing`. `NodesApart`
  splits the nodes by owner, and `CountAt` counts them at each point of the song:
  that the receive-and-free loop gets as many nodes as were allocated is what
  leaves nothing. Nothing is assumed of what the DSP refuses; the invariant keeps
  the count until a node has been given back twice or the heap has refused one
  (`Whole`), and the owners until the former (`Kept`), which is what the two
  properties say. `NodeHasOneOwner` is `NodesOwned` for a queue that can hold the
  heap (`HeapFits`, as in the run), or for any heap until it has refused a node.

What a queue of blocks holds, read in order, is `FlattenSeq`, which the community
modules define by a recursion. The lemmas about it in `QueueLemmas` (`JoinsExist`,
`JoinStep`, `FlattenAppend`, `FlattenTail`, `JoinedConcat`) are by the least number for
which a claim fails, since an induction over data cannot be instantiated here.

### What the liveness properties rest on

Fairness is out of the prover's reach. What a proof of liveness says before
fairness is used is not: that whenever something is owed somebody can take a
step for it (no state in which everyone waits), and that each such step brings
it nearer, by a number that no step of anyone else makes larger. These
theorems say so of what the runs check under fairness, for every value of the
constants.

| Checked by TLC | Somebody can go on | Each step brings it nearer |
| --- | --- | --- |
| `CommandsServed`, `SongsClosed` | `CommandsGoOn` | `CommandsGetNearer` |
| `SongReturns` | `NodesComeBack` | `SongsEnd` |
| `CallsReturnUnfailed` | `CallsGoOn` | `CallsGetNearer` |
| `RequestsReturn` of `SdCard` | `RequestsGoOn` | `RequestsGetNearer` |
| `RequestsReturn` of `Dsp` | `ChannelHasRoom` | `RequestsGetDone`, `BuffersComeBack` |
| `WakeUpDrains` | `WakeUpsAreKept`, `MessagesGoOn` | `MessagesGetNearer` |
| `RemovalSeen` | `OnlyMutualWait` | (`RemovalNotMissed`) |

- *Playback.* `CommandsGoOn`: while a command waits, the task can take its step or
  the owner of the callback has a notice to take; it uses `NoSendBlocks` where a
  message is given back. `CommandsGetNearer`: the task peeks, absorbs, answers and
  closes in a fixed order, and each step of it or of the decoder moves it on;
  `StepsBefore` counts by the place of the command in the queue (`MovesLemma` of
  `QueueLemmas`: a receive moves everyone one place up, a send nobody).
- *Players.* `NodesComeBack`: a player that waits for a node waits for one that the
  DSP has, also in the receive-and-free loop, which counts. The exception is a
  heap that refused a node (section 5). A node that is given back twice is one
  more in the queue, never one less (`Enough`). `SongsEnd` needs no exception: a
  song that goes on gets nearer to its end.
- *File stream.* `CallsGoOn`: unless a read has failed, a caller inside a call can
  go on, or the task can, although the caller runs only while the task waits.
  The invariants it adds are `Comes`, what the caller waits for is still to come,
  and `Room`, the queue has a place for the node that a close waits behind. After
  a failed read it is false (section 5). `CallsGetNearer` holds also then, and for
  every step of anyone: while a caller is inside, nothing goes in circles.
- *Block layer.* `RequestsGoOn`: a request without an answer is with the caller, the
  handler or a transfer that will raise the interrupt; a card that goes turns it
  into an answer (`OnItsWay`). A transfer behind one that was stopped counts as one
  that can go on (`leftover`): the theorem says that nothing else is in the way.
  `RequestsGetNearer`: `NacMax` and the turns of the state machine bound the steps,
  and no removal, insertion or mount adds one.
- *DSP.* The task waits only for an output buffer. `BuffersComeBack`, for at least
  one buffer: the first buffer of samples, in `output_active` or queued, comes one
  interrupt nearer with each, and a change of rate costs two interrupts, once:
  `RateKnown` says that the rate changed to is that of the buffer that comes next,
  so that the next interrupt does not change it again. The interrupt never finds
  the channel full (`ChannelHasRoom`).
- *iBus.* `WakeUpsAreKept`: from any moment at which no waiting message is
  forgotten none is, while the line stays clear. The look at the queue and the
  sleep are two steps, and so are the send and its wake-up, but the semaphore
  remembers. A message that found the line not clear may be forgotten (section
  5), which is why this is not an invariant. `MessagesGoOn` and
  `MessagesGetNearer` hold while no change of CTS is reported; when they are, a
  transfer cancelled before it has begun may leave its buffer in the reload slot
  only, and the wait for its end has none.
- *Radio interface.* `RemovalNotMissed`: once the card is gone, the BLU task is in
  the main loop, or on its way there through the stop and the purge, whose
  answer is due (`PurgeDue`), or the message that says REMOVED is before it. It
  rests on `CardTold`: the last status in the queue is the card's, and with none
  there the task is busy with discs only if the card is mounted. That is not
  obvious, since each of the four loops drops messages that another acts on.
  `OnlyMutualWait`, for at least two messages of the playback: `MutualWait` is the
  only state in which the BLU task waits, outside its queue, for tasks none of
  which can go on. A number is missing here: it has to count what the queue
  holds.

### What is only model-checked

- Liveness under fairness and `ENABLED` are out of the prover's reach: all
  properties with `~>`, `RemovalSeen`, and the fairness of `PlayerService` in
  `ImplementsService` (its safety part is `ServiceStepsImplemented`). "Can go on" is
  therefore written out as a predicate (`TaskCan`, `CanGoOn`, `CallCan`, ...). That
  such a predicate means that the action is enabled is read off the action, and
  was tried with TLC on the instances of the runs; it is not proved. What a
  proof of liveness has left is that, fairness, and the induction over the
  number.
- `DmaOwned` and the refinement of `IbusLine` when changes of CTS are reported,
  `PlayingKept` and `AudioInOrder` at several rates, and `StatusTells` with SEEK
  are not proved because they are false there (section 5). The exceptions that
  `InOrder`, `OkMeansWhole`, `NodesOwned`, `SongLeavesNothing`, `NoneDangling` and
  `SongsThere` state are states the code reaches; TLC finds each property false
  without its exception.

## 5. What the checks found

Observed while modelling, and part of the modelled behaviour.

File stream, DSP, iBus, players and card:

- A failed or short read ends the stream without a node marked last, and drops
  the node. A decoder already in the blocking receive of `fstream_get_buffer`
  (`file-stream.c:212`) waits forever, although `file-stream.h:57` promises "NULL on
  error"; `CallsReturnUnfailed` excepts it. After as many failures as there are
  nodes, the task itself waits for a node and the next close waits for the task.
- A change of sample rate inserts a silent buffer in `output_active` that the DMA
  channel never plays. From then on the interrupt frees the buffer that has
  just started rather than the one that ended (`dsp.c:304`), and the task may fill
  a buffer while it plays. `PlayingKept` and `AudioInOrder` are therefore checked,
  and proved, at one rate; with two, TLC finds both false.
- `fstream_skip` past the end of the file releases what it asked for rather than
  what it got; the release is too large and is ignored, so the skipped bytes
  are delivered afterwards (`file-stream.c:269` and 239). `media-flac.c:457` skips
  the length of a block as the file states it (line 444). `InOrder` and `ByteStream`
  state it as an exception: bytes of the end of the file, fewer than the big
  buffer holds.
- `fstream_get_filesize` returns a variable that is never assigned, 0
  (`file-stream.c:314`); `media-flac.c:194` uses it.
- The CTS handler is called with an argument that is always false, so a line
  that becomes clear wakes nobody: a message that had to wait goes out at the
  next send (`usart.c:365`).
- If changes of CTS are reported, one that comes between the look at CTS and
  the start of the transfer gives `tx_done` for a transfer that has not begun
  (`ibus-physical.c:289` to 302). The task takes the message for not sent and queues
  it again while the DMA reads it: with `CtsReported = TRUE` in `IbusTx_line.cfg` TLC
  reports `DmaOwned` violated. Buffers survive it (`ibus_tx_pool`).
- The check for room in the receive buffer lets one byte too many through
  (`ibus-physical.c:347`): for a frame of 65 bytes line 352 writes behind the
  buffer, and the copy at line 337 over the status of the next message. If that
  one is queued, a frame that arrived whole is read as damaged; the long frame is
  read as OK with a size of 65. `OkMeansWhole` states both.
- The callback of `dsp_data_complete` comes when the last buffer is queued, not
  when it has been played (`dsp.c:278`).
- When `malloc` fails the players wait for as many nodes as were *not*
  allocated (`media-mp3.c:117`, `media-flac.c:177`): `SongLeavesNothing` and
  `SongReturns` therefore except a starved heap. The nodes left in the queue by
  such a song are taken and freed in the next one, which may then end while the
  DSP still has one of its own. If enough are left to fill the queue, a node
  that is given back is dropped, since that send does not wait; with a heap
  larger than `IDLE_QUEUE_SIZE` TLC finds `NodesOwned` false.
- A flac frame the DSP refuses (an unsupported rate) puts its node in the idle
  queue twice, because `play_song` keeps it in `node` and gives it back again at
  the end (`media-flac.c:690` and `702`); the next song may then write a node the
  DSP still plays. `NodesOwned` and `SongLeavesNothing` hold until then (`doubled`);
  without that exception TLC reports both violated.
- `__block_isr_disable_transfer` stops a transfer without clearing its count,
  unlike `pdca_disable` (`block.c:601`). It happens when the slot's interrupt
  comes in the turn of the handler that has just started the next transfer. The
  next request is then queued behind the rest of the old transfer, whose bytes
  do not match what is sent, and may wait for its end forever; `RequestsReturn`
  excepts it (`leftover`). The comment at line 588 says "cancel it".
- `block_isr_cancel` turns off the interrupt but not the transfer, although its
  comment says "cancel it" (`block.c:301`); if the request was about to start
  the DMA, it turns the interrupt on again after its message was answered. The
  handler then finds nothing pending, which is harmless.
- In `__mc_mount` the way to an MMC card is never taken: the state set at line
  539 is overwritten at line 544. `MC_UNUSABLE` is never returned, so the test at
  `memcard.c:387` is never true.
- An invalid command costs playback a message for good (`playback.c:192`); no
  caller sends one.

Radio interface and user interface:

- A populate that fails leaves `__transition_db` without giving its message back
  (`radio-interface.c:607`). Each failure costs one of the twenty; after nineteen,
  the iBus task holds the last one while it waits for a command, and the
  database task waits for a message as long as the radio is silent.
- The comment at line 559 says "When this functions returns, the database has
  been purged". The two early returns (lines 607 and 612) neither purge nor wait
  for the answer that is due.
- Any message of a kind the first loop of `__transition_db` does not expect, a
  playback status of the previous card for one, ends it (line 612): the changer
  goes on as if the card had been removed, with the card in the slot.
- The answer of a request abandoned in this way is taken for the answer of the
  next one: the command loop then runs while the database task purges and
  populates the tree. It ends when the second answer arrives; until then songs
  are looked for in a tree that is being changed, and the selected song is one
  that was freed. `SongsThere` and, of the pointer, `NoneDangling` of `Database`
  except the time in which an answer is due.
- While the database is purged every message is dropped (line 640), a status of
  the card included: a card inserted and mounted in that time is not noticed
  until it changes again.
- The callback of the playback waits for a free message (line 549) while the BLU
  task, which frees them, may wait for a message of the playback. With every
  message of both pools in use both wait forever (`MutualWait`); `RemovalSeen`
  excepts it. The comment at `ui-t.c:387`, "Without this we seem to deadlock",
  may speak of it.
- A command to stop that arrives before the notice that the song plays is not
  passed on, because the status told to the radio is still STOPPED; the next
  ones are not either, because the last command was a stop. The song plays until
  the radio says something else.
- A pause that the playback receives when its song has just ended is refused;
  the error is taken for the end of a song and the next song plays.
- In random play a seek that finds no song leaves none selected while the
  last one plays. A command to stop then sets the status to STOPPED without
  passing it on (`ui-t.c:226` to 228): the radio is told that it stands still and
  the song goes on. With SEEK among the `Commands` TLC finds `StatusTells` false.
- PLAY or SEEK_ALT with no song selected, in an empty database or after a random
  pick that found none, hands a null pointer to `ri_playback_play`.
- CHANGE_DISC reports PLAYING whatever the playback does.
- The poll task looks at the device status and sets it in two steps
  (`radio-interface.c:238`); a status set between them is overwritten. The device
  status is not modelled.

Database:

- `database.h` (line 104) says that `next_song( NULL, DT_PREVIOUS, DL_SONG )` gives
  the first song of the first album; the code gives the last song of that album.
- `random_number_in_range` may return one more than the last song's number, which
  finds no song.
- The first song played at random is not remembered, so that going back does not
  return to it.
- In `add_song_to_root` a failure to create the artist, or the album of an artist
  that was there, uses a null pointer: the flag that says the parent is to be
  removed is set before the result is looked at.

## 6. What is not modelled, and the plan

The modules above are the path of the audio, the card under it, the wire to the
car, and the two state machines that decide what plays. What could be added, in
this order:

1. `Display`: the text under its mutex, `handle_display_update` that reads it
   without, and the name of a song that the display still shows when the
   database has been purged.
2. `SystemLog`, `DeviceStatus` with the LED task: tasks that wait for messages they
   must free, and a status that is looked at and set in two steps.
3. Pure algorithms against reference definitions: the differences of
   `system-time.c` modulo 2^32, the message converter and the track numbers of
   the radio protocol, the rotations of `binary-tree-avl.c`.

Each new run has to earn its place: runs that refine an abstract specification
come before runs of single invariants, and a component's instances share a run
where their bounds allow it.

Every invariant and every refinement that a run checks has a theorem, of
`ImplementsService` all but its fairness, and behind each property of liveness
there are theorems (section 4). Proofs to add: the number that `RemovalSeen`
needs, which counts what the queue of twenty may still hold; then the
invariants of the modules listed above.

Left out of the modelled components: in the radio interface the frames sent to
the radio, the LED and the track numbers; in the user interface the texts, the
scan mode and the restart; in the database the walk through the directories and
the balance of the trees; in the players what is decoded.

Left out for good: the decoders, FatFs, newlib and the kernel (third-party);
registers (the processor's manual is their specification); the boot loader,
desktop tools and test programs; wording and layout of logs; scaling and
dithering of samples; failure of the `*_init` functions, whose result main.c
does not use.
