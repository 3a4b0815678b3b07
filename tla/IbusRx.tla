------------------------------- MODULE IbusRx -------------------------------
(***************************************************************************)
(* src/library/ibus-physical/src/ibus-physical.c, the receiving half:      *)
(* __get_char_isr collects the bytes of a frame in a static buffer and, on *)
(* the pause that ends the frame, copies them to a message of a fixed pool *)
(* and queues it for ibus_physical_get_message; no free message, no frame. *)
(* The reader is the ibus task (irp_get_message): get, convert, release.   *)
(* Names that IbusTx has too begin with Rx.                                *)
(***************************************************************************)
EXTENDS Integers, Sequences, SequencesExt

CONSTANTS
  IBUS_PHYSICAL_RX_MSG_MAX, (* the messages of __rx_messages                *)
  IBUS_MAX_MESSAGE_SIZE,    (* the bytes of the buffer and of a message     *)
  FrameMax,      (* the longest frame the other modules of the car send     *)
  NoMsg

(* A message is its place in __rx_messages: m + 1 is next to m in memory.  *)
RxMsgs == 1 .. IBUS_PHYSICAL_RX_MSG_MAX

ASSUME RxPoolAssumption == IBUS_PHYSICAL_RX_MSG_MAX \in Nat \ {0} /\ NoMsg \notin RxMsgs
ASSUME SizeAssumption == IBUS_MAX_MESSAGE_SIZE \in Nat \ {0} /\ FrameMax \in Nat \ {0}

VARIABLES
  rx_idle, rx_pending, (* the queues of messages                            *)
  msg,                 (* what is in each message, and of which frame       *)
  i, status, top,      (* static in __get_char_isr; top: something was      *)
                       (* written into the most significant byte of status  *)
  buffer,              (* its static buffer: the places in the frame of the *)
                       (* bytes it holds                                    *)
  arrived, garbled,    (* the frame on the wire so far: its bytes, and      *)
                       (* whether one had a parity error                    *)
  reading,             (* the message the reader has, or NoMsg              *)
  sane                 (* no byte has been written over a variable that     *)
                       (* nothing can be said about afterwards              *)

frameVars == <<i, status, top, buffer, arrived, garbled>>
rxVars == <<rx_idle, rx_pending, msg, frameVars, reading, sane>>

Empty == [status |-> "OK", top |-> FALSE, size |-> 0, data |-> <<>>, arrived |-> 0,
          garbled |-> FALSE]

RxInit ==
  /\ rx_idle = [m \in RxMsgs |-> m] /\ rx_pending = <<>>
  /\ msg = [m \in RxMsgs |-> Empty]
  /\ i = 0 /\ status = "OK" /\ top = FALSE /\ buffer = <<>>
  /\ arrived = 0 /\ garbled = FALSE
  /\ reading = NoMsg /\ sane = TRUE

(* The check for room lets one byte too many through: for i at the size of *)
(* the buffer the byte is written behind it.                               *)
Overrun == IBUS_MAX_MESSAGE_SIZE < i
Full == i = IBUS_MAX_MESSAGE_SIZE
OneTooMany == i = IBUS_MAX_MESSAGE_SIZE + 1

(* A byte that has room; or the one behind the buffer, where the linker    *)
(* may have put nothing, status, or a variable without which nothing works *)
(* (i, a queue's handle).  Of the word that status is it is the most       *)
(* significant byte.  After that one the frame is marked, and what is left *)
(* of it overwrites its beginning.                                         *)
Char ==
  /\ arrived < FrameMax
  /\ arrived' = arrived + 1
  /\ \/ ~Full /\ ~Overrun /\ i' = i + 1 /\ buffer' = Append(buffer, arrived + 1)
        /\ UNCHANGED <<status, top, sane>>
     \/ Full /\ i' = i + 1 /\ top' \in BOOLEAN /\ sane' \in BOOLEAN
        /\ UNCHANGED <<status, buffer>>
     \/ Overrun /\ status' = "BUFFER_OVERRUN_ERROR" /\ top' = FALSE
        /\ i' = 1 /\ buffer' = <<arrived + 1>> /\ UNCHANGED sane
  /\ UNCHANGED <<rx_idle, rx_pending, msg, garbled, reading>>

(* A byte with a parity error is dropped and the frame is marked.          *)
ParityError ==
  /\ arrived < FrameMax
  /\ arrived' = arrived + 1 /\ garbled' = TRUE
  /\ status' = "PARITY_ERROR" /\ top' = FALSE
  /\ UNCHANGED <<rx_idle, rx_pending, msg, i, buffer, reading, sane>>

(* The state of the frame is reset also when the frame was dropped; the    *)
(* mutant forgets the status.                                              *)
ResetIndex == i' = 0 /\ buffer' = <<>> /\ UNCHANGED <<status, top>>
Reset == i' = 0 /\ status' = "OK" /\ top' = FALSE /\ buffer' = <<>>

Received == [status |-> status, top |-> top, size |-> i, data |-> buffer,
             arrived |-> arrived, garbled |-> garbled]

(* The copy of a frame into the message h.  One byte too many falls on the *)
(* status of the message behind it, of which it is the most significant    *)
(* byte; it may be zero or not.  Behind the last message is another        *)
(* variable.                                                               *)
CopyTo(h) ==
  /\ \E byte \in BOOLEAN :
       msg' = [m \in RxMsgs |->
                IF m = h THEN Received
                ELSE IF m = h + 1 /\ OneTooMany THEN [msg[m] EXCEPT !.top = byte]
                ELSE msg[m]]
  /\ IF OneTooMany /\ h = IBUS_PHYSICAL_RX_MSG_MAX THEN sane' \in BOOLEAN ELSE UNCHANGED sane

(* The pause after the last byte: the frame becomes a message.             *)
Timeout ==
  /\ arrived > 0
  /\ IF rx_idle = <<>> THEN UNCHANGED <<rx_idle, rx_pending, msg, sane>>
     ELSE /\ CopyTo(Head(rx_idle))
          /\ rx_pending' = Append(rx_pending, Head(rx_idle))
          /\ rx_idle' = Tail(rx_idle)
  /\ Reset
  /\ arrived' = 0 /\ garbled' = FALSE
  /\ UNCHANGED reading

GetMessage ==
  /\ reading = NoMsg /\ rx_pending # <<>>
  /\ reading' = Head(rx_pending) /\ rx_pending' = Tail(rx_pending)
  /\ UNCHANGED <<rx_idle, msg, frameVars, sane>>

(* Mutant: the message is put back in the queue it came from.              *)
ReleaseToPending ==
  /\ reading # NoMsg
  /\ rx_pending' = Append(rx_pending, reading) /\ UNCHANGED <<rx_idle, reading>>
  /\ UNCHANGED <<msg, frameVars, sane>>

(* What a free message still holds is not read again, and is forgotten.    *)
ReleaseMessage ==
  /\ reading # NoMsg /\ Len(rx_idle) < IBUS_PHYSICAL_RX_MSG_MAX
  /\ rx_idle' = Append(rx_idle, reading) /\ reading' = NoMsg
  /\ msg' = [msg EXCEPT ![reading] = Empty]
  /\ UNCHANGED <<rx_pending, frameVars, sane>>

RxNext == sane /\ (Char \/ ParityError \/ Timeout \/ GetMessage \/ ReleaseMessage)

RxSpec == RxInit /\ [][RxNext]_rxVars

-----------------------------------------------------------------------------
RxTypeOK ==
  /\ rx_idle \in Seq(RxMsgs) /\ rx_pending \in Seq(RxMsgs)
  /\ i \in 0 .. IBUS_MAX_MESSAGE_SIZE + 1
  /\ Len(buffer) = IF OneTooMany THEN IBUS_MAX_MESSAGE_SIZE ELSE i
  /\ \A m \in RxMsgs : msg[m].status \in {"OK", "PARITY_ERROR", "BUFFER_OVERRUN_ERROR"}
  /\ arrived \in 0 .. FrameMax /\ garbled \in BOOLEAN
  /\ reading \in RxMsgs \cup {NoMsg} /\ sane \in BOOLEAN

(* A message is free, queued or with the reader, and only there: the       *)
(* interrupt never begins to write into one that is being read.            *)
RxOnePlace ==
  /\ RxTypeOK
  /\ sane => IsInjective(rx_idle \o rx_pending)
  /\ sane => ToSet(rx_idle \o rx_pending) = RxMsgs \ {reading}

RxQueued == ToSet(rx_pending) \cup ({reading} \ {NoMsg})

(* What the reader finds in the status of a message.                       *)
ReadsOK(m) == msg[m].status = "OK" /\ ~msg[m].top

(* The frame in the message before it was one byte too long for it.        *)
OverrunByNeighbour(m) ==
  /\ m - 1 \in ToSet(rx_pending)
  /\ msg[m - 1].size = IBUS_MAX_MESSAGE_SIZE + 1

(* A message that reads OK is one frame, in order, and as much of it as    *)
(* the message has room for: the whole frame unless it was one byte too    *)
(* long.  A frame that arrived undamaged and fits reads OK, whatever       *)
(* became of the frames before it, unless a later one that was one byte    *)
(* too long is queued in the message before it in memory.                  *)
OkMeansWhole ==
  sane =>
    \A m \in RxQueued :
      /\ ReadsOK(m) =>
           /\ msg[m].size = msg[m].arrived
           /\ msg[m].arrived <= IBUS_MAX_MESSAGE_SIZE + 1
           /\ msg[m].data =
                [k \in 1 .. (IF msg[m].arrived <= IBUS_MAX_MESSAGE_SIZE
                             THEN msg[m].arrived ELSE IBUS_MAX_MESSAGE_SIZE) |-> k]
      /\ ~msg[m].garbled /\ msg[m].arrived <= IBUS_MAX_MESSAGE_SIZE =>
           ReadsOK(m) \/ OverrunByNeighbour(m)
=============================================================================
