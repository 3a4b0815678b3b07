--------------------------- MODULE PlaybackProofs ---------------------------
(***************************************************************************)
(* Proofs about Playback, for every pool, number of callers and width of   *)
(* __tx_id: the pool of messages is conserved, so no send ever blocks, the *)
(* file name of a song is freed once and never lost, and every step is one *)
(* of PlayerService or a stutter.  About MediaPlay, the players it calls:  *)
(* a node has one owner, and a song that is over has left none behind.     *)
(* Of both, why what has begun ends: somebody can go on, and each step of  *)
(* the task or of the player brings the end nearer.                        *)
(***************************************************************************)
EXTENDS Playback, MediaPlay, QueueLemmas

IInv == TypeOK /\ OnePlace /\ Roles

-----------------------------------------------------------------------------
(* Types.                                                                  *)

LEMMA InitTypes == Init => TypeOK
<1> SUFFICES ASSUME Init PROVE TypeOK
  OBVIOUS
<1>1. cmd_idle \in Seq(Msgs)
  BY PoolAssumption, EnumerationLemma DEF Init
<1>2. Zeroed \in Contents /\ 0 \in TxIds
  BY TxAssumption DEF Zeroed, Contents, TxIds
<1>3. QED
  BY <1>1, <1>2, HeardAssumption DEF Init, TypeOK

(* A callback leaves a well-typed mailbox that is not over-full.           *)
LEMMA CallbackTypes ==
  ASSUME TypeOK, NEW m \in Msgs, NEW s \in Statuses, Callback(m, s)
  PROVE  heard' \in Seq(Statuses \X TxIds) /\ Len(heard') <= HeardMax
<1>1. msg[m].tx \in TxIds
  BY DEF TypeOK, Contents
<1>2. CASE msg[m].cb
  <2>1. <<s, msg[m].tx>> \in Statuses \X TxIds
    BY <1>1
  <2>2. Len(heard) < HeardMax /\ heard' = Append(heard, <<s, msg[m].tx>>)
    BY <1>2 DEF Callback
  <2>3. Len(Append(heard, <<s, msg[m].tx>>)) = Len(heard) + 1
    BY <2>1, AppendProperties DEF TypeOK
  <2>4. QED
    BY <2>1, <2>2, <2>3, HeardAssumption DEF TypeOK
<1>3. CASE ~msg[m].cb
  BY <1>3 DEF Callback, TypeOK
<1>4. QED BY <1>2, <1>3

LEMMA NextTypes == TypeOK /\ Roles /\ [Next]_vars => TypeOK'
<1> SUFFICES ASSUME TypeOK, Roles, [Next]_vars PROVE TypeOK'
  OBVIOUS
<1> USE DEF clientVars, taskVars
<1>1. ASSUME NEW c \in Clients, NEW cb \in CbChoices, PlayTake(c, cb) PROVE TypeOK'
  <2>1. Head(cmd_idle) \in Msgs /\ Tail(cmd_idle) \in Seq(Msgs)
    BY <1>1, ReceiveLemma DEF TypeOK, PlayTake
  <2>2. cb \in BOOLEAN
    BY CallbackAssumption
  <2>3. msg' = [msg EXCEPT ![Head(cmd_idle)].cmd = "PLAY", ![Head(cmd_idle)].cb = cb]
    BY <1>1 DEF PlayTake
  <2>4. msg' \in [Msgs -> Contents]
    BY <2>1, <2>2, <2>3 DEF TypeOK, Contents
  <2>5. QED BY <1>1, <2>1, <2>4 DEF TypeOK, PlayTake
<1>2. ASSUME NEW c \in Clients, NEW cb \in CbChoices, NEW k \in Commands,
             CommandTake(c, k, cb)
      PROVE  TypeOK'
  <2>1. Head(cmd_idle) \in Msgs /\ Tail(cmd_idle) \in Seq(Msgs)
    BY <1>2, ReceiveLemma DEF TypeOK, CommandTake
  <2>2. [cmd |-> k, tx |-> 0, cb |-> cb, file |-> FALSE] \in Contents
    BY <1>2, CallbackAssumption, CommandAssumption, TxAssumption
    DEF CommandTake, Contents, TxIds
  <2>3. QED BY <1>2, <2>1, <2>2 DEF TypeOK, CommandTake
<1>3. ASSUME NEW c \in Clients, CommandInvalid(c) PROVE TypeOK'
  <2>1. Head(cmd_idle) \in Msgs /\ Tail(cmd_idle) \in Seq(Msgs)
    BY <1>3, ReceiveLemma DEF TypeOK, CommandInvalid
  <2>2. QED BY <1>3, <2>1 DEF TypeOK, CommandInvalid
<1>4. ASSUME NEW c \in Clients, LoadTx(c) PROVE TypeOK'
  BY <1>4 DEF TypeOK, LoadTx
<1>5. ASSUME NEW c \in Clients, StoreTx(c) PROVE TypeOK'
  <2>1. hold[c] \in Msgs /\ tx_temp[c] \in TxIds
    BY <1>5 DEF TypeOK, StoreTx, Roles, Working
  <2>2. tx_id' \in TxIds
    BY <1>5, <2>1, TxAssumption DEF StoreTx, NextTx, TxIds
  <2>3. PICK got \in BOOLEAN :
          /\ msg' = [msg EXCEPT ![hold[c]].tx = tx_temp[c], ![hold[c]].file = got]
          /\ cpc' = [cpc EXCEPT ![c] =
                       IF msg[hold[c]].cmd = "PLAY" /\ ~got THEN "giveback" ELSE "send"]
    BY <1>5 DEF StoreTx
  <2>4. msg' \in [Msgs -> Contents]
    <3> DEFINE filled == [msg[hold[c]] EXCEPT !.tx = tx_temp[c], !.file = got]
    <3>1. msg \in [Msgs -> Contents]
      BY DEF TypeOK
    <3>2. msg[hold[c]] \in Contents
      BY <2>1, <3>1
    <3>3. filled \in Contents
      BY <2>1, <3>2 DEF Contents
    <3>4. msg' = [msg EXCEPT ![hold[c]] = filled]
      BY <2>1, <2>3, <3>1
    <3> HIDE DEF filled
    <3>5. QED BY <2>1, <3>1, <3>3, <3>4
  <2>5. QED BY <1>5, <2>2, <2>3, <2>4 DEF TypeOK, StoreTx, NextTx
<1>6. ASSUME NEW c \in Clients, GiveBack(c) PROVE TypeOK'
  <2>1. hold[c] \in Msgs
    BY <1>6 DEF TypeOK, GiveBack, Roles, Working
  <2>2. cmd_idle' \in Seq(Msgs)
    BY <1>6, <2>1, SendLemma DEF TypeOK, GiveBack
  <2>3. Zeroed \in Contents /\ 0 \in TxIds
    BY TxAssumption DEF Zeroed, Contents, TxIds
  <2>4. QED BY <1>6, <2>2, <2>3 DEF TypeOK, GiveBack
<1>7. ASSUME NEW c \in Clients, Send(c) PROVE TypeOK'
  <2>1. hold[c] \in Msgs
    BY <1>7 DEF TypeOK, Send, Roles, Working
  <2>2. cmd_active' \in Seq(Msgs)
    BY <1>7, <2>1, SendLemma DEF TypeOK, Send
  <2>3. QED BY <1>7, <2>2 DEF TypeOK, Send
<1>8. ASSUME NEW c \in Clients, Return(c) PROVE TypeOK'
  <2>1. 0 \in TxIds
    BY TxAssumption DEF TxIds
  <2>2. QED BY <1>8, <2>1 DEF TypeOK, Return, ReturnedId
<1>9. CASE TaskReceive
  <2>1. Head(cmd_active) \in Msgs /\ Tail(cmd_active) \in Seq(Msgs)
    BY <1>9, ReceiveLemma DEF TypeOK, TaskReceive
  <2>2. QED BY <1>9, <2>1 DEF TypeOK, TaskReceive
<1>10. CASE Announce
  <2>1. cur \in Msgs
    BY <1>10 DEF TypeOK, Announce, Roles
  <2>2. heard' \in Seq(Statuses \X TxIds) /\ Len(heard') <= HeardMax
    BY <1>10, <2>1, CallbackTypes DEF Announce, Statuses
  <2>3. QED BY <1>10, <2>2 DEF TypeOK, Announce
<1>11. CASE ContinueDecoding
  <2>1. Head(cmd_active) \in Msgs /\ Tail(cmd_active) \in Seq(Msgs)
    BY <1>11, ReceiveLemma DEF TypeOK, ContinueDecoding
  <2>2. QED BY <1>11, <2>1 DEF TypeOK, ContinueDecoding
<1>12. CASE PausedPeek
  <2>1. Head(cmd_active) \in Msgs /\ Tail(cmd_active) \in Seq(Msgs)
    BY <1>12, ReceiveLemma DEF TypeOK, PausedPeek
  <2>2. QED BY <1>12, <2>1 DEF TypeOK, PausedPeek
<1>13. CASE SongEnds
  BY <1>13 DEF TypeOK, SongEnds
<1>14. CASE Close
  <2>1. cur \in Msgs /\ Result[pc] \in Statuses
    BY <1>14 DEF TypeOK, Close, Roles, Result, Statuses
  <2>2. heard' \in Seq(Statuses \X TxIds) /\ Len(heard') <= HeardMax
    BY <1>14, <2>1, CallbackTypes DEF Close
  <2>3. msg' \in [Msgs -> Contents]
    BY <1>14, <2>1, ZenonT(30) DEF TypeOK, Close, Contents
  <2>4. QED BY <1>14, <2>2, <2>3 DEF TypeOK, Close
<1>15. CASE NotifyCommand
  <2>1. ctl \in Msgs /\ Answer[pc] \in Statuses
    BY <1>15 DEF TypeOK, NotifyCommand, Roles, Answer, Statuses
  <2>2. heard' \in Seq(Statuses \X TxIds) /\ Len(heard') <= HeardMax
    BY <1>15, <2>1, CallbackTypes DEF NotifyCommand
  <2>3. QED BY <1>15, <2>2 DEF TypeOK, NotifyCommand
<1>16. CASE ReturnMessage
  <2>1. Answered \in Msgs
    BY <1>16 DEF TypeOK, ReturnMessage, Roles, Answered
  <2>2. cmd_idle' \in Seq(Msgs)
    BY <1>16, <2>1, SendLemma DEF TypeOK, ReturnMessage
  <2>3. Zeroed \in Contents
    BY TxAssumption DEF Zeroed, Contents, TxIds
  <2>4. QED BY <1>16, <2>2, <2>3 DEF TypeOK, ReturnMessage, AfterReturn
<1>17. CASE Listen
  <2>1. heard' \in Seq(Statuses \X TxIds) /\ Len(heard') = Len(heard) - 1
    BY <1>17, HeadTailProperties DEF TypeOK, Listen
  <2>2. QED BY <1>17, <2>1, HeardAssumption DEF TypeOK, Listen
<1>18. CASE UNCHANGED vars
  BY <1>18 DEF TypeOK, vars
<1>19. QED
  BY <1>1, <1>2, <1>3, <1>4, <1>5, <1>6, <1>7, <1>8, <1>9, <1>10, <1>11, <1>12, <1>13,
     <1>14, <1>15, <1>16, <1>17, <1>18
  DEF Next, Call, Complete, Task

-----------------------------------------------------------------------------
(* The pool.                                                               *)

LEMMA InitPool == Init => OnePlace /\ Roles
<1> SUFFICES ASSUME Init PROVE OnePlace /\ Roles
  OBVIOUS
<1>1. IsInjective(cmd_idle) /\ IdleSet = Msgs
  BY PoolAssumption, EnumerationLemma DEF Init, IdleSet
<1>2. ActiveSet = {} /\ IsInjective(cmd_active)
  BY DEF Init, ActiveSet, ToSet, IsInjective
<1>3. InTask = {} /\ leaked = {} /\ \A c \in Clients : InHand(c) = {} /\ ~Working(c)
  BY DEF Init, InTask, InHand, Working
<1>4. OnePlace
  BY <1>1, <1>2, <1>3 DEF OnePlace, Init
<1>5. Roles
  BY <1>3 DEF Roles, Init, Result
<1>6. QED BY <1>4, <1>5

(* The roles of the pointers follow the control points.                    *)
LEMMA NextRoles == TypeOK /\ Roles /\ [Next]_vars => Roles'
<1> SUFFICES ASSUME TypeOK, Roles, [Next]_vars PROVE Roles'
  OBVIOUS
<1> USE DEF clientVars, taskVars
<1>1. ASSUME NEW c \in Clients, Call(c) \/ Complete(c) PROVE Roles'
  <2>1. UNCHANGED <<pc, cur, ctl>>
    BY <1>1 DEF Call, Complete, PlayTake, CommandTake, CommandInvalid, LoadTx, StoreTx, NextTx,
                GiveBack, Send, Return
  <2>2. ASSUME NEW d \in Clients, Working(d)' PROVE hold'[d] # Nil
    <3>1. CASE hold' = [hold EXCEPT ![c] = Head(cmd_idle)] /\ cmd_idle # <<>>
               /\ cpc' = [cpc EXCEPT ![c] = "load"]
      <4>1. Head(cmd_idle) \in Msgs
        BY <3>1, ReceiveLemma DEF TypeOK
      <4>2. QED BY <2>2, <3>1, <4>1, PoolAssumption DEF TypeOK, Roles, Working
    <3>2. CASE hold' = hold /\ (cpc'[c] \in {"out", "return"} \/ Working(c))
               /\ \A e \in Clients : e # c => cpc'[e] = cpc[e]
      BY <2>2, <3>2 DEF TypeOK, Roles, Working
    <3>3. CASE hold' = [hold EXCEPT ![c] = Nil] /\ cpc' = [cpc EXCEPT ![c] = "out"]
      BY <2>2, <3>3 DEF TypeOK, Roles, Working
    <3>4. QED
      BY <1>1, <3>1, <3>2, <3>3
      DEF Call, Complete, PlayTake, CommandTake, CommandInvalid, LoadTx, StoreTx, NextTx,
          GiveBack, Send, Return, TypeOK, Working
  <2>3. QED BY <2>1, <2>2 DEF Roles, Answered
<1>2. ASSUME Task \/ SongEnds \/ Listen PROVE Roles'
  <2>1. UNCHANGED <<cpc, hold>>
    BY <1>2 DEF Task, TaskReceive, Announce, ContinueDecoding, PausedPeek, SongEnds, Close,
                NotifyCommand, ReturnMessage, Listen
  <2>2. cmd_active # <<>> => Head(cmd_active) \in Msgs /\ Head(cmd_active) # Nil
    BY ReceiveLemma, PoolAssumption DEF TypeOK
  <2> USE DEF Roles, Working, Answered
  <2>3. CASE TaskReceive
    BY <2>1, <2>2, <2>3 DEF TaskReceive, Result
  <2>4. CASE Announce \/ Listen
    BY <2>1, <2>4 DEF Announce, Listen, Result
  <2>5. CASE ContinueDecoding
    BY <2>1, <2>2, <2>5 DEF ContinueDecoding, Result
  <2>6. CASE PausedPeek
    BY <2>1, <2>2, <2>6 DEF PausedPeek, Result
  <2>7. CASE SongEnds
    BY <2>1, <2>7 DEF SongEnds, Result
  <2>8. CASE Close
    BY <2>1, <2>8 DEF Close, Result
  <2>9. CASE NotifyCommand
    BY <2>1, <2>9 DEF NotifyCommand, Answer, Result
  <2>10. CASE ReturnMessage
    <3>1. CASE cur = Nil \/ ctl = Nil
      <4>1. pc' = "idle" /\ cur' = Nil /\ ctl' = Nil
        BY <2>10, <3>1 DEF ReturnMessage, AfterReturn
      <4>2. QED BY <2>1, <4>1 DEF Result
    <3>2. CASE cur # Nil /\ ctl # Nil
      <4>1. pc' \in {"paused", "decoding"} /\ cur' # Nil /\ ctl' = Nil
        BY <2>10, <3>2 DEF ReturnMessage, AfterReturn
      <4>2. QED BY <2>1, <4>1 DEF Result
    <3>3. QED BY <3>1, <3>2
  <2>11. QED
    BY <1>2, <2>3, <2>4, <2>5, <2>6, <2>7, <2>8, <2>9, <2>10 DEF Task
<1>3. CASE UNCHANGED vars
  BY <1>3 DEF vars, Roles, Working, Answered
<1>4. QED BY <1>1, <1>2, <1>3 DEF Next

-----------------------------------------------------------------------------
(* Every step moves at most one message, from one place to another.        *)

Clear == <<cmd_idle, cmd_active, cpc, hold, cur, ctl, leaked>>

LEMMA UnchangedPool == OnePlace /\ UNCHANGED Clear => OnePlace'
  BY DEF OnePlace, Clear, IdleSet, ActiveSet, InTask, InHand, Working

(* From the idle queue to the hands of a caller.                           *)
LEMMA TakePool ==
  ASSUME TypeOK, OnePlace, NEW c \in Clients, cpc[c] = "out", cmd_idle # <<>>,
         hold' = [hold EXCEPT ![c] = Head(cmd_idle)],
         cmd_idle' = Tail(cmd_idle),
         cpc' = [cpc EXCEPT ![c] = "load"],
         UNCHANGED <<cmd_active, cur, ctl, leaked>>
  PROVE  OnePlace'
<1>1. /\ Head(cmd_idle) \in Msgs
      /\ IdleSet = IdleSet' \cup {Head(cmd_idle)}
      /\ Head(cmd_idle) \notin IdleSet'
      /\ IsInjective(cmd_idle')
  BY ReceiveLemma DEF TypeOK, OnePlace, IdleSet
<1>2. ActiveSet' = ActiveSet /\ InTask' = InTask
  BY DEF ActiveSet, InTask
<1>3. InHand(c)' = {Head(cmd_idle)} /\ InHand(c) = {}
  BY DEF TypeOK, InHand, Working
<1>4. \A d \in Clients : d # c => InHand(d)' = InHand(d)
  BY DEF TypeOK, InHand, Working
<1>5. QED
  BY <1>1, <1>2, <1>3, <1>4 DEF OnePlace

(* From the idle queue to nowhere: the invalid command.                    *)
LEMMA LeakPool ==
  ASSUME TypeOK, OnePlace, NEW c \in Clients, CommandInvalid(c)
  PROVE  OnePlace'
<1>1. /\ Head(cmd_idle) \in Msgs
      /\ IdleSet = IdleSet' \cup {Head(cmd_idle)}
      /\ Head(cmd_idle) \notin IdleSet'
      /\ IsInjective(cmd_idle')
  BY ReceiveLemma DEF TypeOK, OnePlace, IdleSet, CommandInvalid
<1>2. ActiveSet' = ActiveSet /\ InTask' = InTask
  BY DEF ActiveSet, InTask, CommandInvalid, taskVars
<1>3. \A d \in Clients : InHand(d)' = InHand(d)
  BY DEF InHand, Working, CommandInvalid
<1>4. QED
  BY <1>1, <1>2, <1>3 DEF OnePlace, CommandInvalid, taskVars

(* From the hands of a caller back to the idle queue, or to the active one. *)
LEMMA HandPool ==
  ASSUME TypeOK, Roles, OnePlace, NEW c \in Clients, GiveBack(c) \/ Send(c)
  PROVE  OnePlace'
<1> USE DEF clientVars, taskVars
<1>1. hold[c] \in Msgs /\ InHand(c) = {hold[c]} /\ hold[c] \notin IdleSet \cup ActiveSet
  BY DEF TypeOK, Roles, OnePlace, InHand, Working, GiveBack, Send
<1>2. InHand(c)' = {} /\ \A d \in Clients : d # c => InHand(d)' = InHand(d)
  BY DEF TypeOK, InHand, Working, GiveBack, Send
<1>3. InTask' = InTask /\ leaked' = leaked /\ cur' = cur /\ ctl' = ctl
  BY DEF InTask, GiveBack, Send
<1>4. CASE GiveBack(c)
  <2>1. IdleSet' = IdleSet \cup {hold[c]} /\ IsInjective(cmd_idle')
    BY <1>1, <1>4, SendLemma DEF TypeOK, OnePlace, IdleSet, GiveBack
  <2>2. ActiveSet' = ActiveSet /\ cmd_active' = cmd_active
    BY <1>4 DEF ActiveSet, GiveBack
  <2>3. QED
    BY <1>1, <1>2, <1>3, <2>1, <2>2 DEF OnePlace
<1>5. CASE Send(c)
  <2>1. ActiveSet' = ActiveSet \cup {hold[c]} /\ IsInjective(cmd_active')
    BY <1>1, <1>5, SendLemma DEF TypeOK, OnePlace, ActiveSet, Send
  <2>2. IdleSet' = IdleSet /\ cmd_idle' = cmd_idle
    BY <1>5 DEF IdleSet, Send
  <2>3. QED
    BY <1>1, <1>2, <1>3, <2>1, <2>2 DEF OnePlace
<1>6. QED BY <1>4, <1>5

(* From the active queue to the task.                                      *)
LEMMA ReceivePool ==
  ASSUME TypeOK, OnePlace, cmd_active # <<>>,
         cmd_active' = Tail(cmd_active),
         UNCHANGED <<cmd_idle, cpc, hold, leaked>>,
         \/ cur = Nil /\ cur' = Head(cmd_active) /\ ctl' = ctl /\ ctl = Nil
         \/ ctl = Nil /\ ctl' = Head(cmd_active) /\ cur' = cur
  PROVE  OnePlace'
<1>1. /\ Head(cmd_active) \in Msgs
      /\ Head(cmd_active) # Nil
      /\ ActiveSet = ActiveSet' \cup {Head(cmd_active)}
      /\ Head(cmd_active) \notin ActiveSet'
      /\ IsInjective(cmd_active')
  BY ReceiveLemma, PoolAssumption DEF TypeOK, OnePlace, ActiveSet
<1>2. IdleSet' = IdleSet
  BY DEF IdleSet
<1>3. \A d \in Clients : InHand(d)' = InHand(d)
  BY DEF InHand, Working
<1>4. InTask' = InTask \cup {Head(cmd_active)}
  BY <1>1 DEF InTask
<1>5. cur' # Nil => cur' # ctl'
  <2>1. CASE cur # Nil
    <3>1. cur \in InTask /\ Head(cmd_active) \in ActiveSet
      BY <2>1, <1>1 DEF InTask
    <3>2. QED BY <3>1, <2>1 DEF OnePlace
  <2>2. CASE cur = Nil
    BY <2>2, <1>1
  <2>3. QED BY <2>1, <2>2
<1>6. QED
  BY <1>1, <1>2, <1>3, <1>4, <1>5 DEF OnePlace

(* From the task back to the idle queue.                                   *)
LEMMA ReturnPool ==
  ASSUME TypeOK, Roles, OnePlace, ReturnMessage
  PROVE  OnePlace'
<1> USE DEF clientVars
<1>1. Answered \in Msgs /\ Answered \in InTask /\ Answered \notin IdleSet
  BY DEF TypeOK, Roles, OnePlace, Answered, InTask, ReturnMessage
<1>2. IdleSet' = IdleSet \cup {Answered} /\ IsInjective(cmd_idle')
  BY <1>1, SendLemma DEF TypeOK, OnePlace, IdleSet, ReturnMessage
<1>3. InTask' = InTask \ {Answered}
  BY DEF InTask, Answered, OnePlace, ReturnMessage
<1>4. ActiveSet' = ActiveSet /\ cmd_active' = cmd_active /\ leaked' = leaked
  BY DEF ActiveSet, ReturnMessage
<1>5. \A d \in Clients : InHand(d)' = InHand(d)
  BY DEF InHand, Working, ReturnMessage
<1>6. cur' # Nil => cur' # ctl'
  BY DEF ReturnMessage
<1>7. QED
  BY <1>1, <1>2, <1>3, <1>4, <1>5, <1>6 DEF OnePlace

LEMMA NextPool == TypeOK /\ Roles /\ OnePlace /\ [Next]_vars => OnePlace'
<1> SUFFICES ASSUME TypeOK, Roles, OnePlace, [Next]_vars PROVE OnePlace'
  OBVIOUS
<1> USE DEF clientVars, taskVars
<1>1. ASSUME NEW c \in Clients, Call(c) PROVE OnePlace'
  <2>1. ASSUME NEW cb \in CbChoices, PlayTake(c, cb) PROVE OnePlace'
    BY <2>1, TakePool DEF PlayTake
  <2>2. ASSUME NEW cb \in CbChoices, NEW k \in Commands, CommandTake(c, k, cb)
        PROVE  OnePlace'
    BY <2>2, TakePool DEF CommandTake
  <2>3. QED BY <1>1, <2>1, <2>2, LeakPool DEF Call
<1>2. ASSUME NEW c \in Clients, LoadTx(c) \/ StoreTx(c) \/ Return(c) PROVE OnePlace'
  <2>1. UNCHANGED <<cmd_idle, cmd_active, cur, ctl, leaked>>
    BY <1>2 DEF LoadTx, StoreTx, NextTx, Return
  <2>2. \A d \in Clients : InHand(d)' = InHand(d)
    BY <1>2 DEF LoadTx, StoreTx, NextTx, Return, InHand, Working, TypeOK
  <2>3. IdleSet' = IdleSet /\ ActiveSet' = ActiveSet /\ InTask' = InTask
    BY <2>1 DEF IdleSet, ActiveSet, InTask
  <2>4. QED BY <2>1, <2>2, <2>3 DEF OnePlace
<1>3. ASSUME NEW c \in Clients, GiveBack(c) \/ Send(c) PROVE OnePlace'
  BY <1>3, HandPool
<1>4. CASE TaskReceive
  BY <1>4, ReceivePool DEF TaskReceive, Roles
<1>5. CASE ContinueDecoding
  <2>1. CASE msg[Head(cmd_active)].cmd = "PAUSE"
    BY <1>5, <2>1, ReceivePool DEF ContinueDecoding, Roles
  <2>2. CASE msg[Head(cmd_active)].cmd # "PAUSE"
    BY <1>5, <2>2, UnchangedPool DEF ContinueDecoding, Clear
  <2>3. QED BY <2>1, <2>2
<1>6. CASE PausedPeek
  <2>1. CASE msg[Head(cmd_active)].cmd = "RESUME"
    BY <1>6, <2>1, ReceivePool DEF PausedPeek, Roles
  <2>2. CASE msg[Head(cmd_active)].cmd # "RESUME"
    BY <1>6, <2>2, UnchangedPool DEF PausedPeek, Clear
  <2>3. QED BY <2>1, <2>2
<1>7. CASE ReturnMessage
  BY <1>7, ReturnPool
<1>8. CASE Announce \/ SongEnds \/ Close \/ NotifyCommand \/ Listen \/ UNCHANGED vars
  BY <1>8, UnchangedPool DEF Announce, SongEnds, Close, NotifyCommand, Listen, vars, Clear
<1>9. QED
  BY <1>1, <1>2, <1>3, <1>4, <1>5, <1>6, <1>7, <1>8 DEF Next, Complete, Task

-----------------------------------------------------------------------------
(* The theorems.                                                           *)

LEMMA Inductive == Spec => []IInv
<1>1. Init => IInv
  BY InitTypes, InitPool DEF IInv
<1>2. IInv /\ [Next]_vars => IInv'
  BY NextTypes, NextRoles, NextPool DEF IInv
<1>3. QED
  BY <1>1, <1>2, PTL DEF Spec

(* The variables keep their types, the mailbox its bound, in every         *)
(* behaviour of the library (playback.c: the message and queue types).     *)
THEOREM TypeCorrect == Spec => []TypeOK
<1>1. IInv => TypeOK
  BY DEF IInv
<1>2. QED BY <1>1, Inductive, PTL

(* No message of __commands is ever in two places, or lost other than by   *)
(* an invalid command, whatever the pool, the callers and the schedule.    *)
THEOREM PoolConserved == Spec => []OnePlace
<1>1. IInv => OnePlace
  BY DEF IInv
<1>2. QED BY <1>1, Inductive, PTL

(* The WAIT_FOREVER sends of playback_play, playback_command and           *)
(* __notify_and_return find room: a queue as long as the pool never fills. *)
THEOREM NoSendBlocks == Spec => []SendsNeverBlock
<1>1. IInv => SendsNeverBlock
  <2> SUFFICES ASSUME IInv PROVE SendsNeverBlock
    OBVIOUS
  <2> USE DEF IInv, TypeOK, OnePlace, PB_COMMAND_MSG_MAX
  <2>1. ASSUME NEW c \in Clients, cpc[c] = "send" PROVE Len(cmd_active) < PB_COMMAND_MSG_MAX
    <3>1. hold[c] \in Msgs /\ hold[c] \notin ToSet(cmd_active)
      BY <2>1 DEF Roles, InHand, Working, ActiveSet
    <3>2. QED BY <3>1, RoomLemma, PoolAssumption
  <2>2. ASSUME NEW c \in Clients, cpc[c] = "giveback" PROVE Len(cmd_idle) < PB_COMMAND_MSG_MAX
    <3>1. hold[c] \in Msgs /\ hold[c] \notin ToSet(cmd_idle)
      BY <2>2 DEF Roles, InHand, Working, IdleSet
    <3>2. QED BY <3>1, RoomLemma, PoolAssumption
  <2>3. ASSUME pc = "returning" PROVE Len(cmd_idle) < PB_COMMAND_MSG_MAX
    <3>1. Answered \in Msgs /\ Answered \notin ToSet(cmd_idle)
      BY <2>3 DEF Roles, Answered, InTask, IdleSet
    <3>2. QED BY <3>1, RoomLemma, PoolAssumption
  <2>4. QED BY <2>1, <2>2, <2>3 DEF SendsNeverBlock
<1>2. QED BY <1>1, Inductive, PTL


-----------------------------------------------------------------------------
(* The file names.                                                         *)

(* The parties that may hold a PLAY with its file name.                    *)
Carrying(m) == m \in ActiveSet \/ \E c \in Clients : cpc[c] = "send" /\ hold[c] = m
Played(m) == m = cur /\ (pc = "returning" => ctl # Nil)
Owned(m) == Carrying(m) \/ Played(m)

(* FileOwned for one message.                                              *)
Owns(m) == msg[m].file <=> msg[m].cmd = "PLAY" /\ Owned(m)

LEMMA FileOwnedIs == FileOwned <=> \A m \in Msgs : Owns(m)
  BY DEF FileOwned, Owns, Owned, Carrying, Played, ActiveSet

(* A step that writes the command and the file of one message which no     *)
(* owner has, before or after.                                             *)
LEMMA OutOfTheWay ==
  ASSUME TypeOK, FileOwned, NEW h \in Msgs,
         \A m \in Msgs : m # h => msg'[m] = msg[m] /\ (Owned(m)' <=> Owned(m)),
         ~Owned(h)', ~msg'[h].file
  PROVE  FileOwned'
<1>1. \A m \in Msgs : Owns(m)
  BY FileOwnedIs
<1>2. \A m \in Msgs : Owns(m)'
  BY <1>1 DEF Owns
<1>3. QED
  BY <1>2 DEF FileOwned, Owns, Owned, Carrying, Played, ActiveSet

(* A step that leaves the messages and their owners.                       *)
LEMMA OwnersKept ==
  ASSUME FileOwned, msg' = msg,
         \A m \in Msgs : msg[m].cmd = "PLAY" => (Owned(m)' <=> Owned(m))
  PROVE  FileOwned'
<1>1. \A m \in Msgs : Owns(m)
  BY FileOwnedIs
<1>2. \A m \in Msgs : Owns(m)'
  BY <1>1 DEF Owns
<1>3. QED
  BY <1>2 DEF FileOwned, Owns, Owned, Carrying, Played, ActiveSet

(* Whoever is in the idle queue, in the hands of a caller or answered      *)
(* carries no file name, but for a caller about to send.                   *)
LEMMA Elsewhere ==
  ASSUME IInv
  PROVE  /\ \A m \in IdleSet : ~Owned(m)
         /\ \A c \in Clients : cpc[c] \in {"load", "store", "giveback"} => ~Owned(hold[c])
         /\ ctl # Nil => ~Owned(ctl)
<1>1. /\ TypeOK /\ OnePlace /\ Roles /\ Nil \notin Msgs
  BY PoolAssumption DEF IInv
<1>2. \A c \in Clients : Working(c) => hold[c] \in Msgs /\ InHand(c) = {hold[c]}
  BY <1>1 DEF TypeOK, Roles, InHand
<1>3. ASSUME NEW m \in IdleSet PROVE ~Owned(m)
  <2>1. m \in Msgs
    BY <1>1 DEF IdleSet, ToSet, TypeOK
  <2>2. m \notin ActiveSet /\ m \notin InTask
    BY <1>1, <1>3 DEF OnePlace
  <2>3. m # cur
    BY <1>1, <2>1, <2>2 DEF InTask
  <2>4. ASSUME NEW c \in Clients, cpc[c] = "send" PROVE hold[c] # m
    BY <1>1, <1>2, <1>3, <2>4 DEF OnePlace, Working
  <2>5. QED BY <2>2, <2>3, <2>4 DEF Owned, Carrying, Played
<1>4. ASSUME NEW c \in Clients, cpc[c] \in {"load", "store", "giveback"} PROVE ~Owned(hold[c])
  <2>1. Working(c) /\ hold[c] \in Msgs /\ InHand(c) = {hold[c]}
    BY <1>2, <1>4 DEF Working
  <2>2. hold[c] \notin ActiveSet /\ hold[c] \notin InTask
    BY <1>1, <2>1 DEF OnePlace
  <2>3. hold[c] # cur
    BY <1>1, <2>1, <2>2 DEF InTask
  <2>4. ASSUME NEW d \in Clients, cpc[d] = "send" PROVE hold[d] # hold[c]
    <3>1. d # c /\ Working(d) /\ InHand(d) = {hold[d]}
      BY <1>2, <1>4, <2>4 DEF Working
    <3>2. InHand(c) \cap InHand(d) = {}
      BY <1>1, <3>1 DEF OnePlace
    <3>3. QED BY <2>1, <3>1, <3>2
  <2>5. QED BY <2>2, <2>3, <2>4 DEF Owned, Carrying, Played
<1>5. ASSUME ctl # Nil PROVE ~Owned(ctl)
  <2>1. ctl \in Msgs /\ ctl \in InTask /\ ctl # cur
    BY <1>1, <1>5 DEF InTask, TypeOK, OnePlace
  <2>2. ctl \notin ActiveSet
    BY <1>1, <2>1 DEF OnePlace
  <2>4. ASSUME NEW d \in Clients, cpc[d] = "send" PROVE hold[d] # ctl
    <3>1. InHand(d) = {hold[d]} /\ InHand(d) \cap InTask = {}
      BY <1>1, <1>2, <2>4 DEF Working, OnePlace
    <3>3. QED BY <2>1, <3>1
  <2>5. QED BY <2>1, <2>2, <2>4 DEF Owned, Carrying, Played
<1>6. QED BY <1>3, <1>4, <1>5

(* The steps of the callers.                                               *)
LEMMA CallersOwn ==
  ASSUME IInv, FileOwned, NEW c \in Clients, Call(c) \/ Complete(c)
  PROVE  FileOwned'
<1> USE DEF clientVars, taskVars
<1>1. TypeOK /\ Roles /\ \A m \in Msgs : Owns(m)
  BY FileOwnedIs DEF IInv
<1>2. /\ cur' = cur /\ ctl' = ctl /\ pc' = pc
      /\ \A m \in Msgs : Played(m)' <=> Played(m)
  BY DEF Call, Complete, PlayTake, CommandTake, CommandInvalid, LoadTx, StoreTx, NextTx,
         GiveBack, Send, Return, Played
<1>3. ASSUME cpc[c] = "out", cmd_idle # <<>>, cmd_active' = cmd_active,
             hold' = [hold EXCEPT ![c] = Head(cmd_idle)],
             cpc' = [cpc EXCEPT ![c] = "load"],
             \A m \in Msgs : m # Head(cmd_idle) => msg'[m] = msg[m],
             ~msg'[Head(cmd_idle)].file
      PROVE  FileOwned'
  <2>1. PICK h \in Msgs : h = Head(cmd_idle) /\ h \in IdleSet
    BY <1>1, <1>3, ReceiveLemma DEF TypeOK, IdleSet
  <2>2. ~Owned(h)
    BY <2>1, Elsewhere
  <2>3. \A d \in Clients : /\ cpc'[d] = "send" <=> cpc[d] = "send"
                           /\ cpc[d] = "send" => hold'[d] = hold[d]
    <3>1. cpc'[c] # "send" /\ cpc[c] # "send"
      BY <1>1, <1>3 DEF TypeOK
    <3>2. \A d \in Clients : d # c => cpc'[d] = cpc[d] /\ hold'[d] = hold[d]
      BY <1>1, <1>3 DEF TypeOK
    <3>3. QED BY <3>1, <3>2
  <2>4. ActiveSet' = ActiveSet
    BY <1>3 DEF ActiveSet
  <2>5. \A m \in Msgs : Owned(m)' <=> Owned(m)
    BY <1>2, <2>3, <2>4 DEF Owned, Carrying
  <2>6. QED BY <1>1, <1>3, <2>1, <2>2, <2>5, OutOfTheWay
<1>4. ASSUME NEW cb \in CbChoices, PlayTake(c, cb) PROVE FileOwned'
  <2>1. PICK h \in Msgs : h = Head(cmd_idle) /\ h \in IdleSet
    BY <1>1, <1>4, ReceiveLemma DEF TypeOK, IdleSet, PlayTake
  <2>2. ~msg[h].file
    BY <1>1, <2>1, Elsewhere DEF Owns
  <2>3. /\ \A m \in Msgs : m # h => msg'[m] = msg[m]
        /\ msg'[h].file = msg[h].file
    BY <1>1, <1>4, <2>1 DEF PlayTake, TypeOK, Contents
  <2>4. QED BY <1>3, <1>4, <2>1, <2>2, <2>3 DEF PlayTake
<1>5. ASSUME NEW cb \in CbChoices, NEW k \in Commands, CommandTake(c, k, cb) PROVE FileOwned'
  <2>1. PICK h \in Msgs : h = Head(cmd_idle) /\ h \in IdleSet
    BY <1>1, <1>5, ReceiveLemma DEF TypeOK, IdleSet, CommandTake
  <2>2. /\ \A m \in Msgs : m # h => msg'[m] = msg[m]
        /\ msg'[h].file = FALSE
    BY <1>1, <1>5, <2>1 DEF CommandTake, TypeOK
  <2>3. QED BY <1>3, <1>5, <2>1, <2>2 DEF CommandTake
<1>6. CASE CommandInvalid(c) \/ LoadTx(c)
  <2>1. /\ msg' = msg /\ cmd_active' = cmd_active /\ hold' = hold
        /\ \A d \in Clients : cpc'[d] = "send" <=> cpc[d] = "send"
    BY <1>1, <1>6 DEF CommandInvalid, LoadTx, TypeOK
  <2>2. \A m \in Msgs : Owned(m)' <=> Owned(m)
    BY <1>2, <2>1 DEF Owned, Carrying, ActiveSet
  <2>3. QED BY <2>1, <2>2, OwnersKept
<1>7. CASE StoreTx(c)
  <2>1. PICK h \in Msgs : h = hold[c]
    BY <1>1, <1>7 DEF StoreTx, TypeOK, Roles, Working
  <2>2. ~Owned(h) /\ ~msg[h].file
    BY <1>1, <1>7, <2>1, Elsewhere DEF Owns, StoreTx
  <2>3. PICK got \in BOOLEAN :
          /\ msg[h].cmd # "PLAY" => ~got
          /\ msg' = [msg EXCEPT ![h].tx = tx_temp[c], ![h].file = got]
          /\ cpc' = [cpc EXCEPT ![c] =
                       IF msg[h].cmd = "PLAY" /\ ~got THEN "giveback" ELSE "send"]
    BY <1>7, <2>1 DEF StoreTx
  <2>4. /\ \A m \in Msgs : m # h => msg'[m] = msg[m]
        /\ msg'[h].file = got /\ msg'[h].cmd = msg[h].cmd
    BY <1>1, <2>1, <2>3 DEF TypeOK, Contents
  <2>5. cmd_active' = cmd_active /\ hold' = hold /\ ActiveSet' = ActiveSet
    BY <1>7 DEF StoreTx, ActiveSet
  <2>6. \A d \in Clients : d # c => cpc'[d] = cpc[d]
    BY <1>1, <2>3 DEF TypeOK
  <2>7. cpc'[c] = "send" <=> ~(msg[h].cmd = "PLAY" /\ ~got)
    BY <1>1, <2>3 DEF TypeOK
  <2>8. \A m \in Msgs : m # h => (Owned(m)' <=> Owned(m))
    BY <1>2, <1>7, <2>1, <2>5, <2>6 DEF Owned, Carrying, StoreTx
  <2>9. Owned(h)' <=> cpc'[c] = "send"
    BY <1>2, <2>1, <2>2, <2>5, <2>6 DEF Owned, Carrying
  <2>10. \A m \in Msgs : Owns(m)'
    BY <1>1, <2>3, <2>4, <2>7, <2>8, <2>9 DEF Owns
  <2>11. QED
    BY <2>10 DEF FileOwned, Owns, Owned, Carrying, Played, ActiveSet
<1>8. CASE GiveBack(c)
  <2>1. PICK h \in Msgs : h = hold[c]
    BY <1>1, <1>8 DEF GiveBack, TypeOK, Roles, Working
  <2>2. ~Owned(h)
    BY <1>8, <2>1, Elsewhere DEF GiveBack
  <2>3. ActiveSet' = ActiveSet
    BY <1>8 DEF GiveBack, ActiveSet
  <2>4. \A d \in Clients : /\ cpc'[d] = "send" <=> cpc[d] = "send"
                           /\ cpc[d] = "send" => hold'[d] = hold[d]
    <3>1. cpc'[c] # "send" /\ cpc[c] # "send"
      BY <1>1, <1>8 DEF TypeOK, GiveBack
    <3>2. \A d \in Clients : d # c => cpc'[d] = cpc[d] /\ hold'[d] = hold[d]
      BY <1>1, <1>8 DEF TypeOK, GiveBack
    <3>3. QED BY <3>1, <3>2
  <2>5. \A m \in Msgs : Owned(m)' <=> Owned(m)
    BY <1>2, <2>3, <2>4 DEF Owned, Carrying
  <2>6. ~msg'[h].file /\ \A m \in Msgs : m # h => msg'[m] = msg[m]
    BY <1>1, <1>8, <2>1 DEF GiveBack, Zeroed, TypeOK
  <2>7. QED BY <1>1, <2>2, <2>5, <2>6, OutOfTheWay
<1>9. CASE Send(c)
  <2>1. PICK h \in Msgs : h = hold[c]
    BY <1>1, <1>9 DEF Send, TypeOK, Roles, Working
  <2>2. ActiveSet' = ActiveSet \cup {h}
    BY <1>1, <1>9, <2>1, SendLemma DEF TypeOK, Send, ActiveSet
  <2>3. /\ msg' = msg /\ hold' = hold /\ cpc[c] = "send" /\ cpc'[c] # "send"
        /\ \A d \in Clients : d # c => cpc'[d] = cpc[d]
    BY <1>1, <1>9 DEF Send, TypeOK
  <2>4. \A m \in Msgs : Carrying(m)' <=> Carrying(m)
    BY <2>1, <2>2, <2>3 DEF Carrying
  <2>5. QED BY <1>2, <2>3, <2>4, OwnersKept DEF Owned
<1>10. CASE Return(c)
  <2>1. /\ msg' = msg /\ cmd_active' = cmd_active /\ cpc[c] # "send" /\ cpc'[c] # "send"
        /\ \A d \in Clients : d # c => cpc'[d] = cpc[d] /\ hold'[d] = hold[d]
    BY <1>1, <1>10 DEF Return, TypeOK
  <2>2. \A m \in Msgs : Carrying(m)' <=> Carrying(m)
    BY <2>1 DEF Carrying, ActiveSet
  <2>3. QED BY <1>2, <2>1, <2>2, OwnersKept DEF Owned
<1>11. QED
  BY <1>4, <1>5, <1>6, <1>7, <1>8, <1>9, <1>10 DEF Call, Complete

(* The steps of the task.                                                  *)
LEMMA TaskOwns ==
  ASSUME IInv, FileOwned, Task \/ SongEnds \/ Listen
  PROVE  FileOwned'
<1> USE DEF clientVars, taskVars
<1>1. TypeOK /\ OnePlace /\ Roles /\ Nil \notin Msgs /\ \A m \in Msgs : Owns(m)
  BY FileOwnedIs, PoolAssumption DEF IInv
<1>2. cpc' = cpc /\ hold' = hold
  BY DEF Task, TaskReceive, Announce, ContinueDecoding, PausedPeek, SongEnds, Close,
         NotifyCommand, ReturnMessage, Listen
<1>3. ASSUME NEW h \in Msgs, cmd_active # <<>>, h = Head(cmd_active),
             cmd_active' = Tail(cmd_active), msg' = msg,
             msg[h].cmd = "PLAY" => Played(h)',
             \A m \in Msgs : m # h => (Played(m)' <=> Played(m))
      PROVE  FileOwned'
  <2>1. /\ ActiveSet = ActiveSet' \cup {h}
        /\ h \in ActiveSet
    BY <1>1, <1>3, ReceiveLemma DEF TypeOK, ActiveSet
  <2>2. \A m \in Msgs : m # h => (Owned(m)' <=> Owned(m))
    BY <1>2, <1>3, <2>1 DEF Owned, Carrying
  <2>3. Owned(h) /\ (msg[h].cmd = "PLAY" => Owned(h)')
    BY <1>3, <2>1 DEF Owned, Carrying
  <2>4. QED BY <1>3, <2>2, <2>3, OwnersKept
<1>4. CASE TaskReceive
  <2>1. PICK h \in Msgs : h = Head(cmd_active)
    BY <1>1, <1>4, ReceiveLemma DEF TypeOK, TaskReceive
  <2>2. \A m \in Msgs : m # h => (Played(m)' <=> Played(m))
    BY <1>1, <1>4, <2>1 DEF Played, TaskReceive, Roles
  <2>3. msg[h].cmd = "PLAY" => Played(h)'
    BY <1>4, <2>1 DEF Played, TaskReceive
  <2>4. QED BY <1>3, <1>4, <2>1, <2>2, <2>3 DEF TaskReceive
<1>5. CASE Announce \/ SongEnds \/ NotifyCommand \/ Listen
  <2>1. msg' = msg /\ cmd_active' = cmd_active /\ cur' = cur /\ ctl' = ctl
    BY <1>5 DEF Announce, SongEnds, NotifyCommand, Listen
  <2>2. \A m \in Msgs : Played(m)' <=> Played(m)
    BY <1>1, <1>5, <2>1 DEF Played, Announce, SongEnds, NotifyCommand, Listen, Roles, Answer
  <2>3. QED BY <1>2, <2>1, <2>2, OwnersKept DEF Owned, Carrying, ActiveSet
<1>6. CASE ContinueDecoding \/ PausedPeek
  <2>1. PICK h \in Msgs : h = Head(cmd_active)
    BY <1>1, <1>6, ReceiveLemma DEF TypeOK, ContinueDecoding, PausedPeek
  <2>2. /\ \A m \in Msgs : Played(m)' <=> Played(m)
        /\ msg' = msg
    BY <1>6 DEF Played, ContinueDecoding, PausedPeek
  <2>3. CASE cmd_active' = cmd_active
    BY <1>2, <2>2, <2>3, OwnersKept DEF Owned, Carrying, ActiveSet
  <2>4. CASE cmd_active' = Tail(cmd_active) /\ msg[h].cmd # "PLAY"
    BY <1>3, <1>6, <2>1, <2>2, <2>4 DEF ContinueDecoding, PausedPeek
  <2>5. QED BY <1>6, <2>1, <2>3, <2>4 DEF ContinueDecoding, PausedPeek
<1>7. CASE Close
  <2>1. PICK h \in Msgs : h = cur
    BY <1>1, <1>7 DEF TypeOK, Close, Roles
  <2>2. ctl = Nil /\ pc' = "returning" /\ ctl' = ctl /\ cur' = cur /\ cmd_active' = cmd_active
    BY <1>1, <1>7 DEF Close, Roles
  <2>3. /\ ~msg'[h].file
        /\ \A m \in Msgs : m # h => msg'[m] = msg[m]
    BY <1>1, <1>7, <2>1 DEF Close, TypeOK, Contents
  <2>4. ~Carrying(h)
    <3>1. h \in InTask
      BY <1>1, <2>1 DEF InTask
    <3>2. \A c \in Clients : cpc[c] = "send" => InHand(c) = {hold[c]} /\ InHand(c) \cap InTask = {}
      BY <1>1 DEF OnePlace, InHand, Working
    <3>3. h \notin ActiveSet
      BY <1>1, <3>1 DEF OnePlace
    <3>4. QED BY <3>1, <3>2, <3>3 DEF Carrying
  <2>5. \A m \in Msgs : Carrying(m)' <=> Carrying(m)
    BY <1>2, <2>2 DEF Carrying, ActiveSet
  <2>6. ~Played(h)' /\ \A m \in Msgs : m # h => ~Played(m) /\ ~Played(m)'
    BY <2>1, <2>2 DEF Played
  <2>7. QED BY <1>1, <2>3, <2>4, <2>5, <2>6, OutOfTheWay DEF Owned
<1>8. CASE ReturnMessage
  <2>1. PICK h \in Msgs : h = Answered
    BY <1>1, <1>8 DEF TypeOK, ReturnMessage, Roles, Answered
  <2>2. /\ ~msg'[h].file
        /\ \A m \in Msgs : m # h => msg'[m] = msg[m]
    BY <1>1, <1>8, <2>1 DEF ReturnMessage, Zeroed, TypeOK
  <2>3. \A m \in Msgs : Carrying(m)' <=> Carrying(m)
    BY <1>2, <1>8 DEF Carrying, ActiveSet, ReturnMessage
  <2>4. CASE ctl # Nil
    <3>1. h = ctl /\ ctl # cur /\ cur' = cur /\ pc = "returning"
      BY <1>1, <1>8, <2>1, <2>4 DEF Answered, ReturnMessage, OnePlace
    <3>2. ~Owned(h)
      BY <2>4, <3>1, Elsewhere
    <3>3. pc' # "returning"
      BY <1>8 DEF ReturnMessage, AfterReturn
    <3>4. \A m \in Msgs : Played(m)' <=> Played(m)
      BY <2>4, <3>1, <3>3 DEF Played
    <3>5. QED BY <1>1, <2>2, <2>3, <3>2, <3>4, OutOfTheWay DEF Owned
  <2>5. CASE ctl = Nil
    <3>1. h = cur /\ cur' = Nil /\ pc = "returning"
      BY <1>8, <2>1, <2>5 DEF Answered, ReturnMessage
    <3>2. ~Carrying(h)
      <4>1. h \in InTask
        BY <1>1, <3>1 DEF InTask
      <4>2. \A c \in Clients : cpc[c] = "send" => InHand(c) = {hold[c]} /\ InHand(c) \cap InTask = {}
        BY <1>1 DEF OnePlace, InHand, Working
      <4>3. h \notin ActiveSet
        BY <1>1, <4>1 DEF OnePlace
      <4>4. QED BY <4>1, <4>2, <4>3 DEF Carrying
    <3>3. \A m \in Msgs : ~Played(m)' /\ ~Played(m)
      BY <1>1, <2>5, <3>1 DEF Played
    <3>4. QED BY <1>1, <2>2, <2>3, <3>2, <3>3, OutOfTheWay DEF Owned
  <2>6. QED BY <2>4, <2>5
<1>9. QED
  BY <1>4, <1>5, <1>6, <1>7, <1>8 DEF Task

(* The malloc'ed name of a PLAY (playback_play) is freed once, by the      *)
(* close of its song, and never lost: a message has one exactly while it   *)
(* is a PLAY on its way to the task or being played.                       *)
THEOREM NamesOwned == Spec => []FileOwned
<1>1. Init => FileOwned
  <2>1. ASSUME Init PROVE \A m \in Msgs : ~msg[m].file
    BY <2>1 DEF Init, Zeroed
  <2>2. ASSUME Init PROVE \A m \in Msgs : ~Owned(m)
    BY <2>2, PoolAssumption DEF Init, Owned, Carrying, Played, ActiveSet, ToSet
  <2>3. ASSUME Init PROVE \A m \in Msgs : Owns(m)
    BY <2>1, <2>2, <2>3 DEF Owns
  <2>4. QED BY <2>3, FileOwnedIs
<1>2. IInv /\ FileOwned /\ [Next]_vars => FileOwned'
  <2>1. ASSUME FileOwned, UNCHANGED vars PROVE FileOwned'
    BY <2>1 DEF FileOwned, vars, clientVars, taskVars
  <2>2. QED BY <2>1, CallersOwn, TaskOwns DEF Next
<1>3. QED BY <1>1, <1>2, Inductive, PTL DEF Spec

-----------------------------------------------------------------------------
(* A queue is its head and what comes behind.                              *)
LEMMA HeadTailLemma ==
  ASSUME NEW S, NEW q \in Seq(S), q # <<>>
  PROVE  <<Head(q)>> \o Tail(q) = q
<1>1. Head(q) \in S /\ Tail(q) \in Seq(S)
  BY HeadTailProperties
<1>2. <<Head(q)>> \o Tail(q) \in Seq(S)
  BY <1>1, PrependLemma
<1>3. /\ Len(<<Head(q)>> \o Tail(q)) = Len(q)
      /\ \A k \in 1 .. Len(q) : (<<Head(q)>> \o Tail(q))[k] = q[k]
  OBVIOUS
<1>4. QED BY <1>2, <1>3, SeqEqual

-----------------------------------------------------------------------------
(* The refinement of PlayerService.                                        *)

(* What the task has seen of a message still stands when it acts on it,    *)
(* and the id in a message about to be sent is the one that the call will  *)
(* return.                                                                 *)
Command(m) == msg[m].cmd
Said ==
  /\ pc = "announce" => Command(cur) = "PLAY"
  /\ pc = "pausing" => Command(ctl) = "PAUSE"
  /\ pc = "resuming" => Command(ctl) = "RESUME"
  /\ pc = "refusing" => Command(ctl) # "PLAY"
  /\ pc = "stopped" => cmd_active # <<>> /\ Command(Head(cmd_active)) # "PAUSE"
  /\ pc = "quitting" => cmd_active # <<>> /\ Command(Head(cmd_active)) # "RESUME"
Loaded == \A c \in Clients : cpc[c] = "send" => msg[hold[c]].tx = tx_temp[c]

SInv == IInv /\ Said /\ Loaded

(* A caller writes its own message, or an idle one: never one that is      *)
(* queued, or with the task, or with another caller.                       *)
LEMMA CallersWrite ==
  ASSUME IInv, NEW c \in Clients, Call(c) \/ Complete(c)
  PROVE  /\ \A m \in ActiveSet \cup InTask : msg'[m] = msg[m]
         /\ \A d \in Clients : d # c /\ Working(d) => msg'[hold[d]] = msg[hold[d]]
<1> USE DEF IInv
<1>1. ASSUME NEW w \in Msgs,
             \A m \in Msgs : m # w => msg'[m] = msg[m],
             w \notin ActiveSet \cup InTask,
             \A d \in Clients : d # c /\ Working(d) => hold[d] # w
      PROVE  /\ \A m \in ActiveSet \cup InTask : msg'[m] = msg[m]
             /\ \A d \in Clients : d # c /\ Working(d) => msg'[hold[d]] = msg[hold[d]]
  <2>1. ActiveSet \cup InTask \subseteq Msgs
    BY DEF TypeOK, ActiveSet, InTask, ToSet
  <2>2. \A d \in Clients : Working(d) => hold[d] \in Msgs
    BY DEF TypeOK, Roles
  <2>3. QED BY <1>1, <2>1, <2>2
<1>2. ASSUME cmd_idle # <<>>, \A m \in Msgs : m # Head(cmd_idle) => msg'[m] = msg[m]
      PROVE  /\ \A m \in ActiveSet \cup InTask : msg'[m] = msg[m]
             /\ \A d \in Clients : d # c /\ Working(d) => msg'[hold[d]] = msg[hold[d]]
  <2>1. Head(cmd_idle) \in Msgs /\ Head(cmd_idle) \in IdleSet
    BY <1>2, ReceiveLemma DEF TypeOK, IdleSet
  <2>2. Head(cmd_idle) \notin ActiveSet \cup InTask
    BY <2>1 DEF OnePlace
  <2>3. \A d \in Clients : Working(d) => hold[d] # Head(cmd_idle)
    BY <2>1 DEF OnePlace, InHand
  <2>4. QED BY <1>1, <1>2, <2>1, <2>2, <2>3
<1>3. ASSUME Working(c), \A m \in Msgs : m # hold[c] => msg'[m] = msg[m]
      PROVE  /\ \A m \in ActiveSet \cup InTask : msg'[m] = msg[m]
             /\ \A d \in Clients : d # c /\ Working(d) => msg'[hold[d]] = msg[hold[d]]
  <2>1. hold[c] \in Msgs /\ InHand(c) = {hold[c]}
    BY <1>3 DEF TypeOK, Roles, InHand
  <2>2. hold[c] \notin ActiveSet \cup InTask
    BY <2>1 DEF OnePlace
  <2>3. \A d \in Clients : d # c /\ Working(d) => hold[d] # hold[c]
    BY <2>1 DEF OnePlace, InHand
  <2>4. QED BY <1>1, <1>3, <2>1, <2>2, <2>3
<1>4. ASSUME NEW cb \in CbChoices, PlayTake(c, cb)
      PROVE  cmd_idle # <<>> /\ \A m \in Msgs : m # Head(cmd_idle) => msg'[m] = msg[m]
  BY <1>4 DEF PlayTake, TypeOK
<1>5. ASSUME NEW cb \in CbChoices, NEW k \in Commands, CommandTake(c, k, cb)
      PROVE  cmd_idle # <<>> /\ \A m \in Msgs : m # Head(cmd_idle) => msg'[m] = msg[m]
  BY <1>5 DEF CommandTake, TypeOK
<1>6. CASE CommandInvalid(c) \/ LoadTx(c) \/ Send(c) \/ Return(c)
  BY <1>6 DEF CommandInvalid, LoadTx, Send, Return
<1>7. ASSUME StoreTx(c) \/ GiveBack(c)
      PROVE  Working(c) /\ \A m \in Msgs : m # hold[c] => msg'[m] = msg[m]
  BY <1>7 DEF StoreTx, GiveBack, TypeOK, Working
<1>8. QED
  BY <1>2, <1>3, <1>4, <1>5, <1>6, <1>7 DEF Call, Complete

(* At the start nothing has been seen and no message is on its way.        *)
LEMMA InitSaid == Init => Said /\ Loaded
BY DEF Init, Said, Loaded

(* A caller's step leaves what the task has seen as it was.                *)
LEMMA CallersSay ==
  ASSUME SInv, NEW c \in Clients, Call(c) \/ Complete(c)
  PROVE  (Said /\ Loaded)'
<1> USE DEF SInv, IInv
<1>1. /\ \A m \in ActiveSet \cup InTask : msg'[m] = msg[m]
      /\ \A d \in Clients : d # c /\ Working(d) => msg'[hold[d]] = msg[hold[d]]
  BY CallersWrite
<1>2. UNCHANGED <<pc, cur, ctl>>
  BY DEF Call, Complete, PlayTake, CommandTake, CommandInvalid, LoadTx, StoreTx, NextTx,
         GiveBack, Send, Return, taskVars
<1>3. cmd_active # <<>> => /\ Head(cmd_active) \in ActiveSet
                           /\ cmd_active' # <<>> /\ Head(cmd_active') = Head(cmd_active)
  <2>1. CASE Send(c)
    <3>1. cmd_active' = Append(cmd_active, hold[c]) /\ hold[c] \in Msgs
      BY <2>1 DEF Send, TypeOK, Roles, Working
    <3>2. QED BY <3>1, ReceiveLemma DEF TypeOK, ActiveSet
  <2>2. CASE ~Send(c)
    <3>1. cmd_active' = cmd_active
      BY <2>2 DEF Call, Complete, PlayTake, CommandTake, CommandInvalid, LoadTx, StoreTx, GiveBack,
                  Return
    <3>2. QED BY <3>1, ReceiveLemma DEF TypeOK, ActiveSet
  <2>3. QED BY <2>1, <2>2
<1>4. Said'
  <2>1. pc \in {"announce"} => cur \in InTask
    BY DEF Roles, InTask, TypeOK
  <2>2. pc \in {"pausing", "resuming", "refusing"} => ctl \in InTask
    BY DEF Roles, InTask, TypeOK
  <2>3. QED BY <1>1, <1>2, <1>3, <2>1, <2>2 DEF Said, Command
<1>5. ASSUME NEW d \in Clients, cpc'[d] = "send" PROVE msg'[hold'[d]].tx = tx_temp'[d]
  <2>1. CASE d # c
    <3>1. cpc'[d] = cpc[d] /\ hold'[d] = hold[d] /\ tx_temp'[d] = tx_temp[d]
      BY <2>1 DEF Call, Complete, PlayTake, CommandTake, CommandInvalid, LoadTx, StoreTx, NextTx,
                  GiveBack, Send, Return, TypeOK
    <3>2. Working(d)
      BY <1>5, <3>1 DEF Working
    <3>3. QED BY <1>1, <1>5, <2>1, <3>1, <3>2 DEF Loaded
  <2>2. CASE d = c
    <3>1. StoreTx(c)
      BY <1>5, <2>2 DEF Call, Complete, PlayTake, CommandTake, CommandInvalid, LoadTx, GiveBack,
                        Send, Return, TypeOK
    <3>2. hold[c] \in Msgs
      BY <3>1 DEF StoreTx, TypeOK, Roles, Working
    <3>3. QED BY <2>2, <3>1, <3>2 DEF StoreTx, TypeOK, Contents
  <2>3. QED BY <2>1, <2>2
<1>6. QED BY <1>4, <1>5 DEF Loaded

(* The task acts on what it has just seen, never on a caller's message.    *)
LEMMA TaskSays == SInv /\ (Task \/ SongEnds \/ Listen) => (Said /\ Loaded)'
<1> SUFFICES ASSUME SInv, Task \/ SongEnds \/ Listen PROVE (Said /\ Loaded)'
  OBVIOUS
<1> USE DEF SInv, IInv, clientVars, taskVars
<1>1. UNCHANGED <<cpc, hold, tx_temp>>
  BY DEF Task, TaskReceive, Announce, ContinueDecoding, PausedPeek, SongEnds, Close,
         NotifyCommand, ReturnMessage, Listen
<1>2. ASSUME NEW w \in InTask, \A m \in Msgs : m # w => msg'[m] = msg[m] PROVE Loaded'
  <2>1. ASSUME NEW c \in Clients, cpc[c] = "send"
        PROVE  msg'[hold[c]] = msg[hold[c]]
    <3>1. hold[c] \in Msgs /\ hold[c] \notin InTask
      BY <2>1 DEF TypeOK, Roles, Working, OnePlace, InHand
    <3>2. QED BY <1>2, <3>1
  <2>2. QED BY <1>1, <2>1 DEF Loaded
<1>3. ASSUME UNCHANGED msg PROVE Loaded'
  BY <1>1, <1>3 DEF Loaded
<1>4. CASE TaskReceive
  BY <1>3, <1>4 DEF TaskReceive, Said, Command
<1>5. CASE ContinueDecoding
  BY <1>3, <1>5 DEF ContinueDecoding, Said, Command
<1>6. CASE PausedPeek
  BY <1>3, <1>6 DEF PausedPeek, Said, Command
<1>7. CASE Announce \/ NotifyCommand \/ SongEnds \/ Listen
  BY <1>3, <1>7 DEF Announce, NotifyCommand, SongEnds, Listen, Said, Command
<1>8. CASE Close
  <2>1. cur \in InTask /\ \A m \in Msgs : m # cur => msg'[m] = msg[m]
    BY <1>8 DEF Close, Roles, InTask, TypeOK
  <2>2. QED BY <1>2, <1>8, <2>1 DEF Close, Said
<1>9. CASE ReturnMessage
  <2>1. Answered \in InTask /\ \A m \in Msgs : m # Answered => msg'[m] = msg[m]
    BY <1>9 DEF ReturnMessage, Roles, Answered, InTask, TypeOK
  <2>2. pc' \in {"idle", "paused", "decoding"}
    BY <1>9 DEF ReturnMessage, AfterReturn
  <2>3. QED BY <1>2, <2>1, <2>2 DEF Said
<1>10. QED
  BY <1>4, <1>5, <1>6, <1>7, <1>8, <1>9 DEF Task

(* What the task has seen still holds when it acts, at every step.         *)
LEMMA SaidHolds == Spec => []SInv
<1>1. Init => SInv
  BY InitTypes, InitPool, InitSaid DEF SInv, IInv
<1>2. SInv /\ [Next]_vars => SInv'
  <2> SUFFICES ASSUME SInv, [Next]_vars PROVE SInv'
    OBVIOUS
  <2>1. IInv'
    BY NextTypes, NextRoles, NextPool DEF SInv, IInv
  <2>2. CASE UNCHANGED vars
    BY <2>1, <2>2 DEF SInv, Said, Loaded, Command, vars, clientVars, taskVars
  <2>3. CASE Next
    <3>1. (Said /\ Loaded)'
      BY <2>3, CallersSay, TaskSays DEF Next
    <3>2. QED BY <2>1, <3>1 DEF SInv
  <2>4. QED BY <2>2, <2>3
<1>3. QED BY <1>1, <1>2, PTL DEF Spec

(* What the abstract service sees.                                         *)
Requests == [m \in Msgs |-> RequestOf(m)]
Asked == Carried(PendingMsgs, Requests)
Playing == IF SongOn THEN RequestOf(cur) ELSE Nil
Owed == [c \in Clients |-> IF cpc[c] = "return" THEN tx_temp[c] ELSE Nil]

(* Every message carries a request of the service.                         *)
LEMMA RequestType ==
  TypeOK => \A m \in Msgs : RequestOf(m) \in Service!Request /\ RequestOf(m) # Nil
<1> SUFFICES ASSUME TypeOK, NEW m \in Msgs
             PROVE  RequestOf(m) \in Service!Request /\ RequestOf(m) # Nil
  OBVIOUS
<1>1. msg[m] \in Contents
  BY DEF TypeOK
<1>2. RequestOf(m) \in Service!Request
  BY <1>1 DEF RequestOf, Service!Request, Contents
<1>3. QED BY <1>2, NilAssumption

(* The task has at most one message whose callback it is about to make.    *)
LEMMA UnannouncedLemma ==
  SInv => Unannounced = <<>> \/ \E m \in Msgs : m \in InTask /\ Unannounced = <<m>>
<1> SUFFICES ASSUME SInv
             PROVE  Unannounced = <<>> \/ \E m \in Msgs : m \in InTask /\ Unannounced = <<m>>
  OBVIOUS
<1> USE DEF SInv, IInv
<1>1. CASE pc = "announce"
  <2>1. cur \in Msgs /\ cur \in InTask /\ Unannounced = <<cur>>
    BY <1>1 DEF Unannounced, Roles, TypeOK, InTask, Answer
  <2>2. QED BY <2>1
<1>2. CASE pc \in DOMAIN Answer
  <2>1. ctl \in Msgs /\ ctl \in InTask /\ Unannounced = <<ctl>>
    BY <1>2 DEF Unannounced, Roles, TypeOK, InTask, Answer
  <2>2. QED BY <2>1
<1>3. CASE pc # "announce" /\ pc \notin DOMAIN Answer
  BY <1>3 DEF Unannounced
<1>4. QED BY <1>1, <1>2, <1>3

(* The messages that wait for their callback.                              *)
LEMMA PendingLemma ==
  SInv => /\ PendingMsgs \in Seq(Msgs) /\ ToSet(PendingMsgs) \subseteq ActiveSet \cup InTask
          /\ PendingRequests = Asked
          /\ Unannounced = <<>> => PendingMsgs = cmd_active
          /\ \A m \in Msgs : Unannounced = <<m>> =>
               PendingMsgs # <<>> /\ Head(PendingMsgs) = m /\ Tail(PendingMsgs) = cmd_active
<1> SUFFICES ASSUME SInv
             PROVE  /\ PendingMsgs \in Seq(Msgs)
                    /\ ToSet(PendingMsgs) \subseteq ActiveSet \cup InTask
                    /\ PendingRequests = Asked
                    /\ Unannounced = <<>> => PendingMsgs = cmd_active
                    /\ \A m \in Msgs : Unannounced = <<m>> =>
                         PendingMsgs # <<>> /\ Head(PendingMsgs) = m /\ Tail(PendingMsgs) = cmd_active
  OBVIOUS
<1> USE DEF SInv, IInv
<1>1. cmd_active \in Seq(Msgs)
  BY DEF TypeOK
<1>2. Unannounced = <<>> \/ \E m \in Msgs : m \in InTask /\ Unannounced = <<m>>
  BY UnannouncedLemma
<1>3. Unannounced = <<>> => PendingMsgs = cmd_active
  BY <1>1, ConcatEmptySeq DEF PendingMsgs
<1>4. \A m \in Msgs : Unannounced = <<m>> =>
        /\ PendingMsgs \in Seq(Msgs) /\ ToSet(PendingMsgs) = ActiveSet \cup {m}
        /\ PendingMsgs # <<>> /\ Head(PendingMsgs) = m /\ Tail(PendingMsgs) = cmd_active
  BY <1>1, PrependLemma DEF PendingMsgs, ActiveSet
<1>5. PendingMsgs \in Seq(Msgs) /\ ToSet(PendingMsgs) \subseteq ActiveSet \cup InTask
  BY <1>1, <1>2, <1>3, <1>4 DEF ActiveSet
<1>6. PendingRequests = Asked
  <2>1. DOMAIN PendingMsgs = 1 .. Len(PendingMsgs)
        /\ \A k \in 1 .. Len(PendingMsgs) : PendingMsgs[k] \in Msgs
    BY <1>5
  <2>2. QED BY <2>1 DEF PendingRequests, Asked, Carried, Requests
<1>7. QED BY <1>3, <1>4, <1>5, <1>6

(* What becomes of the requests when the messages that wait change.        *)
LEMMA AskedLemma ==
  SInv => /\ \A m \in Msgs : PendingMsgs' = Append(PendingMsgs, m) /\ Requests' = Requests
               => Asked' = Append(Asked, RequestOf(m))
          /\ PendingMsgs # <<>> =>
               /\ Asked # <<>> /\ Head(Asked) = RequestOf(Head(PendingMsgs))
               /\ PendingMsgs' = Tail(PendingMsgs) /\ Requests' = Requests => Asked' = Tail(Asked)
          /\ /\ PendingMsgs' = PendingMsgs
             /\ \A m \in ToSet(PendingMsgs) : RequestOf(m)' = RequestOf(m)
             => Asked' = Asked
<1> SUFFICES ASSUME SInv
             PROVE  /\ \A m \in Msgs : PendingMsgs' = Append(PendingMsgs, m) /\ Requests' = Requests
                         => Asked' = Append(Asked, RequestOf(m))
                    /\ PendingMsgs # <<>> =>
                         /\ Asked # <<>> /\ Head(Asked) = RequestOf(Head(PendingMsgs))
                         /\ PendingMsgs' = Tail(PendingMsgs) /\ Requests' = Requests
                              => Asked' = Tail(Asked)
                    /\ /\ PendingMsgs' = PendingMsgs
                       /\ \A m \in ToSet(PendingMsgs) : RequestOf(m)' = RequestOf(m)
                       => Asked' = Asked
  OBVIOUS
<1>1. PendingMsgs \in Seq(Msgs) /\ ToSet(PendingMsgs) \subseteq Msgs
  BY PendingLemma DEF ToSet
<1>2. /\ \A m \in Msgs : Carried(Append(PendingMsgs, m), Requests) = Append(Asked, Requests[m])
      /\ PendingMsgs # <<>> => /\ Asked # <<>>
                               /\ Head(Asked) = Requests[Head(PendingMsgs)]
                               /\ Carried(Tail(PendingMsgs), Requests) = Tail(Asked)
      /\ \A g : (\A x \in ToSet(PendingMsgs) : g[x] = Requests[x])
                  => Carried(PendingMsgs, g) = Asked
  BY <1>1, CarriedLemma DEF Asked
<1>3. Asked' = Carried(PendingMsgs', Requests')
  BY DEF Asked
<1>4. \A m \in Msgs : Requests[m] = RequestOf(m) /\ Requests'[m] = RequestOf(m)'
  BY DEF Requests
<1>5. PendingMsgs # <<>> => Head(PendingMsgs) \in Msgs
  BY <1>1, HeadTailProperties
<1>6. ASSUME PendingMsgs' = PendingMsgs,
             \A m \in ToSet(PendingMsgs) : RequestOf(m)' = RequestOf(m)
      PROVE  Asked' = Asked
  BY <1>1, <1>2, <1>3, <1>4, <1>6
<1>7. QED BY <1>2, <1>3, <1>4, <1>5, <1>6

(* The steps of the service in terms of what it sees.                      *)
Others == <<Playing, SongPhase, Owed, ret>>

(* A step the service does not see.                                        *)
LEMMA Stutters ==
  ASSUME PendingRequests' = PendingRequests, heard' = heard, UNCHANGED Others
  PROVE  [Service!Next]_(Service!vars)
BY DEF Service!vars, Others, Playing, Owed

(* A request that joins the queue, with its id owed to the caller.         *)
LEMMA Submits ==
  ASSUME NEW c \in Clients, NEW r \in Service!Request, Owed[c] = Nil,
         PendingRequests' = Append(PendingRequests, r), Owed' = [Owed EXCEPT ![c] = r.tx],
         UNCHANGED <<Playing, SongPhase, heard, ret>>
  PROVE  Service!Next
<1>1. Service!Submit(c)
  BY DEF Service!Submit, Owed, Playing
<1>2. QED BY <1>1 DEF Service!Next

(* The call returns the id that it owes.                                   *)
LEMMA Returns ==
  ASSUME NEW c \in Clients, Owed[c] # Nil, ret' = [ret EXCEPT ![c] = Owed[c]],
         Owed' = [Owed EXCEPT ![c] = Nil],
         UNCHANGED <<PendingRequests, Playing, SongPhase, heard>>
  PROVE  Service!Next
<1>1. Service!Return(c)
  BY DEF Service!Return, Owed, Playing
<1>2. QED BY <1>1 DEF Service!Next

(* A call that fails owes nothing and sends nothing.                       *)
LEMMA Fails ==
  ASSUME NEW c \in Clients, Owed[c] = Nil, ret' = [ret EXCEPT ![c] = -1],
         UNCHANGED <<PendingRequests, Playing, SongPhase, heard, Owed>>
  PROVE  Service!Next
<1>1. Service!Fail(c)
  BY DEF Service!Fail, Owed, Playing
<1>2. QED BY <1>1 DEF Service!Next

(* The callback of a message is the notice of its request.                 *)
LEMMA Notifies ==
  \A m \in Msgs : \A s \in Statuses : Callback(m, s) => Service!Notify(RequestOf(m), s)
BY DEF Callback, Service!Notify, RequestOf

PendingIs == PendingRequests = Asked
(* The requests of the service are those of the pending messages,          *)
LEMMA PendingNow == SInv => PendingIs
BY PendingLemma DEF PendingIs

(* before a step and after it.                                             *)
LEMMA PendingNext == SInv' => PendingIs'
BY PendingNow, PTL

(* What a caller does is to submit, to return or to fail, or nothing that  *)
(* the service sees.                                                       *)
LEMMA CallersRefine ==
  ASSUME SInv, SInv', NEW c \in Clients, Call(c) \/ Complete(c)
  PROVE  [Service!Next]_(Service!vars)
<1> USE DEF SInv, IInv
<1>1. \A m \in ActiveSet \cup InTask : msg'[m] = msg[m]
  BY CallersWrite
<1>2. UNCHANGED <<pc, cur, ctl, heard>>
  BY DEF Call, Complete, PlayTake, CommandTake, CommandInvalid, LoadTx, StoreTx, NextTx,
         GiveBack, Send, Return, taskVars
<1>3. UNCHANGED <<Unannounced, SongOn, Playing, SongPhase>>
  <2>1. UNCHANGED <<Unannounced, SongOn>>
    BY <1>2 DEF Unannounced, SongOn
  <2>2. Playing' = Playing
    <3>1. SongOn => cur \in InTask
      BY DEF SongOn, InTask
    <3>2. QED BY <1>1, <1>2, <2>1, <3>1 DEF Playing, RequestOf
  <2>3. SongPhase' = SongPhase
    <3>1. SongOn /\ pc = "returning" => ctl \in InTask
      BY DEF SongOn, InTask
    <3>2. QED BY <1>1, <1>2, <2>1, <3>1 DEF SongPhase
  <2>4. QED BY <2>1, <2>2, <2>3
<1>4. PendingRequests = Asked /\ PendingRequests' = Asked'
  BY PendingNow, PendingNext DEF PendingIs
<1>5. ASSUME cmd_active' = cmd_active PROVE PendingRequests' = PendingRequests
  <2>1. PendingMsgs' = PendingMsgs
    BY <1>3, <1>5 DEF PendingMsgs
  <2>2. \A m \in ToSet(PendingMsgs) : RequestOf(m)' = RequestOf(m)
    BY <1>1, PendingLemma DEF RequestOf
  <2>3. QED BY <1>4, <2>1, <2>2, AskedLemma
<1>6. ASSUME NEW v, cpc[c] # "return", v # "return", cpc' = [cpc EXCEPT ![c] = v],
             \A d \in Clients : d # c => tx_temp'[d] = tx_temp[d]
      PROVE  Owed' = Owed /\ Owed[c] = Nil
  <2>1. \A d \in Clients : d # c => cpc'[d] = cpc[d]
    BY <1>6 DEF TypeOK
  <2>2. cpc'[c] = v
    BY <1>6 DEF TypeOK
  <2>3. QED BY <1>6, <2>1, <2>2 DEF Owed
<1>7. CASE (\E cb \in CbChoices : PlayTake(c, cb))
           \/ (\E cb \in CbChoices, k \in Commands : CommandTake(c, k, cb))
  <2>1. /\ cmd_active' = cmd_active /\ ret' = ret /\ tx_temp' = tx_temp
        /\ cpc[c] = "out" /\ cpc' = [cpc EXCEPT ![c] = "load"]
    BY <1>7 DEF PlayTake, CommandTake
  <2>2. Owed' = Owed
    BY <1>6, <2>1
  <2>3. QED BY <1>2, <1>3, <1>5, <2>1, <2>2, Stutters DEF Others
<1>8. CASE LoadTx(c)
  <2>1. /\ cmd_active' = cmd_active /\ ret' = ret
        /\ \A d \in Clients : d # c => tx_temp'[d] = tx_temp[d]
        /\ cpc[c] = "load" /\ cpc' = [cpc EXCEPT ![c] = "store"]
    BY <1>8 DEF LoadTx, TypeOK
  <2>2. Owed' = Owed
    BY <1>6, <2>1
  <2>3. QED BY <1>2, <1>3, <1>5, <2>1, <2>2, Stutters DEF Others
<1>9. CASE StoreTx(c)
  <2>1. /\ cmd_active' = cmd_active /\ ret' = ret /\ tx_temp' = tx_temp /\ cpc[c] = "store"
        /\ \E v \in {"giveback", "send"} : cpc' = [cpc EXCEPT ![c] = v]
    BY <1>9 DEF StoreTx
  <2>2. Owed' = Owed
    BY <1>6, <2>1
  <2>3. QED BY <1>2, <1>3, <1>5, <2>1, <2>2, Stutters DEF Others
<1>10. CASE GiveBack(c)
  <2>1. /\ cmd_active' = cmd_active /\ ret' = [ret EXCEPT ![c] = -1]
        /\ \A d \in Clients : d # c => tx_temp'[d] = tx_temp[d]
        /\ cpc[c] = "giveback" /\ cpc' = [cpc EXCEPT ![c] = "out"]
    BY <1>10 DEF GiveBack, TypeOK
  <2>2. Owed' = Owed /\ Owed[c] = Nil
    BY <1>6, <2>1
  <2>3. QED BY <1>2, <1>3, <1>5, <2>1, <2>2, Fails
<1>11. CASE CommandInvalid(c)
  <2>1. /\ cmd_active' = cmd_active /\ ret' = [ret EXCEPT ![c] = -1]
        /\ tx_temp' = tx_temp /\ cpc' = cpc /\ cpc[c] = "out"
    BY <1>11 DEF CommandInvalid
  <2>2. Owed' = Owed /\ Owed[c] = Nil
    BY <2>1 DEF Owed
  <2>3. QED BY <1>2, <1>3, <1>5, <2>1, <2>2, Fails
<1>12. CASE Return(c)
  <2>1. /\ cmd_active' = cmd_active /\ ret' = [ret EXCEPT ![c] = tx_temp[c]]
        /\ cpc[c] = "return" /\ cpc' = [cpc EXCEPT ![c] = "out"]
        /\ \A d \in Clients : d # c => tx_temp'[d] = tx_temp[d]
    BY <1>12 DEF Return, ReturnedId, TypeOK
  <2>2. tx_temp[c] # Nil /\ Owed[c] = tx_temp[c]
    BY <2>1, NilAssumption DEF TypeOK, Owed
  <2>3. Owed' = [Owed EXCEPT ![c] = Nil]
    <3>1. \A d \in Clients : d # c => cpc'[d] = cpc[d]
      BY <2>1 DEF TypeOK
    <3>2. cpc'[c] = "out"
      BY <2>1 DEF TypeOK
    <3>3. QED BY <2>1, <3>1, <3>2 DEF Owed
  <2>4. QED BY <1>2, <1>3, <1>5, <2>1, <2>2, <2>3, Returns
<1>13. CASE Send(c)
  <2>1. PICK h \in Msgs : h = hold[c]
    BY <1>13 DEF Send, TypeOK, Roles, Working
  <2>2. /\ cmd_active' = Append(cmd_active, h) /\ ret' = ret /\ msg' = msg /\ tx_temp' = tx_temp
        /\ cpc[c] = "send" /\ cpc' = [cpc EXCEPT ![c] = "return"]
    BY <1>13, <2>1 DEF Send
  <2>3. RequestOf(h) \in Service!Request /\ RequestOf(h).tx = tx_temp[c]
    <3>1. msg[h].tx = tx_temp[c]
      BY <2>1, <2>2 DEF Loaded
    <3>2. QED BY <3>1, RequestType DEF RequestOf
  <2>4. PendingMsgs' = Append(PendingMsgs, h)
    <3>1. Unannounced \in Seq(Msgs) /\ cmd_active \in Seq(Msgs) /\ <<h>> \in Seq(Msgs)
      <4>1. Unannounced = <<>> \/ \E m \in Msgs : Unannounced = <<m>>
        BY UnannouncedLemma
      <4>2. <<>> \in Seq(Msgs) /\ \A m \in Msgs : <<m>> \in Seq(Msgs)
        OBVIOUS
      <4>3. Unannounced \in Seq(Msgs)
        BY <4>1, <4>2, Zenon
      <4>4. QED BY <4>3 DEF TypeOK
    <3>2. PendingMsgs' = Unannounced \o (cmd_active \o <<h>>)
      BY <1>3, <2>2, <3>1, AppendIsConcat DEF PendingMsgs
    <3>3. @ = PendingMsgs \o <<h>>
      BY <3>1, ConcatAssociative DEF PendingMsgs
    <3>4. @ = Append(PendingMsgs, h)
      BY PendingLemma, AppendIsConcat
    <3>5. QED BY <3>2, <3>3, <3>4
  <2>5. Requests' = Requests
    BY <2>2 DEF Requests, RequestOf
  <2>6. PendingRequests' = Append(PendingRequests, RequestOf(h))
    BY <1>4, <2>4, <2>5, AskedLemma
  <2>7. Owed[c] = Nil /\ Owed' = [Owed EXCEPT ![c] = tx_temp[c]]
    <3>1. \A d \in Clients : d # c => cpc'[d] = cpc[d]
      BY <2>2 DEF TypeOK
    <3>2. cpc'[c] = "return"
      BY <2>2 DEF TypeOK
    <3>3. QED BY <2>2, <3>1, <3>2 DEF Owed
  <2>8. Service!Next
    BY <1>2, <1>3, <2>2, <2>3, <2>6, <2>7, Submits
  <2>9. QED BY <2>8
<1>14. QED
  BY <1>7, <1>8, <1>9, <1>10, <1>11, <1>12, <1>13 DEF Call, Complete

(* A step of the service that takes the oldest request, which message m    *)
(* has made, and tells its callback.                                       *)
Answers(m, cmds, s) ==
  /\ PendingRequests # <<>> /\ Head(PendingRequests) = RequestOf(m) /\ Command(m) \in cmds
  /\ PendingRequests' = Tail(PendingRequests)
  /\ Service!Notify(RequestOf(m), s)
  /\ UNCHANGED <<Owed, ret>>

(* The oldest request is a PLAY: its song starts.                          *)
LEMMA Starts ==
  ASSUME NEW m \in Msgs, Answers(m, {"PLAY"}, "PLAYING"), Playing = Nil,
         Playing' = RequestOf(m), SongPhase' = "playing"
  PROVE  Service!Next
<1>1. Service!Start
  BY DEF Answers, Service!Start, Service!Waiting, Playing, Owed, RequestOf, Command
<1>2. QED BY <1>1 DEF Service!Next, Service!Serve

(* The oldest request is a command and nothing plays: ERROR.               *)
LEMMA Refuses ==
  ASSUME NEW m \in Msgs, Answers(m, {"RESUME", "PAUSE", "STOP"}, "ERROR"), Playing = Nil,
         UNCHANGED <<Playing, SongPhase>>
  PROVE  Service!Next
<1>1. Service!Refuse
  BY DEF Answers, Service!Refuse, Service!Waiting, Playing, Owed, RequestOf, Command
<1>2. QED BY <1>1 DEF Service!Next, Service!Serve

(* The oldest request is a PAUSE, and a song plays.                        *)
LEMMA Pauses ==
  ASSUME NEW m \in Msgs, Answers(m, {"PAUSE"}, "PAUSED"), SongPhase = "playing",
         SongPhase' = "paused", Playing' = Playing
  PROVE  Service!Next
<1>1. Service!Pause
  BY DEF Answers, Service!Pause, Service!Waiting, Playing, Owed, RequestOf, Command
<1>2. QED BY <1>1 DEF Service!Next, Service!Serve

(* The oldest request is a RESUME, and the song is paused.                 *)
LEMMA Resumes ==
  ASSUME NEW m \in Msgs, Answers(m, {"RESUME"}, "PLAYING"), SongPhase = "paused",
         SongPhase' = "playing", Playing' = Playing
  PROVE  Service!Next
<1>1. Service!Resume
  BY DEF Answers, Service!Resume, Service!Waiting, Playing, Owed, RequestOf, Command
<1>2. QED BY <1>1 DEF Service!Next, Service!Serve

(* The song closes: by itself, or for the sake of the oldest request.      *)
Early(s) ==
  PendingRequests # <<>> /\ s = "STOPPED"
    /\ \/ SongPhase = "playing" /\ Head(PendingRequests).cmd \in {"PLAY", "RESUME", "STOP"}
       \/ SongPhase = "paused" /\ Head(PendingRequests).cmd \in {"PLAY", "PAUSE", "STOP"}

(* The song's closing notice is its last.                                  *)
LEMMA Finishes ==
  ASSUME NEW s \in {"STOPPED", "END_OF_SONG", "ERROR"}, Playing # Nil,
         (SongPhase = "playing" /\ s # "STOPPED") \/ Early(s),
         Service!Notify(Playing, s), Playing' = Nil, SongPhase' = "stopped",
         UNCHANGED <<PendingRequests, Owed, ret>>
  PROVE  Service!Next
<1>1. Service!Finish
  BY DEF Early, Service!Finish, Service!Waiting, Playing, Owed
<1>2. QED BY <1>1 DEF Service!Next, Service!Serve

-----------------------------------------------------------------------------
(* The steps of the task.                                                  *)

(* The steps in which the task only looks at a queue, or receives what it  *)
(* will answer later.                                                      *)
LEMMA LooksRefine ==
  ASSUME SInv, SInv', TaskReceive \/ ContinueDecoding \/ PausedPeek \/ SongEnds
  PROVE  [Service!Next]_(Service!vars)
<1> USE DEF SInv, IInv, clientVars
<1>1. UNCHANGED <<msg, heard, cpc, tx_temp, ret>>
  BY DEF TaskReceive, ContinueDecoding, PausedPeek, SongEnds
<1>2. Owed' = Owed
  BY <1>1 DEF Owed
<1>3. PendingMsgs' = PendingMsgs
  <2>1. ASSUME NEW h, cmd_active # <<>>, h = Head(cmd_active), cmd_active' = Tail(cmd_active),
               Unannounced = <<>>, Unannounced' = <<h>>
        PROVE  PendingMsgs' = PendingMsgs
    <3>1. cmd_active \in Seq(Msgs)
      BY DEF TypeOK
    <3>2. <<h>> \o Tail(cmd_active) = cmd_active
      BY <2>1, <3>1, HeadTailLemma
    <3>3. QED BY <2>1, <3>2, PendingLemma DEF PendingMsgs
  <2>2. ASSUME cmd_active' = cmd_active, Unannounced = <<>>, Unannounced' = <<>>
        PROVE  PendingMsgs' = PendingMsgs
    BY <2>2 DEF PendingMsgs
  <2>3. CASE TaskReceive
    BY <2>1, <2>3 DEF TaskReceive, Unannounced, Answer
  <2>4. CASE ContinueDecoding
    BY <2>1, <2>2, <2>4 DEF ContinueDecoding, Unannounced, Answer
  <2>5. CASE PausedPeek
    BY <2>1, <2>2, <2>5 DEF PausedPeek, Unannounced, Answer
  <2>6. CASE SongEnds
    BY <2>2, <2>6 DEF SongEnds, Unannounced, Answer
  <2>7. QED BY <2>3, <2>4, <2>5, <2>6
<1>4. PendingRequests' = PendingRequests
  <2>1. \A m \in ToSet(PendingMsgs) : RequestOf(m)' = RequestOf(m)
    BY <1>1 DEF RequestOf
  <2>2. QED BY <1>3, <2>1, AskedLemma, PendingNow, PendingNext DEF PendingIs
<1>5. Playing' = Playing /\ SongPhase' = SongPhase
  <2>1. CASE TaskReceive
    BY <2>1 DEF TaskReceive, Playing, SongPhase, SongOn, Roles
  <2>2. CASE ContinueDecoding
    BY <1>1, <2>2 DEF ContinueDecoding, Playing, SongPhase, SongOn, RequestOf
  <2>3. CASE PausedPeek
    BY <1>1, <2>3 DEF PausedPeek, Playing, SongPhase, SongOn, RequestOf
  <2>4. CASE SongEnds
    BY <1>1, <2>4 DEF SongEnds, Playing, SongPhase, SongOn, RequestOf
  <2>5. QED BY <2>1, <2>2, <2>3, <2>4
<1>6. QED BY <1>1, <1>2, <1>4, <1>5, Stutters DEF Others

(* A message that goes back has been answered.                             *)
LEMMA ReturnRefines ==
  ASSUME SInv, SInv', ReturnMessage
  PROVE  [Service!Next]_(Service!vars)
<1> USE DEF SInv, IInv, clientVars
<1>1. /\ UNCHANGED <<heard, cpc, tx_temp, ret, cmd_active>> /\ pc = "returning"
      /\ pc' = AfterReturn /\ ctl' = Nil /\ cur' = (IF ctl = Nil THEN Nil ELSE cur)
  BY DEF ReturnMessage
<1>2. Owed' = Owed
  BY <1>1 DEF Owed
<1>3. Answered \in Msgs /\ Answered \in InTask /\ \A m \in Msgs : m # Answered => msg'[m] = msg[m]
  BY DEF ReturnMessage, Roles, Answered, InTask, TypeOK
<1>4. pc' \in {"idle", "paused", "decoding"}
  BY <1>1 DEF AfterReturn
<1>5. PendingRequests' = PendingRequests
  <2>1. Unannounced = <<>> /\ Unannounced' = <<>>
    BY <1>1, <1>4 DEF Unannounced, Answer
  <2>2. PendingMsgs' = PendingMsgs /\ PendingMsgs = cmd_active
    BY <1>1, <2>1, PendingLemma DEF PendingMsgs
  <2>3. \A m \in ToSet(PendingMsgs) : m \in Msgs /\ m # Answered
    BY <1>3, <2>2 DEF OnePlace, ActiveSet, TypeOK, ToSet
  <2>4. \A m \in ToSet(PendingMsgs) : RequestOf(m)' = RequestOf(m)
    BY <1>3, <2>3 DEF RequestOf
  <2>5. QED BY <2>2, <2>4, AskedLemma, PendingNow, PendingNext DEF PendingIs
<1>6. Playing' = Playing /\ SongPhase' = SongPhase
  <2>1. CASE ctl = Nil
    BY <1>1, <2>1 DEF Playing, SongPhase, SongOn
  <2>2. CASE ctl # Nil /\ cur = Nil
    BY <1>1, <2>2 DEF Playing, SongPhase, SongOn
  <2>3. CASE ctl # Nil /\ cur # Nil
    <3>1. cur \in Msgs /\ cur # Answered /\ Answered = ctl
      BY <2>3 DEF TypeOK, OnePlace, Answered
    <3>2. cur' = cur /\ RequestOf(cur)' = RequestOf(cur)
      BY <1>1, <1>3, <2>3, <3>1 DEF RequestOf
    <3>3. SongOn /\ SongOn'
      BY <1>1, <1>4, <2>3, <3>2 DEF SongOn
    <3>4. pc' = IF msg[ctl].cmd = "PAUSE" THEN "paused" ELSE "decoding"
      BY <1>1, <2>3 DEF AfterReturn
    <3>5. SongPhase' = SongPhase
      BY <1>1, <3>3, <3>4 DEF SongPhase
    <3>6. QED BY <3>2, <3>3, <3>5 DEF Playing
  <2>4. QED BY <2>1, <2>2, <2>3
<1>7. QED BY <1>1, <1>2, <1>5, <1>6, Stutters DEF Others

(* The task has answered the oldest request.                               *)
LEMMA AnsweredLemma ==
  ASSUME SInv, SInv', NEW m \in Msgs, Unannounced = <<m>>, Unannounced' = <<>>,
         NEW s, Service!Notify(RequestOf(m), s), NEW cmds, Command(m) \in cmds,
         UNCHANGED <<msg, cpc, tx_temp, ret, cmd_active>>
  PROVE  Answers(m, cmds, s)
<1>1. Owed' = Owed /\ Requests' = Requests
  BY DEF Owed, Requests, RequestOf
<1>2. PendingMsgs # <<>> /\ Head(PendingMsgs) = m /\ Tail(PendingMsgs) = cmd_active
  BY PendingLemma
<1>3. cmd_active \in Seq(Msgs)
  BY DEF SInv, IInv, TypeOK
<1>4. PendingMsgs' = Tail(PendingMsgs)
  BY <1>2, <1>3, ConcatEmptySeq DEF PendingMsgs
<1>5. /\ PendingRequests # <<>> /\ Head(PendingRequests) = RequestOf(m)
      /\ PendingRequests' = Tail(PendingRequests)
  BY <1>1, <1>2, <1>4, AskedLemma, PendingNow, PendingNext DEF PendingIs
<1>6. QED BY <1>1, <1>5 DEF Answers

(* The steps that make a callback.                                         *)
LEMMA AnnounceRefines ==
  ASSUME SInv, SInv', Announce
  PROVE  Service!Next
<1> USE DEF SInv, IInv, clientVars
<1>1. PICK m \in Msgs : m = cur
  BY DEF Announce, Roles, TypeOK
<1>2. /\ UNCHANGED <<msg, cpc, tx_temp, ret, cmd_active, cur, ctl>> /\ pc = "announce"
      /\ pc' = "decoding" /\ Callback(m, "PLAYING")
  BY <1>1 DEF Announce
<1>3. Answers(m, {"PLAY"}, "PLAYING")
  <2>1. Unannounced = <<m>> /\ Unannounced' = <<>>
    BY <1>1, <1>2 DEF Unannounced, Answer
  <2>2. Service!Notify(RequestOf(m), "PLAYING")
    BY <1>2, Notifies DEF Statuses
  <2>3. Command(m) = "PLAY"
    BY <1>1, <1>2 DEF Said
  <2>4. QED BY <1>2, <2>1, <2>2, <2>3, AnsweredLemma
<1>4. Playing = Nil /\ Playing' = RequestOf(m) /\ SongPhase' = "playing"
  BY <1>1, <1>2, PoolAssumption DEF Playing, SongPhase, SongOn, RequestOf
<1>5. QED BY <1>3, <1>4, Starts

(* A command's callback is the service's pause, resume or refusal.         *)
LEMMA NotifyRefines ==
  ASSUME SInv, SInv', NotifyCommand
  PROVE  Service!Next
<1> USE DEF SInv, IInv, clientVars
<1>1. PICK m \in Msgs : m = ctl
  BY DEF NotifyCommand, Roles, TypeOK, Answer
<1>2. /\ UNCHANGED <<msg, cpc, tx_temp, ret, cmd_active, cur, ctl>> /\ pc \in DOMAIN Answer
      /\ pc' = "returning" /\ Callback(m, Answer[pc])
  BY <1>1 DEF NotifyCommand
<1>3. ASSUME NEW s \in Statuses, s = Answer[pc], NEW cmds, Command(m) \in cmds
      PROVE  Answers(m, cmds, s)
  <2>1. Unannounced = <<m>> /\ Unannounced' = <<>>
    BY <1>1, <1>2 DEF Unannounced, Answer
  <2>2. Service!Notify(RequestOf(m), s)
    BY <1>2, <1>3, Notifies
  <2>3. QED BY <1>2, <1>3, <2>1, <2>2, AnsweredLemma
<1>4. CASE pc = "pausing"
  <2>1. Answers(m, {"PAUSE"}, "PAUSED")
    BY <1>1, <1>3, <1>4 DEF Said, Statuses, Answer
  <2>2. cur # Nil /\ ctl # Nil /\ msg[ctl].cmd = "PAUSE"
    BY <1>4 DEF Roles, Said, Command
  <2>3. SongPhase = "playing" /\ SongPhase' = "paused" /\ Playing' = Playing
    BY <1>2, <1>4, <2>2 DEF SongPhase, SongOn, Playing, RequestOf
  <2>4. QED BY <2>1, <2>3, Pauses
<1>5. CASE pc = "resuming"
  <2>1. Answers(m, {"RESUME"}, "PLAYING")
    BY <1>1, <1>3, <1>5 DEF Said, Statuses, Answer
  <2>2. cur # Nil /\ ctl # Nil /\ msg[ctl].cmd = "RESUME"
    BY <1>5 DEF Roles, Said, Command
  <2>3. SongPhase = "paused" /\ SongPhase' = "playing" /\ Playing' = Playing
    BY <1>2, <1>5, <2>2 DEF SongPhase, SongOn, Playing, RequestOf
  <2>4. QED BY <2>1, <2>3, Resumes
<1>6. CASE pc = "refusing"
  <2>1. Command(m) \in {"RESUME", "PAUSE", "STOP"}
    <3>1. Command(m) # "PLAY"
      BY <1>1, <1>6 DEF Said
    <3>2. Command(m) \in {"PLAY", "RESUME", "PAUSE", "STOP"}
      BY DEF Command, TypeOK, Contents
    <3>3. QED BY <3>1, <3>2
  <2>2. Answers(m, {"RESUME", "PAUSE", "STOP"}, "ERROR")
    BY <1>3, <1>6, <2>1 DEF Statuses, Answer
  <2>3. cur = Nil
    BY <1>6 DEF Roles
  <2>4. Playing = Nil /\ UNCHANGED <<Playing, SongPhase>>
    BY <1>2, <2>3 DEF SongPhase, SongOn, Playing
  <2>5. QED BY <2>2, <2>4, Refuses
<1>7. QED BY <1>2, <1>4, <1>5, <1>6 DEF Answer

(* The end of a song is the service's, and tells its caller once.          *)
LEMMA CloseRefines ==
  ASSUME SInv, SInv', Close
  PROVE  Service!Next
<1> USE DEF SInv, IInv, clientVars
<1>1. /\ cur \in Msgs /\ cur # Nil /\ ctl = Nil /\ pc \in DOMAIN Result
      /\ UNCHANGED <<cpc, tx_temp, ret, cmd_active, cur, ctl>> /\ pc' = "returning"
  BY DEF Close, Roles, TypeOK
<1>2. Owed' = Owed
  BY <1>1 DEF Owed
<1>3. Unannounced = <<>> /\ Unannounced' = <<>> /\ PendingMsgs' = PendingMsgs
      /\ PendingMsgs = cmd_active
  <2>1. Unannounced = <<>> /\ Unannounced' = <<>>
    BY <1>1 DEF Unannounced, Answer, Result
  <2>2. QED BY <1>1, <2>1, PendingLemma DEF PendingMsgs
<1>4. PendingRequests' = PendingRequests
  <2>1. \A m \in ToSet(PendingMsgs) : m \in Msgs
    BY PendingLemma DEF ToSet
  <2>2. \A m \in Msgs : RequestOf(m)' = RequestOf(m)
    BY <1>1 DEF Close, RequestOf, TypeOK, Contents
  <2>3. QED BY <1>3, <2>1, <2>2, AskedLemma, PendingNow, PendingNext DEF PendingIs
<1>5. Playing = RequestOf(cur) /\ Playing # Nil /\ Playing' = Nil /\ SongPhase' = "stopped"
  <2>1. SongOn /\ ~SongOn'
    BY <1>1 DEF SongOn, Result
  <2>2. QED BY <1>1, <2>1, RequestType DEF Playing, SongPhase
<1>6. Service!Notify(Playing, Result[pc]) /\ Result[pc] \in {"STOPPED", "END_OF_SONG", "ERROR"}
  <2>1. Result[pc] \in {"STOPPED", "END_OF_SONG", "ERROR"}
    BY <1>1 DEF Result
  <2>2. Callback(cur, Result[pc])
    BY DEF Close
  <2>3. QED BY <1>1, <1>5, <2>1, <2>2, Notifies DEF Statuses
<1>7. (SongPhase = "playing" /\ Result[pc] # "STOPPED") \/ Early(Result[pc])
  <2>0. SongPhase = IF pc = "quitting" THEN "paused" ELSE "playing"
    BY <1>1 DEF SongPhase, SongOn, Result
  <2>1. CASE pc \in {"ended", "failed"}
    BY <2>0, <2>1 DEF Result
  <2>2. CASE pc \in {"stopped", "quitting"}
    <3>1. PICK h \in Msgs : cmd_active # <<>> /\ h = Head(cmd_active)
                            /\ (pc = "stopped" => Command(h) # "PAUSE")
                            /\ (pc = "quitting" => Command(h) # "RESUME")
      BY <2>2, ReceiveLemma DEF Said, TypeOK
    <3>2. PendingRequests # <<>> /\ Head(PendingRequests) = RequestOf(h)
      BY <1>3, <3>1, AskedLemma, PendingNow DEF PendingIs
    <3>3. Head(PendingRequests).cmd = Command(h)
          /\ Command(h) \in {"PLAY", "RESUME", "PAUSE", "STOP"}
      BY <3>2 DEF RequestOf, Command, TypeOK, Contents
    <3>4. Result[pc] = "STOPPED"
      BY <2>2 DEF Result
    <3>5. QED BY <2>0, <2>2, <3>1, <3>2, <3>3, <3>4 DEF Early
  <2>3. QED BY <1>1, <2>1, <2>2 DEF Result
<1>8. QED BY <1>1, <1>2, <1>4, <1>5, <1>6, <1>7, Finishes

(* The mailbox is the service's own.                                       *)
LEMMA ListenRefines == Listen => Service!Next
<1> SUFFICES ASSUME Listen PROVE Service!Next
  OBVIOUS
<1>1. UNCHANGED <<cmd_active, msg, cpc, tx_temp, ret, pc, cur, ctl>>
  BY DEF Listen, clientVars, taskVars
<1>2. UNCHANGED <<PendingRequests, Playing, SongPhase, Owed>>
  BY <1>1 DEF PendingRequests, PendingMsgs, Unannounced, RequestOf, Playing, SongPhase, SongOn, Owed
<1>3. Service!Listen
  BY <1>1, <1>2 DEF Listen, Service!Listen, Playing, Owed
<1>4. QED BY <1>3 DEF Service!Next

(* The service starts with nothing asked and nothing playing.              *)
LEMMA ServiceInit == Init => Service!Init
<1> SUFFICES ASSUME Init PROVE Service!Init
  OBVIOUS
<1>1. SInv
  BY InitTypes, InitPool, InitSaid DEF SInv, IInv
<1>2. PendingMsgs = <<>>
  BY <1>1, PendingLemma DEF Init, Unannounced, Answer
<1>3. PendingRequests = <<>>
  BY <1>2 DEF PendingRequests
<1>4. QED BY <1>3 DEF Init, Service!Init, SongOn, SongPhase

(* Every step of the callers, the task and the listener is a step of the   *)
(* service of playback.h, or one that it does not see.                     *)
THEOREM ServiceStepsImplemented == Spec => Service!Spec
<1>1. SInv /\ SInv' /\ [Next]_vars => [Service!Next]_(Service!vars)
  <2> SUFFICES ASSUME SInv, SInv', [Next]_vars PROVE [Service!Next]_(Service!vars)
    OBVIOUS
  <2>1. CASE UNCHANGED vars
    <3>1. UNCHANGED <<cmd_active, msg, cpc, tx_temp, ret, pc, cur, ctl, heard>>
      BY <2>1 DEF vars, clientVars, taskVars
    <3>2. UNCHANGED <<PendingRequests, Playing, SongPhase, Owed>>
      BY <3>1 DEF PendingRequests, PendingMsgs, Unannounced, RequestOf, Playing, SongPhase, SongOn,
                  Owed
    <3>3. QED BY <3>1, <3>2, Stutters DEF Others
  <2>2. QED
    BY <2>1, CallersRefine, LooksRefine, ReturnRefines, AnnounceRefines, NotifyRefines,
       CloseRefines, ListenRefines DEF Next, Task
<1>2. QED
  BY <1>1, SaidHolds, ServiceInit, PTL DEF Spec, Service!Spec

-----------------------------------------------------------------------------
(* What CommandsServed rests on: the task cannot go on for ever without    *)
(* taking up the command that waits.                                       *)

(* How far the task is from looking for its next command.                  *)
MidSong == cur # Nil /\ ctl # Nil
TaskAhead ==
  CASE pc \in {"pausing", "resuming"} -> 9
    [] pc = "announce" \/ (pc = "returning" /\ MidSong) -> 8
    [] pc \in {"decoding", "paused"} -> 7
    [] pc \in DOMAIN Result \cup {"refusing"} -> 6
    [] pc = "returning" /\ ~MidSong -> 5
    [] pc = "idle" -> 4

(* The steps the task takes before the command at place k is taken up.     *)
StepsBefore(k) == 10 * k + TaskAhead

(* The places before and after a step of the commands that wait before and *)
(* after it.                                                               *)
Places == Moves(cmd_active, cmd_active')

LEMMA AheadIsNat ==
  ASSUME pc \in {"idle", "announce", "decoding", "pausing", "paused", "resuming",
                "stopped", "quitting", "ended", "failed", "refusing", "returning"}
  PROVE  TaskAhead \in 4 .. 9
<1>1. CASE pc \in {"pausing", "resuming"}
  BY <1>1 DEF TaskAhead
<1>2. CASE pc = "announce" \/ (pc = "returning" /\ MidSong)
  BY <1>2 DEF TaskAhead
<1>3. CASE pc \in {"decoding", "paused"}
  BY <1>3 DEF TaskAhead
<1>4. CASE pc \in DOMAIN Result \cup {"refusing"}
  BY <1>4 DEF TaskAhead, Result
<1>5. CASE pc = "returning" /\ ~MidSong
  BY <1>5 DEF TaskAhead, Result
<1>6. CASE pc = "idle"
  BY <1>6 DEF TaskAhead, Result
<1>7. DOMAIN Result = {"stopped", "quitting", "ended", "failed"}
  BY DEF Result
<1>8. QED BY <1>1, <1>2, <1>3, <1>4, <1>5, <1>6, <1>7

(* How far the task is, place by place.                                    *)
LEMMA AheadIs ==
  /\ pc \in {"pausing", "resuming"} => TaskAhead = 9
  /\ pc = "announce" \/ (pc = "returning" /\ MidSong) => TaskAhead = 8
  /\ pc \in {"decoding", "paused"} => TaskAhead = 7
  /\ pc \in {"stopped", "quitting", "ended", "failed", "refusing"} => TaskAhead = 6
  /\ pc = "returning" /\ ~MidSong => TaskAhead = 5
  /\ pc = "idle" => TaskAhead = 4
BY DEF TaskAhead, Result

LEMMA AheadNow ==
  /\ pc' \in {"pausing", "resuming"} => TaskAhead' = 9
  /\ pc' = "announce" \/ (pc' = "returning" /\ MidSong') => TaskAhead' = 8
  /\ pc' \in {"decoding", "paused"} => TaskAhead' = 7
  /\ pc' \in {"stopped", "quitting", "ended", "failed", "refusing"} => TaskAhead' = 6
  /\ pc' = "returning" /\ ~MidSong' => TaskAhead' = 5
  /\ pc' = "idle" => TaskAhead' = 4
BY DEF TaskAhead, Result

LEMMA PlacesKept ==
  ASSUME IInv, NEW p \in Places,
         UNCHANGED cmd_active \/ \E c \in Clients : Send(c)
  PROVE  p[1] \in Nat /\ p[2] = p[1]
<1>1. cmd_active \in Seq(Msgs) /\ IsInjective(cmd_active)
  BY DEF IInv, TypeOK, OnePlace
<1>2. CASE UNCHANGED cmd_active
  <2>1. p \in Moves(cmd_active, cmd_active)
    BY <1>2 DEF Places
  <2>2. QED BY <1>1, <2>1, MovesLemma
<1>3. ASSUME NEW c \in Clients, Send(c) PROVE p[1] \in Nat /\ p[2] = p[1]
  <2>1. hold[c] \in Msgs /\ hold[c] \notin ToSet(cmd_active)
    BY <1>3 DEF IInv, TypeOK, Roles, OnePlace, InHand, Working, ActiveSet, Send
  <2>2. p \in Moves(cmd_active, Append(cmd_active, hold[c]))
    BY <1>3 DEF Send, Places
  <2>3. QED BY <1>1, <2>1, <2>2, MovesLemma
<1>4. QED BY <1>2, <1>3

LEMMA PlacesForward ==
  ASSUME IInv, NEW p \in Places, cmd_active # <<>>, cmd_active' = Tail(cmd_active)
  PROVE  p[1] \in Nat /\ p[2] = p[1] - 1
<1>1. cmd_active \in Seq(Msgs) /\ IsInjective(cmd_active)
  BY DEF IInv, TypeOK, OnePlace
<1>2. p \in Moves(cmd_active, Tail(cmd_active))
  BY DEF Places
<1>3. QED BY <1>1, <1>2, MovesLemma

(* The other parties do not keep the task from a command that waits.       *)
LEMMA OthersKeepPlaces ==
  ASSUME IInv, NEW p \in Places, Listen \/ \E c \in Clients : Call(c) \/ Complete(c)
  PROVE  StepsBefore(p[2])' <= StepsBefore(p[1])
<1>1. UNCHANGED <<pc, cur, ctl>> /\ (UNCHANGED cmd_active \/ \E c \in Clients : Send(c))
  BY DEF Listen, Call, Complete, PlayTake, CommandTake, CommandInvalid, LoadTx, StoreTx, GiveBack,
         Send, Return, taskVars
<1>2. p[1] \in Nat /\ p[2] = p[1]
  BY <1>1, PlacesKept
<1>3. PICK a : a = TaskAhead /\ a = TaskAhead'
  BY <1>1 DEF TaskAhead, MidSong
<1>4. a \in Nat
  BY <1>3, AheadIsNat DEF IInv, TypeOK
<1>5. QED BY <1>2, <1>3, <1>4 DEF StepsBefore

(* Every step of the task brings it nearer to every command that waits.    *)
LEMMA TaskNearsPlaces ==
  ASSUME IInv, NEW p \in Places, Task \/ SongEnds
  PROVE  StepsBefore(p[2])' < StepsBefore(p[1])
<1> USE DEF MidSong
<1>1. /\ Nil \notin Msgs /\ Roles
  BY PoolAssumption DEF IInv
<1>2. ASSUME cmd_active # <<>>, cmd_active' = Tail(cmd_active), TaskAhead \in Nat,
             TaskAhead' \in Nat, TaskAhead' < TaskAhead + 10
      PROVE  StepsBefore(p[2])' < StepsBefore(p[1])
  BY <1>2, PlacesForward DEF StepsBefore
<1>3. ASSUME UNCHANGED cmd_active, TaskAhead \in Nat, TaskAhead' \in Nat, TaskAhead' < TaskAhead
      PROVE  StepsBefore(p[2])' < StepsBefore(p[1])
  BY <1>3, PlacesKept DEF StepsBefore
<1>4. CASE TaskReceive
  <2>1. /\ pc = "idle" /\ pc' \in {"announce", "refusing"}
        /\ cmd_active # <<>> /\ cmd_active' = Tail(cmd_active)
    BY <1>4 DEF TaskReceive
  <2>2. QED BY <1>2, <2>1, AheadIs, AheadNow
<1>5. CASE Announce
  <2>1. pc = "announce" /\ pc' = "decoding" /\ UNCHANGED cmd_active
    BY <1>5 DEF Announce
  <2>2. QED BY <1>3, <2>1, AheadIs, AheadNow
<1>6. CASE ContinueDecoding
  <2>1. /\ pc = "decoding" /\ cmd_active # <<>>
        /\ \/ pc' = "pausing" /\ cmd_active' = Tail(cmd_active)
           \/ pc' = "stopped" /\ UNCHANGED cmd_active
    BY <1>6 DEF ContinueDecoding
  <2>2. QED BY <1>2, <1>3, <2>1, AheadIs, AheadNow
<1>7. CASE PausedPeek
  <2>1. /\ pc = "paused" /\ cmd_active # <<>>
        /\ \/ pc' = "resuming" /\ cmd_active' = Tail(cmd_active)
           \/ pc' = "quitting" /\ UNCHANGED cmd_active
    BY <1>7 DEF PausedPeek
  <2>2. QED BY <1>2, <1>3, <2>1, AheadIs, AheadNow
<1>8. CASE SongEnds
  <2>1. pc = "decoding" /\ pc' \in {"ended", "failed"} /\ UNCHANGED cmd_active
    BY <1>8 DEF SongEnds
  <2>2. QED BY <1>3, <2>1, AheadIs, AheadNow
<1>9. CASE Close
  <2>1. /\ pc \in {"stopped", "quitting", "ended", "failed"} /\ pc' = "returning"
        /\ UNCHANGED <<cmd_active, cur, ctl>>
    BY <1>9 DEF Close, Result
  <2>2. ctl = Nil
    BY <1>1, <2>1 DEF Roles, Result
  <2>3. QED BY <1>3, <2>1, <2>2, AheadIs, AheadNow
<1>10. CASE NotifyCommand
  <2>1. /\ pc \in {"pausing", "resuming", "refusing"} /\ pc' = "returning"
        /\ UNCHANGED <<cmd_active, cur, ctl>>
    BY <1>10 DEF NotifyCommand, Answer
  <2>2. pc = "refusing" => cur = Nil
    BY <1>1 DEF Roles
  <2>3. QED BY <1>3, <2>1, <2>2, AheadIs, AheadNow
<1>11. CASE ReturnMessage
  <2>1. /\ pc = "returning" /\ UNCHANGED cmd_active
        /\ IF MidSong THEN pc' \in {"paused", "decoding"} ELSE pc' = "idle"
    BY <1>11 DEF ReturnMessage, AfterReturn
  <2>2. QED BY <1>3, <2>1, AheadIs, AheadNow
<1>12. QED
  BY <1>4, <1>5, <1>6, <1>7, <1>8, <1>9, <1>10, <1>11 DEF Task

(* A command that waits is taken up after at most StepsBefore steps of the *)
(* task and its decoder: each of them brings the task nearer to every      *)
(* command of __cmd_active, playing, paused or answering another, and no   *)
(* step of a caller or of the listener takes it away.                      *)
THEOREM CommandsGetNearer ==
  Spec => [][\A p \in Places : IF Task \/ SongEnds
                                 THEN StepsBefore(p[2])' < StepsBefore(p[1])
                                 ELSE StepsBefore(p[2])' <= StepsBefore(p[1])]_vars
<1>1. ASSUME IInv, Next, NEW p \in Places
      PROVE  IF Task \/ SongEnds THEN StepsBefore(p[2])' < StepsBefore(p[1])
                                  ELSE StepsBefore(p[2])' <= StepsBefore(p[1])
  <2>1. CASE Task \/ SongEnds
    BY <1>1, <2>1, TaskNearsPlaces
  <2>2. CASE ~(Task \/ SongEnds)
    <3>1. Listen \/ \E c \in Clients : Call(c) \/ Complete(c)
      BY <1>1, <2>2 DEF Next
    <3>2. QED BY <1>1, <2>2, <3>1, OthersKeepPlaces
  <2>3. QED BY <2>1, <2>2
<1>2. IInv /\ [Next]_vars =>
        [\A p \in Places : IF Task \/ SongEnds
                           THEN StepsBefore(p[2])' < StepsBefore(p[1])
                           ELSE StepsBefore(p[2])' <= StepsBefore(p[1])]_vars
  BY <1>1
<1>3. QED BY <1>2, Inductive, PTL DEF Spec

(* Whether the task can take its next step: it never waits for more than   *)
(* the command that is there, and room for its callback's post.            *)
Room(m) == msg[m].cb => Len(heard) < HeardMax
TaskCan ==
  \/ pc \in {"idle", "decoding", "paused"} /\ cmd_active # <<>>
  \/ pc \in {"announce"} \cup DOMAIN Result /\ Room(cur)
  \/ pc \in DOMAIN Answer /\ Room(ctl)
  \/ pc = "returning" /\ Len(cmd_idle) < PB_COMMAND_MSG_MAX

(* The task is never stuck while a command waits: it can go on, or the     *)
(* owner of the callback has something to listen to.                       *)
THEOREM CommandsGoOn ==
  Spec => [](cmd_active # <<>> => TaskCan \/ heard # <<>>)
<1>1. ASSUME IInv, SendsNeverBlock, cmd_active # <<>>, heard = <<>> PROVE TaskCan
  <2>1. Len(heard) < HeardMax
    BY <1>1, HeardAssumption
  <2>2. pc \in {"idle", "announce", "decoding", "pausing", "paused", "resuming",
                "stopped", "quitting", "ended", "failed", "refusing", "returning"}
    BY <1>1 DEF IInv, TypeOK
  <2>3. DOMAIN Result = {"stopped", "quitting", "ended", "failed"}
        /\ DOMAIN Answer = {"pausing", "resuming", "refusing"}
    BY DEF Result, Answer
  <2>4. CASE pc \in {"idle", "decoding", "paused"}
    BY <1>1, <2>4 DEF TaskCan
  <2>5. CASE pc \in {"announce"} \cup DOMAIN Result
    BY <2>1, <2>5 DEF TaskCan, Room
  <2>6. CASE pc \in DOMAIN Answer
    BY <2>1, <2>6 DEF TaskCan, Room
  <2>7. CASE pc = "returning"
    BY <1>1, <2>7 DEF TaskCan, SendsNeverBlock
  <2>8. \/ pc \in {"idle", "decoding", "paused"} \/ pc = "returning"
        \/ pc \in {"announce", "stopped", "quitting", "ended", "failed"}
        \/ pc \in {"pausing", "resuming", "refusing"}
    BY <2>2
  <2>9. ASSUME pc \in {"announce", "stopped", "quitting", "ended", "failed"} PROVE TaskCan
    <3>1. pc \in {"announce"} \cup DOMAIN Result
      BY <2>3, <2>9
    <3>2. QED BY <2>5, <3>1
  <2>10. ASSUME pc \in {"pausing", "resuming", "refusing"} PROVE TaskCan
    <3>1. pc \in DOMAIN Answer
      BY <2>3, <2>10
    <3>2. QED BY <2>6, <3>1
  <2>11. QED BY <2>4, <2>7, <2>8, <2>9, <2>10
<1>2. IInv /\ SendsNeverBlock => (cmd_active # <<>> => TaskCan \/ heard # <<>>)
  BY <1>1
<1>3. QED BY <1>2, Inductive, NoSendBlocks, PTL

-----------------------------------------------------------------------------
(* The players that the task calls (media-mp3.c, media-flac.c).            *)

(* What MediaPlay assumes of its constants.                                *)
PlayerParameters ==
  /\ Players \subseteq {"mp3", "flac"} /\ NoNode \notin Nodes
  /\ NODE_COUNT \in Nat \ {0} /\ IDLE_QUEUE_SIZE \in Nat /\ NODE_COUNT <= IDLE_QUEUE_SIZE
  /\ Frames \in Nat /\ DoublesMax \in Nat

LEMMA ParametersHold == PlayerParameters
BY PlayerAssumption, NodeAssumption, CountAssumption DEF PlayerParameters

(* The queue __idle can hold all nodes of the heap.                        *)
HeapFits == IsFiniteSet(Nodes) /\ Cardinality(Nodes) <= IDLE_QUEUE_SIZE

(* No node was lost, or given back twice.                                  *)
Whole == ~starved /\ doubled = 0
Kept == (HeapFits /\ doubled = 0) \/ Whole

Held == {node} \ {NoNode}
NodesApart ==
  /\ IsInjective(idle) /\ IsInjective(dsp) /\ ToSet(idle) \cap ToSet(dsp) = {}
  /\ node \notin ToSet(idle) \cup ToSet(dsp)
  /\ heap = ToSet(idle) \cup ToSet(dsp) \cup Held

NodesCounted == Len(idle) + Len(dsp) + (IF node = NoNode THEN 0 ELSE 1)

(* How many nodes the song has, where it is.                               *)
CountAt ==
  /\ at = "out" => NodesCounted = 0
  /\ at = "allocate" => NodesCounted + i = NODE_COUNT
  /\ at \in {"decode", "output", "done", "complete"} => NodesCounted = NODE_COUNT /\ i = NODE_COUNT
  /\ at = "free" => NodesCounted = i

PlayerTypes ==
  /\ idle \in Seq(Nodes) /\ Len(idle) <= IDLE_QUEUE_SIZE /\ heap \subseteq Nodes
  /\ dsp \in Seq(Nodes)
  /\ at \in {"out", "allocate", "decode", "output", "done", "complete", "free"}
  /\ player \in Players /\ i \in 0 .. NODE_COUNT /\ node \in Nodes \cup {NoNode}
  /\ rv \in {"MI_RETURN_OK", "MI_STOPPED_BY_REQUEST", "MI_END_OF_SONG",
             "MI_ERROR_INVALID_FORMAT", "MI_ERROR_DECODE_ERROR", "MI_ERROR_OUT_OF_MEMORY"}
  /\ stream \in BOOLEAN /\ starved \in BOOLEAN /\ left \in 0 .. Frames
  /\ doubled \in 0 .. DoublesMax

(* Where the player has a node, and the file.                              *)
PlayerRoles ==
  /\ node # NoNode => (player = "mp3" /\ at = "output")
                     \/ (player = "flac" /\ at \in {"decode", "output", "done"})
  /\ player = "flac" /\ at = "output" => node # NoNode
  /\ at = "done" => player = "flac"
  /\ at = "out" => ~stream

PlayerInv ==
  /\ PlayerTypes /\ PlayerRoles
  /\ Kept => NodesApart
  /\ Whole => CountAt

(* A node that is given back finds room in the queue.                      *)
LEMMA GivenLemma ==
  ASSUME PlayerParameters, idle \in Seq(Nodes), Len(idle) <= IDLE_QUEUE_SIZE,
         NEW n \in Nodes, NEW p, p = Given(n)
  PROVE  /\ p \in Seq(Nodes) /\ Len(p) <= IDLE_QUEUE_SIZE
         /\ Kept /\ IsInjective(idle) /\ n \notin ToSet(idle) /\ (Whole => Len(idle) < NODE_COUNT) =>
              /\ p = Append(idle, n) /\ Len(p) = Len(idle) + 1
              /\ IsInjective(p) /\ ToSet(p) = ToSet(idle) \cup {n}
<1>1. p = IF Len(idle) < IDLE_QUEUE_SIZE THEN Append(idle, n) ELSE idle
  BY DEF Given
<1>2. IDLE_QUEUE_SIZE \in Nat /\ NODE_COUNT \in Nat /\ NODE_COUNT <= IDLE_QUEUE_SIZE /\ Len(idle) \in Nat
  BY DEF PlayerParameters
<1>3. p \in Seq(Nodes) /\ Len(p) <= IDLE_QUEUE_SIZE
  BY <1>1, <1>2
<1>4. ASSUME Kept, IsInjective(idle), n \notin ToSet(idle), Whole => Len(idle) < NODE_COUNT
      PROVE  /\ p = Append(idle, n) /\ Len(p) = Len(idle) + 1
             /\ IsInjective(p) /\ ToSet(p) = ToSet(idle) \cup {n}
  <2>1. Len(idle) < IDLE_QUEUE_SIZE
    <3>1. CASE Whole
      BY <1>2, <1>4, <3>1
    <3>2. CASE HeapFits
      <4>1. IsFiniteSet(Nodes) /\ Cardinality(Nodes) <= IDLE_QUEUE_SIZE
        BY <3>2 DEF HeapFits
      <4>2. Cardinality(Nodes) \in Nat /\ Len(idle) < Cardinality(Nodes)
        BY <1>4, <4>1, RoomLemma
      <4>3. QED BY <1>2, <4>1, <4>2
    <3>3. QED BY <1>4, <3>1, <3>2 DEF Kept
  <2>2. p = Append(idle, n)
    BY <1>1, <2>1
  <2>3. QED BY <1>4, <2>2, SendLemma
<1>5. QED BY <1>3, <1>4

(* The first node of the queue is taken.                                   *)
LEMMA TakenLemma ==
  ASSUME PlayerInv, PlayerParameters, idle # <<>>, NEW n, n = Head(idle), NEW t, t = Tail(idle)
  PROVE  /\ n \in Nodes /\ n # NoNode /\ t \in Seq(Nodes) /\ Len(t) = Len(idle) - 1
         /\ ToSet(idle) = ToSet(t) \cup {n}
         /\ Kept => IsInjective(t) /\ n \notin ToSet(t) /\ n \notin ToSet(dsp)
<1>1. idle \in Seq(Nodes) /\ NoNode \notin Nodes /\ (Kept => NodesApart)
  BY DEF PlayerInv, PlayerTypes, PlayerParameters
<1>2. /\ n \in Nodes /\ n \in ToSet(idle) /\ t \in Seq(Nodes) /\ ToSet(idle) = ToSet(t) \cup {n}
      /\ IsInjective(idle) => IsInjective(t) /\ n \notin ToSet(t)
  BY <1>1, ReceiveLemma
<1>3. Len(t) = Len(idle) - 1
  BY <1>1
<1>4. QED BY <1>1, <1>2, <1>3 DEF NodesApart

(* The invariant holds at the start.                                       *)
LEMMA PlayerInit ==
  ASSUME PlayerParameters, SongInit
  PROVE  PlayerInv
<1>1. /\ idle = <<>> /\ heap = {} /\ dsp = <<>> /\ at = "out" /\ player \in Players /\ i = 0
      /\ node = NoNode /\ rv = "MI_RETURN_OK" /\ stream = FALSE /\ left = 0 /\ starved = FALSE
      /\ doubled = 0
  BY DEF SongInit
<1>2. /\ IDLE_QUEUE_SIZE \in Nat /\ NODE_COUNT \in Nat /\ Frames \in Nat
      /\ DoublesMax \in Nat
  BY DEF PlayerParameters
<1>3. ToSet(<<>>) = {} /\ IsInjective(<<>>) /\ Len(<<>>) = 0
  BY DEF ToSet, IsInjective
<1>4. <<>> \in Seq(Nodes)
  OBVIOUS
<1>5. NodesApart /\ CountAt
  BY <1>1, <1>3 DEF NodesApart, Held, CountAt, NodesCounted
<1>6. PlayerTypes /\ PlayerRoles
  <2>1. PlayerTypes
    <3>1. Len(idle) <= IDLE_QUEUE_SIZE /\ i \in 0 .. NODE_COUNT /\ left \in 0 .. Frames
          /\ doubled \in 0 .. DoublesMax
      BY <1>1, <1>2, <1>3
    <3>2. idle \in Seq(Nodes) /\ dsp \in Seq(Nodes)
      BY <1>1, <1>4
    <3>3. QED BY <1>1, <3>1, <3>2 DEF PlayerTypes
  <2>2. PlayerRoles
    BY <1>1 DEF PlayerRoles
  <2>3. QED BY <2>1, <2>2
<1>7. QED BY <1>5, <1>6 DEF PlayerInv

(* Steps that leave the nodes where they are.                              *)
LEMMA QuietSteps ==
  ASSUME PlayerParameters, PlayerInv,
         \/ OpenSong \/ Prepare \/ Mp3Turn \/ Mp3End
         \/ FlacTurn \/ CompleteSong \/ CloseSong
  PROVE  PlayerInv'
<1>1. PlayerTypes /\ PlayerRoles /\ (Kept => NodesApart) /\ (Whole => CountAt)
  BY DEF PlayerInv
<1>2. /\ NODE_COUNT \in Nat /\ NODE_COUNT # 0 /\ Frames \in Nat /\ Players \subseteq {"mp3", "flac"}
  BY DEF PlayerParameters
<1>3. UNCHANGED <<idle, heap, dsp, node, starved, doubled>>
  BY DEF OpenSong, Prepare, Mp3Turn, Mp3End, FlacTurn,
         CompleteSong, CloseSong, poolVars, flaws
<1>4. /\ idle' \in Seq(Nodes) /\ Len(idle') <= IDLE_QUEUE_SIZE /\ heap' \subseteq Nodes
      /\ dsp' \in Seq(Nodes) /\ node' \in Nodes \cup {NoNode} /\ starved' \in BOOLEAN
      /\ doubled' \in 0 .. DoublesMax
  BY <1>1, <1>3 DEF PlayerTypes
<1>5. (Kept => NodesApart)'
  BY <1>1, <1>3 DEF Kept, HeapFits, Whole, NodesApart, Held
<1>6. NodesCounted' = NodesCounted
  BY <1>3 DEF NodesCounted
<1>a. Whole' = Whole
  BY <1>3 DEF Whole
<1>7. SUFFICES /\ PlayerRoles' /\ (Whole => CountAt)'
               /\ at' \in {"out", "allocate", "decode", "output", "done", "complete", "free"}
               /\ player' \in Players /\ i' \in 0 .. NODE_COUNT /\ stream' \in BOOLEAN
               /\ left' \in 0 .. Frames
               /\ rv' \in {"MI_RETURN_OK", "MI_STOPPED_BY_REQUEST", "MI_END_OF_SONG",
                           "MI_ERROR_INVALID_FORMAT", "MI_ERROR_DECODE_ERROR", "MI_ERROR_OUT_OF_MEMORY"}
  BY <1>4, <1>5 DEF PlayerInv, PlayerTypes
<1>8. PICK n : n = NodesCounted
  OBVIOUS
<1>9. Whole =>
        /\ at = "out" => n = 0
        /\ at = "allocate" => n + i = NODE_COUNT
        /\ at \in {"decode", "output", "done", "complete"} => n = NODE_COUNT /\ i = NODE_COUNT
        /\ at = "free" => n = i
  BY <1>1, <1>8 DEF CountAt
<1>10. SUFFICES /\ PlayerRoles'
                /\ Whole =>
                     /\ at' = "out" => n = 0
                     /\ at' = "allocate" => n + i' = NODE_COUNT
                     /\ at' \in {"decode", "output", "done", "complete"} => n = NODE_COUNT /\ i' = NODE_COUNT
                     /\ at' = "free" => n = i'
                /\ at' \in {"out", "allocate", "decode", "output", "done", "complete", "free"}
                /\ player' \in Players /\ i' \in 0 .. NODE_COUNT /\ stream' \in BOOLEAN
                /\ left' \in 0 .. Frames
                /\ rv' \in {"MI_RETURN_OK", "MI_STOPPED_BY_REQUEST", "MI_END_OF_SONG",
                            "MI_ERROR_INVALID_FORMAT", "MI_ERROR_DECODE_ERROR", "MI_ERROR_OUT_OF_MEMORY"}
  BY <1>3, <1>6, <1>8, <1>a DEF CountAt
<1>11. n \in Nat
  BY <1>1, <1>8 DEF PlayerTypes, NodesCounted
<1>12. CASE OpenSong
  <2>1. /\ at = "out" /\ player' \in Players /\ left' \in 0 .. Frames /\ node = NoNode
        /\ node' = NoNode
    BY <1>1, <1>3, <1>12 DEF OpenSong, PlayerRoles
  <2>2. \/ rv' = "MI_ERROR_INVALID_FORMAT" /\ at' = "out" /\ i' = i /\ stream' = stream
        \/ stream' = TRUE /\ rv' = "MI_RETURN_OK" /\ i' = NODE_COUNT /\ at' = "allocate"
        \/ stream' = TRUE /\ rv' = "MI_ERROR_INVALID_FORMAT" /\ i' = 0 /\ at' = "free"
    BY <1>12, <2>1 DEF OpenSong
  <2>3. i \in 0 .. NODE_COUNT /\ 0 \in 0 .. NODE_COUNT /\ NODE_COUNT \in 0 .. NODE_COUNT
        /\ stream \in BOOLEAN /\ at = "out" /\ ~stream /\ (Whole => n = 0)
    BY <1>1, <1>2, <1>9, <2>1 DEF PlayerTypes, PlayerRoles
  <2>4. i' \in 0 .. NODE_COUNT /\ stream' \in BOOLEAN
    BY <2>2, <2>3
  <2>5. PlayerRoles'
    <3>1. node' = NoNode /\ (at' = "out" => ~stream') /\ at' \in {"out", "allocate", "free"}
      BY <2>1, <2>2, <2>3
    <3>2. QED BY <3>1 DEF PlayerRoles
  <2>6. Whole =>
          /\ at' = "out" => n = 0
          /\ at' = "allocate" => n + i' = NODE_COUNT
          /\ at' = "free" => n = i'
    BY <1>2, <2>2, <2>3
  <2>7. at' \in {"out", "allocate", "free"} /\ rv' \in {"MI_ERROR_INVALID_FORMAT", "MI_RETURN_OK"}
    BY <2>2
  <2>8. QED BY <2>1, <2>4, <2>5, <2>6, <2>7
<1>13. CASE Prepare
  BY <1>1, <1>2, <1>3, <1>9, <1>11, <1>13 DEF Prepare, ToFree, PlayerTypes, PlayerRoles
<1>14. CASE Mp3Turn
  BY <1>1, <1>2, <1>3, <1>9, <1>11, <1>14 DEF Mp3Turn, PlayerTypes, PlayerRoles
<1>15. CASE Mp3End
  BY <1>1, <1>2, <1>3, <1>9, <1>11, <1>15 DEF Mp3End, PlayerTypes, PlayerRoles
<1>16. CASE FlacTurn
  BY <1>1, <1>2, <1>3, <1>9, <1>11, <1>16 DEF FlacTurn, AtEnd, PlayerTypes, PlayerRoles
<1>17. CASE CompleteSong
  BY <1>1, <1>2, <1>3, <1>9, <1>11, <1>17 DEF CompleteSong, PlayerTypes, PlayerRoles
<1>18. CASE CloseSong
  BY <1>1, <1>2, <1>3, <1>9, <1>11, <1>18 DEF CloseSong, PlayerTypes, PlayerRoles
<1>19. QED BY <1>12, <1>13, <1>14, <1>15, <1>16, <1>17, <1>18

(* The player takes a node from the queue.                                 *)
LEMMA TakeSteps ==
  ASSUME PlayerParameters, PlayerInv, Mp3Take \/ FlacTake
  PROVE  PlayerInv'
<1>1. PlayerTypes /\ PlayerRoles /\ (Kept => NodesApart) /\ (Whole => CountAt)
  BY DEF PlayerInv
<1>2. PICK n : n = Head(idle)
  OBVIOUS
<1>3. PICK t : t = Tail(idle)
  OBVIOUS
<1>4. /\ idle # <<>> /\ node = NoNode /\ node' = n /\ idle' = t
      /\ UNCHANGED <<heap, dsp, at, player, i, rv, stream, left, starved, doubled>>
      /\ (player = "mp3" /\ at = "output") \/ (player = "flac" /\ at = "decode")
  BY <1>2, <1>3 DEF Mp3Take, FlacTake, TakeNode, flaws
<1>5. /\ n \in Nodes /\ n # NoNode /\ t \in Seq(Nodes) /\ Len(t) = Len(idle) - 1
      /\ ToSet(idle) = ToSet(t) \cup {n}
      /\ Kept => IsInjective(t) /\ n \notin ToSet(t) /\ n \notin ToSet(dsp)
  BY <1>2, <1>3, <1>4, TakenLemma
<1>6. Len(idle) \in Nat /\ Len(dsp) \in Nat /\ IDLE_QUEUE_SIZE \in Nat /\ Len(idle) <= IDLE_QUEUE_SIZE
  BY <1>1 DEF PlayerTypes, PlayerParameters
<1>7. PlayerTypes'
  <2>1. Len(t) <= IDLE_QUEUE_SIZE
    BY <1>5, <1>6
  <2>2. QED BY <1>1, <1>4, <1>5, <2>1 DEF PlayerTypes
<1>8. PlayerRoles'
  BY <1>1, <1>4, <1>5 DEF PlayerRoles
<1>9. Kept' => NodesApart'
  <2>1. SUFFICES ASSUME Kept PROVE NodesApart'
    BY <1>4 DEF Kept, HeapFits, Whole
  <2>2. NodesApart /\ IsInjective(t) /\ n \notin ToSet(t) /\ n \notin ToSet(dsp)
    BY <1>1, <1>5, <2>1
  <2>3. QED BY <1>4, <1>5, <2>2 DEF NodesApart, Held
<1>10. NodesCounted' = NodesCounted
  BY <1>4, <1>5, <1>6 DEF NodesCounted
<1>11. QED BY <1>1, <1>4, <1>7, <1>8, <1>9, <1>10 DEF PlayerInv, CountAt, Whole

(* The DSP is lent a node.                                                 *)
LEMMA LendSteps ==
  ASSUME PlayerParameters, PlayerInv, node # NoNode, at = "output", Lend,
         rv' \in {"MI_RETURN_OK", rv}, at' = "decode",
         UNCHANGED <<idle, heap, player, i, stream, left, starved, doubled>>
  PROVE  PlayerInv'
<1>1. PlayerTypes /\ PlayerRoles /\ (Kept => NodesApart) /\ (Whole => CountAt)
  BY DEF PlayerInv
<1>2. dsp' = Append(dsp, node) /\ node' = NoNode /\ node \in Nodes /\ dsp \in Seq(Nodes)
  BY <1>1 DEF Lend, AfterLoan, PlayerTypes
<1>3. /\ dsp' \in Seq(Nodes) /\ ToSet(dsp') = ToSet(dsp) \cup {node} /\ Len(dsp') = Len(dsp) + 1
      /\ IsInjective(dsp) /\ node \notin ToSet(dsp) => IsInjective(dsp')
  BY <1>2, SendLemma
<1>4. Len(idle) \in Nat /\ Len(dsp) \in Nat
  BY <1>1 DEF PlayerTypes
<1>5. PlayerTypes'
  BY <1>1, <1>2, <1>3 DEF PlayerTypes
<1>6. PlayerRoles'
  BY <1>1, <1>2 DEF PlayerRoles
<1>7. Kept' => NodesApart'
  <2>1. SUFFICES ASSUME Kept PROVE NodesApart'
    BY DEF Kept, HeapFits, Whole
  <2>2. NodesApart
    BY <1>1, <2>1
  <2>3. NoNode \notin ToSet(idle) \cup ToSet(dsp')
    BY <1>1, <1>3 DEF PlayerTypes, PlayerParameters, ToSet
  <2>4. QED BY <1>2, <1>3, <2>2, <2>3 DEF NodesApart, Held
<1>8. NodesCounted' = NodesCounted
  BY <1>2, <1>3, <1>4 DEF NodesCounted
<1>9. QED BY <1>1, <1>5, <1>6, <1>7, <1>8 DEF PlayerInv, CountAt, Whole

(* The player gives its node back.                                         *)
LEMMA GiveSteps ==
  ASSUME PlayerParameters, PlayerInv, node # NoNode, at \in {"output", "done"},
         idle' = Given(node), node' = NoNode, 
         at = "output" /\ player = "mp3" => at' = "decode", at = "done" => at' = "complete",
         at = "done" \/ player = "mp3",
         rv' \in {rv, "MI_ERROR_DECODE_ERROR"}, UNCHANGED <<dsp, heap, player, i, stream, left, starved, doubled>>
  PROVE  PlayerInv'
<1>1. PlayerTypes /\ PlayerRoles /\ (Kept => NodesApart) /\ (Whole => CountAt)
  BY DEF PlayerInv
<1>2. /\ idle \in Seq(Nodes) /\ Len(idle) <= IDLE_QUEUE_SIZE /\ node \in Nodes
      /\ Len(idle) \in Nat /\ Len(dsp) \in Nat /\ NODE_COUNT \in Nat
  BY <1>1 DEF PlayerTypes, PlayerParameters
<1>3. Whole => Len(idle) < NODE_COUNT /\ NodesCounted = NODE_COUNT /\ i = NODE_COUNT
  <2>1. Whole => NodesCounted = NODE_COUNT /\ i = NODE_COUNT
    BY <1>1 DEF CountAt
  <2>2. NodesCounted = Len(idle) + Len(dsp) + 1
    BY DEF NodesCounted
  <2>3. QED BY <1>2, <2>1, <2>2
<1>4. /\ idle' \in Seq(Nodes) /\ Len(idle') <= IDLE_QUEUE_SIZE
      /\ Kept /\ IsInjective(idle) /\ node \notin ToSet(idle) =>
           /\ Len(idle') = Len(idle) + 1
           /\ IsInjective(idle') /\ ToSet(idle') = ToSet(idle) \cup {node}
  BY <1>2, <1>3, GivenLemma
<1>5. Kept => NodesApart /\ IsInjective(idle) /\ node \notin ToSet(idle)
  BY <1>1 DEF NodesApart
<1>6. at' \in {"decode", "complete"} /\ (at' = "complete" => player = "flac")
      /\ (at' = "decode" => player = "mp3")
  BY <1>1 DEF PlayerRoles
<1>7. PlayerTypes'
  BY <1>1, <1>4, <1>6 DEF PlayerTypes
<1>8. PlayerRoles'
  BY <1>1, <1>6 DEF PlayerRoles
<1>9. Kept' => NodesApart'
  <2>1. SUFFICES ASSUME Kept PROVE NodesApart'
    BY DEF Kept, HeapFits, Whole
  <2>2. NodesApart /\ IsInjective(idle') /\ ToSet(idle') = ToSet(idle) \cup {node}
    BY <1>4, <1>5, <2>1
  <2>3. NoNode \notin ToSet(idle') \cup ToSet(dsp)
    BY <1>1, <1>4 DEF PlayerTypes, PlayerParameters, ToSet
  <2>4. QED BY <2>2, <2>3 DEF NodesApart, Held
<1>10. Whole => NodesCounted' = NODE_COUNT /\ i = NODE_COUNT
  <2>1. SUFFICES ASSUME Whole PROVE NodesCounted' = NODE_COUNT /\ i = NODE_COUNT
    OBVIOUS
  <2>2. Len(idle') = Len(idle) + 1
    BY <1>4, <1>5, <2>1 DEF Kept
  <2>3. QED BY <1>2, <1>3, <2>1, <2>2 DEF NodesCounted
<1>11. Whole' => CountAt'
  BY <1>6, <1>10 DEF CountAt, Whole
<1>12. QED BY <1>7, <1>8, <1>9, <1>11 DEF PlayerInv

(* dsp_callback gives a node back.                                         *)
LEMMA CallbackStep ==
  ASSUME PlayerParameters, PlayerInv, DspCallback
  PROVE  PlayerInv'
<1>1. PlayerTypes /\ PlayerRoles /\ (Kept => NodesApart) /\ (Whole => CountAt)
  BY DEF PlayerInv
<1>2. PICK n : n = Head(dsp)
  OBVIOUS
<1>3. /\ dsp # <<>> /\ idle' = Given(n) /\ dsp' = Tail(dsp)
      /\ UNCHANGED <<heap, at, player, i, node, rv, stream, left, starved, doubled>>
  BY <1>2 DEF DspCallback, flaws
<1>4. /\ idle \in Seq(Nodes) /\ Len(idle) <= IDLE_QUEUE_SIZE /\ dsp \in Seq(Nodes)
      /\ Len(idle) \in Nat /\ Len(dsp) \in Nat /\ NODE_COUNT \in Nat /\ i \in Nat /\ i <= NODE_COUNT
  BY <1>1 DEF PlayerTypes, PlayerParameters
<1>5. /\ n \in Nodes /\ n \in ToSet(dsp) /\ dsp' \in Seq(Nodes) /\ ToSet(dsp) = ToSet(dsp') \cup {n}
      /\ IsInjective(dsp) => IsInjective(dsp') /\ n \notin ToSet(dsp')
  BY <1>2, <1>3, <1>4, ReceiveLemma
<1>6. Len(dsp) > 0 /\ Len(dsp') = Len(dsp) - 1
  BY <1>3, <1>4
<1>7. Whole => NodesCounted <= NODE_COUNT
  <2>1. SUFFICES ASSUME CountAt PROVE NodesCounted <= NODE_COUNT
    BY <1>1
  <2>2. PICK k : k = NodesCounted
    OBVIOUS
  <2>3. k \in Nat
    BY <1>4, <2>2 DEF NodesCounted
  <2>4. \/ k = 0 \/ k + i = NODE_COUNT \/ k = NODE_COUNT \/ k = i
    BY <1>1, <2>1, <2>2 DEF CountAt, PlayerTypes
  <2>5. QED BY <1>4, <2>2, <2>3, <2>4
<1>8. Whole => Len(idle) < NODE_COUNT
  BY <1>4, <1>6, <1>7 DEF NodesCounted
<1>9. /\ idle' \in Seq(Nodes) /\ Len(idle') <= IDLE_QUEUE_SIZE
      /\ Kept /\ IsInjective(idle) /\ n \notin ToSet(idle) =>
           /\ Len(idle') = Len(idle) + 1
           /\ IsInjective(idle') /\ ToSet(idle') = ToSet(idle) \cup {n}
  BY <1>3, <1>4, <1>5, <1>8, GivenLemma
<1>10. Kept => NodesApart /\ IsInjective(idle) /\ n \notin ToSet(idle)
  BY <1>1, <1>5 DEF NodesApart
<1>11. PlayerTypes'
  BY <1>1, <1>3, <1>5, <1>9 DEF PlayerTypes
<1>12. PlayerRoles'
  BY <1>1, <1>3 DEF PlayerRoles
<1>13. Kept' => NodesApart'
  <2>1. SUFFICES ASSUME Kept PROVE NodesApart'
    BY <1>3 DEF Kept, HeapFits, Whole
  <2>2. NodesApart /\ IsInjective(idle') /\ ToSet(idle') = ToSet(idle) \cup {n}
    BY <1>9, <1>10, <2>1
  <2>3. QED BY <1>3, <1>5, <2>2 DEF NodesApart, Held
<1>14. Whole => NodesCounted' = NodesCounted
  <2>1. SUFFICES ASSUME Whole PROVE NodesCounted' = NodesCounted
    OBVIOUS
  <2>2. Len(idle') = Len(idle) + 1
    BY <1>9, <1>10, <2>1 DEF Kept
  <2>3. QED BY <1>3, <1>4, <1>6, <2>2 DEF NodesCounted
<1>15. Whole' => CountAt'
  BY <1>1, <1>3, <1>14 DEF CountAt, Whole
<1>16. QED BY <1>11, <1>12, <1>13, <1>15 DEF PlayerInv

(* A node is allocated, or the heap has none.                              *)
LEMMA AllocateStep ==
  ASSUME PlayerParameters, PlayerInv, Allocate
  PROVE  PlayerInv'
<1>1. PlayerTypes /\ PlayerRoles /\ (Kept => NodesApart) /\ (Whole => CountAt)
  BY DEF PlayerInv
<1>2. /\ at = "allocate" /\ i > 0 /\ i' = i - 1 /\ node = NoNode
      /\ UNCHANGED <<dsp, player, node, stream, left>> /\ doubled' = doubled
  BY <1>1 DEF Allocate, PlayerRoles, flaws
<1>3. /\ idle \in Seq(Nodes) /\ Len(idle) <= IDLE_QUEUE_SIZE /\ dsp \in Seq(Nodes)
      /\ Len(idle) \in Nat /\ Len(dsp) \in Nat /\ NODE_COUNT \in Nat /\ i \in Nat /\ i <= NODE_COUNT
      /\ heap \subseteq Nodes
  BY <1>1 DEF PlayerTypes, PlayerParameters
<1>4. i' \in 0 .. NODE_COUNT
  BY <1>2, <1>3
<1>5. CASE \E n \in Nodes \ heap : heap' = heap \cup {n} /\ idle' = Given(n)
                                   /\ UNCHANGED <<at, rv, flaws>>
  <2>1. PICK n \in Nodes \ heap : heap' = heap \cup {n} /\ idle' = Given(n)
    BY <1>5
  <2>2. UNCHANGED <<at, rv, starved, doubled>>
    BY <1>5 DEF flaws
  <2>3. Whole => NodesCounted + i = NODE_COUNT
    BY <1>1, <1>2 DEF CountAt
  <2>4. Whole => Len(idle) < NODE_COUNT
    BY <1>2, <1>3, <2>3 DEF NodesCounted
  <2>5. Kept => NodesApart /\ IsInjective(idle) /\ n \notin ToSet(idle) /\ n \notin ToSet(dsp)
    BY <1>1, <2>1 DEF NodesApart
  <2>6. /\ idle' \in Seq(Nodes) /\ Len(idle') <= IDLE_QUEUE_SIZE
        /\ Kept /\ IsInjective(idle) /\ n \notin ToSet(idle) =>
             /\ Len(idle') = Len(idle) + 1
             /\ IsInjective(idle') /\ ToSet(idle') = ToSet(idle) \cup {n}
    BY <1>3, <2>1, <2>4, GivenLemma
  <2>7. PlayerTypes'
    BY <1>1, <1>2, <1>3, <1>4, <2>1, <2>2, <2>6 DEF PlayerTypes
  <2>8. PlayerRoles'
    BY <1>1, <1>2, <2>2 DEF PlayerRoles
  <2>9. Kept' => NodesApart'
    <3>1. SUFFICES ASSUME Kept PROVE NodesApart'
      BY <2>2 DEF Kept, HeapFits, Whole
    <3>2. /\ NodesApart /\ IsInjective(idle') /\ ToSet(idle') = ToSet(idle) \cup {n}
          /\ n \notin ToSet(dsp)
      BY <2>5, <2>6, <3>1
    <3>3. NoNode \notin ToSet(idle') \cup ToSet(dsp)
      BY <1>3, <2>6 DEF PlayerParameters, ToSet
    <3>4. QED BY <1>2, <2>1, <3>2, <3>3 DEF NodesApart, Held
  <2>10. Whole => NodesCounted' + i' = NODE_COUNT
    <3>1. SUFFICES ASSUME Whole PROVE NodesCounted' + i' = NODE_COUNT
      OBVIOUS
    <3>2. Len(idle') = Len(idle) + 1
      BY <2>5, <2>6, <3>1 DEF Kept
    <3>3. QED BY <1>2, <1>3, <2>3, <3>1, <3>2 DEF NodesCounted
  <2>11. Whole' => CountAt'
    BY <1>2, <2>2, <2>10 DEF CountAt, Whole
  <2>12. QED BY <2>7, <2>8, <2>9, <2>11 DEF PlayerInv
<1>6. CASE rv' = "MI_ERROR_OUT_OF_MEMORY" /\ at' = "free" /\ starved' = TRUE /\ UNCHANGED <<heap, idle>>
  <2>1. PlayerTypes'
    BY <1>1, <1>2, <1>4, <1>6 DEF PlayerTypes
  <2>2. PlayerRoles'
    BY <1>2, <1>6 DEF PlayerRoles
  <2>3. Kept' => NodesApart'
    BY <1>1, <1>2, <1>6 DEF Kept, HeapFits, Whole, NodesApart, Held
  <2>4. QED BY <1>6, <2>1, <2>2, <2>3 DEF PlayerInv, Whole
<1>7. QED BY <1>5, <1>6 DEF Allocate

(* A node is freed.                                                        *)
LEMMA FreeStep ==
  ASSUME PlayerParameters, PlayerInv, FreeNode
  PROVE  PlayerInv'
<1>1. PlayerTypes /\ PlayerRoles /\ (Kept => NodesApart) /\ (Whole => CountAt)
  BY DEF PlayerInv
<1>2. PICK n : n = Head(idle)
  OBVIOUS
<1>3. PICK t : t = Tail(idle)
  OBVIOUS
<1>4. /\ at = "free" /\ i > 0 /\ idle # <<>> /\ idle' = t /\ heap' = heap \ {n} /\ i' = i - 1
      /\ node = NoNode /\ UNCHANGED <<dsp, at, player, node, rv, stream, left, starved, doubled>>
  BY <1>1, <1>2, <1>3 DEF FreeNode, PlayerRoles, flaws
<1>5. /\ n \in Nodes /\ n # NoNode /\ t \in Seq(Nodes) /\ Len(t) = Len(idle) - 1
      /\ ToSet(idle) = ToSet(t) \cup {n}
      /\ Kept => IsInjective(t) /\ n \notin ToSet(t) /\ n \notin ToSet(dsp)
  BY <1>2, <1>3, <1>4, TakenLemma
<1>6. /\ Len(idle) \in Nat /\ Len(dsp) \in Nat /\ IDLE_QUEUE_SIZE \in Nat /\ Len(idle) <= IDLE_QUEUE_SIZE
      /\ i \in Nat /\ i <= NODE_COUNT /\ NODE_COUNT \in Nat /\ heap \subseteq Nodes
  BY <1>1 DEF PlayerTypes, PlayerParameters
<1>7. PlayerTypes'
  <2>1. Len(t) <= IDLE_QUEUE_SIZE /\ i' \in 0 .. NODE_COUNT /\ heap' \subseteq Nodes
    BY <1>4, <1>5, <1>6
  <2>2. QED BY <1>1, <1>4, <1>5, <2>1 DEF PlayerTypes
<1>8. PlayerRoles'
  BY <1>1, <1>4 DEF PlayerRoles
<1>9. Kept' => NodesApart'
  <2>1. SUFFICES ASSUME Kept PROVE NodesApart'
    BY <1>4 DEF Kept, HeapFits, Whole
  <2>2. NodesApart /\ IsInjective(t) /\ n \notin ToSet(t) /\ n \notin ToSet(dsp)
    BY <1>1, <1>5, <2>1
  <2>3. QED BY <1>4, <1>5, <2>2 DEF NodesApart, Held
<1>10. NodesCounted' = NodesCounted - 1
  BY <1>4, <1>5, <1>6 DEF NodesCounted
<1>11. Whole' => CountAt'
  <2>1. SUFFICES ASSUME Whole PROVE NodesCounted' = i'
    BY <1>4 DEF CountAt, Whole
  <2>2. NodesCounted = i
    BY <1>1, <1>4, <2>1 DEF CountAt
  <2>3. QED BY <1>4, <1>10, <2>2
<1>12. QED BY <1>7, <1>8, <1>9, <1>11 DEF PlayerInv

(* Every step of the players and of the DSP keeps the invariant.           *)
LEMMA PlayerNext ==
  ASSUME PlayerParameters, PlayerInv, [SongNext]_songVars
  PROVE  PlayerInv'
<1>1. PlayerTypes /\ PlayerRoles /\ (Kept => NodesApart) /\ (Whole => CountAt)
  BY DEF PlayerInv
<1>2. CASE UNCHANGED songVars
  <2>1. UNCHANGED <<idle, heap, dsp, at, player, i, node, rv, stream, left, starved, doubled>>
    BY <1>2 DEF songVars, poolVars, flaws
  <2>2. PlayerTypes' /\ PlayerRoles'
    BY <1>1, <2>1 DEF PlayerTypes, PlayerRoles
  <2>3. Kept' => NodesApart'
    BY <1>1, <2>1 DEF Kept, HeapFits, Whole, NodesApart, Held
  <2>4. Whole' => CountAt'
    BY <1>1, <2>1 DEF CountAt, NodesCounted, Whole
  <2>5. QED BY <2>2, <2>3, <2>4 DEF PlayerInv
<1>3. CASE Mp3Output
  <2>1. /\ player = "mp3" /\ at = "output" /\ node # NoNode /\ at' = "decode"
        /\ UNCHANGED <<heap, player, i, stream, left, starved, doubled>>
    BY <1>3 DEF Mp3Output, flaws
  <2>2. CASE Lend /\ rv' = "MI_RETURN_OK" /\ UNCHANGED idle
    BY <2>1, <2>2, LendSteps
  <2>3. CASE idle' = Given(node) /\ node' = NoNode /\ rv' = "MI_ERROR_DECODE_ERROR" /\ UNCHANGED dsp
    BY <2>1, <2>3, GiveSteps
  <2>4. QED BY <1>3, <2>2, <2>3 DEF Mp3Output, TakenBack
<1>4. CASE FlacOutput
  <2>1. /\ player = "flac" /\ at = "output" /\ node # NoNode
        /\ UNCHANGED <<heap, player, i, stream, left, starved>>
    BY <1>1, <1>4 DEF FlacOutput, PlayerRoles
  <2>2. CASE Lend /\ at' = "decode" /\ UNCHANGED <<idle, rv, doubled>>
    BY <2>1, <2>2, LendSteps
  <2>3. CASE /\ doubled < DoublesMax /\ doubled' = doubled + 1 /\ idle' = Given(node)
             /\ at' = "done" /\ rv' = "MI_ERROR_DECODE_ERROR" /\ UNCHANGED <<dsp, node>>
    <3>1. doubled' \in 0 .. DoublesMax /\ doubled' # 0
      BY <1>1, <2>3 DEF PlayerTypes, PlayerParameters
    <3>2. idle' \in Seq(Nodes) /\ Len(idle') <= IDLE_QUEUE_SIZE
      <4>1. node \in Nodes /\ idle \in Seq(Nodes) /\ Len(idle) <= IDLE_QUEUE_SIZE
        BY <1>1, <2>1 DEF PlayerTypes
      <4>2. QED BY <2>3, <4>1, GivenLemma
    <3>3. PlayerTypes' /\ PlayerRoles'
      BY <1>1, <2>1, <2>3, <3>1, <3>2 DEF PlayerTypes, PlayerRoles
    <3>4. ~Kept' /\ ~Whole'
      BY <3>1 DEF Kept, Whole
    <3>5. QED BY <3>3, <3>4 DEF PlayerInv
  <2>4. QED BY <1>4, <2>2, <2>3 DEF FlacOutput
<1>5. CASE FlacDone
  <2>1. /\ at = "done" /\ at' = "complete" /\ node' = NoNode
        /\ idle' = (IF node = NoNode THEN idle ELSE Given(node))
        /\ UNCHANGED <<heap, dsp, player, i, rv, stream, left, starved, doubled>>
    BY <1>5 DEF FlacDone, flaws
  <2>2. CASE node # NoNode
    BY <2>1, <2>2, GiveSteps
  <2>3. CASE node = NoNode
    <3>1. UNCHANGED <<idle, heap, dsp, node>>
      BY <2>1, <2>3
    <3>2. PlayerTypes' /\ PlayerRoles'
      BY <1>1, <2>1, <2>3, <3>1 DEF PlayerTypes, PlayerRoles
    <3>3. Kept' => NodesApart'
      BY <1>1, <2>1, <3>1 DEF Kept, HeapFits, Whole, NodesApart, Held
    <3>4. Whole' => CountAt'
      BY <1>1, <2>1, <3>1 DEF CountAt, NodesCounted, Whole
    <3>5. QED BY <3>2, <3>3, <3>4 DEF PlayerInv
  <2>4. QED BY <2>2, <2>3
<1>6. QED
  BY <1>2, <1>3, <1>4, <1>5, QuietSteps, TakeSteps, CallbackStep, AllocateStep, FreeStep
     DEF SongNext, Song

(* The invariant of every behaviour.                                       *)
LEMMA PlayerSafe == SongSpec => []PlayerInv
<1>1. SongInit => PlayerInv
  BY PlayerInit, ParametersHold
<1>2. PlayerInv /\ [SongNext]_songVars => PlayerInv'
  BY PlayerNext, ParametersHold
<1>3. QED BY <1>1, <1>2, PTL DEF SongSpec

(* A node belongs to the queue, to the player or to the DSP and to one of  *)
(* them, and is freed once, for any nodes, players and lengths of songs:   *)
(* if __idle can hold all nodes of the heap, until the DSP refuses the     *)
(* flac player a frame, whose node media-flac.c gives back twice; else     *)
(* until then or until the heap refuses a node.                            *)
THEOREM NodeHasOneOwner ==
  SongSpec => [](HeapFits \/ ~starved => NodesOwned)
<1>1. ASSUME PlayerInv, HeapFits \/ ~starved, doubled = 0 PROVE NodesOwned
  <2>1. PlayerTypes /\ NodesApart
    BY <1>1 DEF PlayerInv, Kept, Whole
  <2>2. SongTypeOK
    BY <2>1 DEF PlayerTypes, SongTypeOK
  <2>3. PICK held \in Seq(Nodes) : /\ held = (IF node = NoNode THEN <<>> ELSE <<node>>)
                                   /\ IsInjective(held) /\ ToSet(held) = Held
    <3>1. CASE node = NoNode
      <4>1. <<>> \in Seq(Nodes) /\ IsInjective(<<>>) /\ ToSet(<<>>) = {}
        BY DEF IsInjective, ToSet
      <4>2. QED BY <3>1, <4>1 DEF Held
    <3>2. CASE node # NoNode
      <4>1. <<node>> \in Seq(Nodes) /\ Len(<<node>>) = 1 /\ DOMAIN <<node>> = {1} /\ <<node>>[1] = node
        BY <2>1, <3>2 DEF PlayerTypes
      <4>2. IsInjective(<<node>>) /\ ToSet(<<node>>) = {node}
        BY <4>1 DEF IsInjective, ToSet
      <4>3. QED BY <3>2, <4>1, <4>2 DEF Held
    <3>3. QED BY <3>1, <3>2
  <2>4. PICK both \in Seq(Nodes) : /\ both = idle \o dsp /\ IsInjective(both)
                                   /\ ToSet(both) = ToSet(idle) \cup ToSet(dsp)
    <3>1. /\ idle \in Seq(Nodes) /\ dsp \in Seq(Nodes) /\ IsInjective(idle) /\ IsInjective(dsp)
          /\ ToSet(idle) \cap ToSet(dsp) = {}
      BY <2>1 DEF NodesApart, PlayerTypes
    <3>2. /\ idle \o dsp \in Seq(Nodes) /\ IsInjective(idle \o dsp)
          /\ ToSet(idle \o dsp) = ToSet(idle) \cup ToSet(dsp)
      BY <3>1, ConcatLemma
    <3>3. QED BY <3>2
  <2>5. PICK all : all = both \o held
    OBVIOUS
  <2>6. IsInjective(all) /\ ToSet(all) = heap
    <3>1. ToSet(both) \cap ToSet(held) = {} /\ heap = ToSet(both) \cup ToSet(held)
      BY <2>1, <2>3, <2>4 DEF NodesApart, Held
    <3>2. both \in Seq(Nodes) /\ held \in Seq(Nodes) /\ IsInjective(both) /\ IsInjective(held)
      BY <2>3, <2>4
    <3>3. ToSet(both \o held) = ToSet(both) \cup ToSet(held)
      BY <3>2, ConcatLemma
    <3>4. IsInjective(both \o held)
      BY <3>1, <3>2, ConcatLemma
    <3>5. QED BY <2>5, <3>1, <3>3, <3>4
  <2>7. QED BY <2>2, <2>3, <2>4, <2>5, <2>6 DEF NodesOwned
<1>2. PlayerInv => (HeapFits \/ ~starved => NodesOwned)
  <2>1. PlayerInv => SongTypeOK
    BY DEF PlayerInv, PlayerTypes, SongTypeOK
  <2>2. PlayerInv /\ doubled # 0 => NodesOwned
    BY <2>1 DEF NodesOwned
  <2>3. QED BY <1>1, <2>2
<1>3. QED BY <1>2, PlayerSafe, PTL

(* When a song is over its file is closed, and unless the heap has refused *)
(* a node, or the DSP the flac player a frame, no node of it is left       *)
(* anywhere, whichever way it ended (the end of media_mp3_play and of      *)
(* media_flac_play).                                                       *)
THEOREM NothingLeftBehind == SongSpec => []SongLeavesNothing
<1>1. ASSUME PlayerInv, at = "out"
      PROVE  ~stream /\ (starved \/ doubled > 0 \/ (dsp = <<>> /\ idle = <<>> /\ heap = {}))
  <2>1. PlayerTypes /\ ~stream /\ node = NoNode
    BY <1>1 DEF PlayerInv, PlayerRoles
  <2>2. ASSUME ~starved, doubled = 0 PROVE dsp = <<>> /\ idle = <<>> /\ heap = {}
    <3>1. NodesApart /\ NodesCounted = 0
      BY <1>1, <2>2 DEF PlayerInv, Kept, Whole, CountAt
    <3>2. idle \in Seq(Nodes) /\ dsp \in Seq(Nodes) /\ Len(idle) + Len(dsp) + 0 = 0
      BY <2>1, <3>1 DEF PlayerTypes, NodesCounted
    <3>3. idle = <<>> /\ dsp = <<>>
      BY <3>2
    <3>4. QED BY <2>1, <3>1, <3>3 DEF NodesApart, Held, ToSet
  <2>3. starved \in BOOLEAN /\ (doubled = 0 \/ doubled > 0)
    BY <2>1 DEF PlayerTypes
  <2>4. QED BY <2>1, <2>2, <2>3
<1>2. PlayerInv => SongLeavesNothing
  BY <1>1 DEF SongLeavesNothing
<1>3. QED BY <1>2, PlayerSafe, PTL

-----------------------------------------------------------------------------
(* What SongReturns rests on: a song never waits for a node that nobody    *)
(* will give back, and it cannot go on for ever.                           *)

(* The player waits for a node, of the three receives from __idle.         *)
WaitsForNode ==
  /\ node = NoNode /\ idle = <<>>
  /\ at = "output" \/ (at = "decode" /\ player = "flac") \/ (at = "free" /\ i > 0)

(* There are at least as many nodes as the song will ask for, and more     *)
(* when one was given back twice.                                          *)
Enough ==
  /\ at = "allocate" => NodesCounted + i >= NODE_COUNT
  /\ at \in {"decode", "output", "done", "complete"} => NodesCounted >= NODE_COUNT
  /\ at = "free" => NodesCounted >= i

(* A node that is given back is in the queue, or the queue is full.        *)
LEMMA GivenCount ==
  ASSUME PlayerParameters, PlayerTypes, NEW n \in Nodes, NEW p, p = Given(n)
  PROVE  Len(p) \in Nat /\ (Len(p) = Len(idle) + 1 \/ (Len(p) = Len(idle) /\ Len(p) >= NODE_COUNT))
<1>1. /\ idle \in Seq(Nodes) /\ Len(idle) <= IDLE_QUEUE_SIZE /\ Len(idle) \in Nat
      /\ IDLE_QUEUE_SIZE \in Nat /\ NODE_COUNT \in Nat /\ NODE_COUNT <= IDLE_QUEUE_SIZE
  BY DEF PlayerTypes, PlayerParameters
<1>2. CASE Len(idle) < IDLE_QUEUE_SIZE
  BY <1>1, <1>2 DEF Given
<1>3. CASE ~(Len(idle) < IDLE_QUEUE_SIZE)
  BY <1>1, <1>3 DEF Given
<1>4. QED BY <1>2, <1>3

(* Every step keeps enough of them, until the heap refuses one.            *)
LEMMA EnoughNext ==
  ASSUME PlayerInv, Enough, [SongNext]_songVars, ~starved'
  PROVE  Enough'
<1>1. PlayerParameters /\ PlayerTypes /\ PlayerRoles
  BY ParametersHold DEF PlayerInv
<1>2. PICK k : k = NodesCounted
  OBVIOUS
<1>3. PICK m : m = NodesCounted'
  OBVIOUS
<1>4. /\ NODE_COUNT \in Nat /\ i \in Nat /\ i <= NODE_COUNT
      /\ idle \in Seq(Nodes) /\ dsp \in Seq(Nodes)
      /\ Len(idle) \in Nat /\ Len(dsp) \in Nat /\ NoNode \notin Nodes
      /\ node = NoNode \/ node \in Nodes
      /\ at \in {"out", "allocate", "decode", "output", "done", "complete", "free"}
  BY <1>1 DEF PlayerTypes, PlayerParameters
<1>5. k \in Nat /\ k = Len(idle) + Len(dsp) + (IF node = NoNode THEN 0 ELSE 1)
  BY <1>2, <1>4 DEF NodesCounted
<1>6. m = Len(idle') + Len(dsp') + (IF node' = NoNode THEN 0 ELSE 1)
  BY <1>3 DEF NodesCounted
<1>7. /\ at = "allocate" => k + i >= NODE_COUNT
      /\ at \in {"decode", "output", "done", "complete"} => k >= NODE_COUNT
      /\ at = "free" => k >= i
  BY <1>2 DEF Enough
<1>8. SUFFICES /\ at' = "allocate" => m + i' >= NODE_COUNT
               /\ at' \in {"decode", "output", "done", "complete"} => m >= NODE_COUNT
               /\ at' = "free" => m >= i'
  BY <1>3 DEF Enough
<1>9. ASSUME NEW n \in Nodes, NEW p, p = Given(n)
      PROVE  /\ Len(p) \in Nat
             /\ Len(p) = Len(idle) + 1 \/ (Len(p) = Len(idle) /\ Len(p) >= NODE_COUNT)
  BY <1>1, <1>9, GivenCount
<1>10. CASE UNCHANGED songVars
  BY <1>4, <1>5, <1>6, <1>7, <1>10 DEF songVars, poolVars
<1>11. CASE OpenSong
  <2>1. m = k /\ at = "out"
    BY <1>5, <1>6, <1>11 DEF OpenSong, poolVars
  <2>2. \/ at' = "out" \/ (i' = NODE_COUNT /\ at' = "allocate") \/ (i' = 0 /\ at' = "free")
    BY <1>11 DEF OpenSong
  <2>3. QED BY <1>4, <1>5, <2>1, <2>2
<1>12. CASE Prepare
  <2>1. m = k /\ at = "allocate" /\ i = 0 /\ i' = NODE_COUNT /\ at' \in {"decode", "free"}
    BY <1>5, <1>6, <1>12 DEF Prepare, poolVars, ToFree
  <2>2. QED BY <1>4, <1>5, <1>7, <2>1
<1>13. CASE Mp3Turn \/ Mp3End \/ FlacTurn \/ CompleteSong \/ CloseSong
  <2>1. /\ m = k /\ i' = i
        /\ \/ /\ at \in {"decode", "complete"}
              /\ at' \in {"decode", "output", "done", "complete", "free"}
           \/ at' = "out"
    BY <1>5, <1>6, <1>13 DEF Mp3Turn, Mp3End, FlacTurn, CompleteSong, CloseSong, poolVars
  <2>2. QED BY <1>4, <1>5, <1>7, <2>1
<1>14. CASE Mp3Take \/ FlacTake
  <2>1. /\ idle # <<>> /\ node = NoNode /\ node' = Head(idle) /\ idle' = Tail(idle)
        /\ UNCHANGED <<dsp, at, i>>
    BY <1>14 DEF Mp3Take, FlacTake, TakeNode
  <2>2. Head(idle) \in Nodes /\ Len(idle') = Len(idle) - 1
    BY <1>4, <2>1
  <2>3. m = k
    BY <1>4, <1>5, <1>6, <2>1, <2>2
  <2>4. QED BY <1>7, <2>1, <2>3
<1>15. CASE Mp3Output \/ FlacOutput \/ FlacDone
  <2>1. /\ at \in {"output", "done"} /\ at' \in {"decode", "done", "complete"} /\ k >= NODE_COUNT
    BY <1>7, <1>15 DEF Mp3Output, FlacOutput, FlacDone
  <2>2. \/ idle' = idle /\ dsp' = Append(dsp, node) /\ node' = NoNode /\ node # NoNode
        \/ idle' = Given(node) /\ dsp' = dsp /\ node \in Nodes
        \/ UNCHANGED <<idle, dsp, node>>
    BY <1>1, <1>4, <1>15 DEF Mp3Output, FlacOutput, FlacDone, Lend, AfterLoan, TakenBack, PlayerRoles
  <2>3. CASE idle' = idle /\ dsp' = Append(dsp, node) /\ node' = NoNode /\ node # NoNode
    <3>1. Len(dsp') = Len(dsp) + 1
      BY <1>4, <2>3
    <3>2. m = k
      BY <1>4, <1>5, <1>6, <2>3, <3>1
    <3>3. QED BY <2>1, <3>2
  <2>4. CASE idle' = Given(node) /\ dsp' = dsp /\ node \in Nodes
    <3>1. /\ Len(idle') \in Nat
          /\ Len(idle') = Len(idle) + 1 \/ (Len(idle') = Len(idle) /\ Len(idle') >= NODE_COUNT)
      BY <1>9, <2>4
    <3>2. k = Len(idle) + Len(dsp) + 1
      BY <1>4, <1>5, <2>4
    <3>3. m >= NODE_COUNT
      BY <1>4, <1>6, <2>1, <2>4, <3>1, <3>2
    <3>4. QED BY <2>1, <3>3
  <2>5. CASE UNCHANGED <<idle, dsp, node>>
    BY <1>5, <1>6, <2>1, <2>5
  <2>6. QED BY <2>2, <2>3, <2>4, <2>5
<1>16. CASE Allocate
  <2>1. /\ at = "allocate" /\ i > 0 /\ i' = i - 1 /\ UNCHANGED <<dsp, node, at>>
        /\ \E n \in Nodes : idle' = Given(n)
    BY <1>16 DEF Allocate
  <2>2. /\ Len(idle') \in Nat
        /\ Len(idle') = Len(idle) + 1 \/ (Len(idle') = Len(idle) /\ Len(idle') >= NODE_COUNT)
    BY <1>9, <2>1
  <2>3. QED BY <1>4, <1>5, <1>6, <1>7, <2>1, <2>2
<1>17. CASE FreeNode
  <2>1. /\ at = "free" /\ i > 0 /\ i' = i - 1 /\ UNCHANGED <<dsp, node, at>>
        /\ idle # <<>> /\ idle' = Tail(idle)
    BY <1>17 DEF FreeNode
  <2>2. Len(idle') = Len(idle) - 1
    BY <1>4, <2>1
  <2>3. QED BY <1>4, <1>5, <1>6, <1>7, <2>1, <2>2
<1>18. CASE DspCallback
  <2>1. /\ dsp # <<>> /\ idle' = Given(Head(dsp)) /\ dsp' = Tail(dsp) /\ UNCHANGED <<node, at, i>>
    BY <1>18 DEF DspCallback
  <2>2. Head(dsp) \in Nodes /\ Len(dsp') = Len(dsp) - 1 /\ Len(dsp) > 0
    BY <1>4, <2>1
  <2>3. /\ Len(idle') \in Nat
        /\ Len(idle') = Len(idle) + 1 \/ (Len(idle') = Len(idle) /\ Len(idle') >= NODE_COUNT)
    BY <1>9, <2>1, <2>2
  <2>4. m = k \/ m >= NODE_COUNT
    BY <1>4, <1>5, <1>6, <2>1, <2>2, <2>3
  <2>5. m \in Nat
    BY <1>4, <1>6, <2>1, <2>2, <2>3
  <2>6. QED BY <1>4, <1>5, <1>7, <2>1, <2>4, <2>5
<1>19. QED
  BY <1>10, <1>11, <1>12, <1>13, <1>14, <1>15, <1>16, <1>17, <1>18 DEF SongNext, Song

(* When the player waits for a node, in output_data, in play_song or to    *)
(* free it, the DSP has one to give back, unless the heap has refused one: *)
(* the loop that frees asks for no more nodes than there are, also when    *)
(* media-flac.c has given one back twice.                                  *)
THEOREM NodesComeBack ==
  SongSpec => [](WaitsForNode /\ ~starved => dsp # <<>>)
<1>1. ASSUME PlayerInv, Enough, WaitsForNode PROVE dsp # <<>>
  <2>1. Enough /\ idle = <<>> /\ node = NoNode
    BY <1>1 DEF WaitsForNode
  <2>2. NODE_COUNT \in Nat /\ NODE_COUNT # 0 /\ i \in Nat
    BY <1>1, ParametersHold DEF PlayerParameters, PlayerInv, PlayerTypes
  <2>3. NodesCounted # 0
    BY <1>1, <2>1, <2>2 DEF WaitsForNode, Enough
  <2>4. Len(idle) = 0 /\ (dsp = <<>> => Len(dsp) = 0)
    BY <2>1
  <2>5. QED BY <2>1, <2>3, <2>4 DEF NodesCounted
<1>2. PlayerInv => starved \in BOOLEAN
  BY DEF PlayerInv, PlayerTypes
<1>3. SongInit => (~starved => Enough)
  BY DEF SongInit, Enough
<1>4. PlayerInv /\ (~starved => Enough) /\ [SongNext]_songVars => (~starved => Enough)'
  <2>1. SUFFICES ASSUME PlayerInv, ~starved => Enough, [SongNext]_songVars, ~starved'
                 PROVE  Enough'
    OBVIOUS
  <2>2. ~starved
    BY <2>1 DEF SongNext, OpenSong, Song, Allocate, Prepare, Mp3Turn, Mp3End, Mp3Take, Mp3Output,
                FlacTake, FlacTurn, FlacOutput, FlacDone, CompleteSong, FreeNode, CloseSong,
                DspCallback, songVars, flaws
  <2>3. QED BY <2>1, <2>2, EnoughNext
<1>5. PlayerInv /\ (~starved => Enough) => (WaitsForNode /\ ~starved => dsp # <<>>)
  BY <1>1
<1>6. QED BY <1>3, <1>4, <1>5, PlayerSafe, PTL DEF SongSpec

(* How many steps the player may still take, from where it is; and with    *)
(* it the DSP, which can give back each node once for each loan.           *)
PlayerAhead ==
  CASE at = "out" -> 0
    [] at = "free" -> i + 1
    [] at = "complete" -> NODE_COUNT + 2
    [] at = "done" -> NODE_COUNT + 3
    [] at = "decode" -> NODE_COUNT + 4 + 4 * left + (IF node = NoNode THEN 1 ELSE 0)
    [] at = "output" -> NODE_COUNT + 4 + 4 * left + (IF node = NoNode THEN 3 ELSE 2)
    [] at = "allocate" -> NODE_COUNT + 6 + 4 * left + i
SongAhead == 2 * PlayerAhead + Len(dsp)

LEMMA AheadType ==
  ASSUME PlayerTypes, NODE_COUNT \in Nat, Frames \in Nat
  PROVE  PlayerAhead \in Nat /\ Len(dsp) \in Nat /\ SongAhead \in Nat
<1>1. /\ i \in Nat /\ left \in Nat /\ dsp \in Seq(Nodes) /\ Len(dsp) \in Nat
      /\ at \in {"out", "allocate", "decode", "output", "done", "complete", "free"}
  BY DEF PlayerTypes
<1>2. PICK h \in Nat : h = (IF node = NoNode THEN 1 ELSE 0)
  OBVIOUS
<1>3. PICK k \in Nat : k = (IF node = NoNode THEN 3 ELSE 2)
  OBVIOUS
<1>4. PlayerAhead \in Nat
  <2>1. CASE at = "out"
    BY <1>1, <1>2, <1>3, <2>1 DEF PlayerAhead
  <2>2. CASE at = "allocate"
    BY <1>1, <1>2, <1>3, <2>2 DEF PlayerAhead
  <2>3. CASE at = "decode"
    BY <1>1, <1>2, <1>3, <2>3 DEF PlayerAhead
  <2>4. CASE at = "output"
    BY <1>1, <1>2, <1>3, <2>4 DEF PlayerAhead
  <2>5. CASE at = "done"
    BY <1>1, <1>2, <1>3, <2>5 DEF PlayerAhead
  <2>6. CASE at = "complete"
    BY <1>1, <1>2, <1>3, <2>6 DEF PlayerAhead
  <2>7. CASE at = "free"
    BY <1>1, <1>2, <1>3, <2>7 DEF PlayerAhead
  <2>8. QED BY <1>1, <2>1, <2>2, <2>3, <2>4, <2>5, <2>6, <2>7
<1>5. QED BY <1>1, <1>4 DEF SongAhead

LEMMA AheadNext ==
  ASSUME PlayerTypes', NODE_COUNT \in Nat, Frames \in Nat
  PROVE  PlayerAhead' \in Nat /\ Len(dsp') \in Nat /\ SongAhead' \in Nat
<1>1. /\ i' \in Nat /\ left' \in Nat /\ dsp' \in Seq(Nodes) /\ Len(dsp') \in Nat
      /\ at' \in {"out", "allocate", "decode", "output", "done", "complete", "free"}
  BY DEF PlayerTypes
<1>2. PICK h \in Nat : h = (IF node' = NoNode THEN 1 ELSE 0)
  OBVIOUS
<1>3. PICK k \in Nat : k = (IF node' = NoNode THEN 3 ELSE 2)
  OBVIOUS
<1>4. PlayerAhead' \in Nat
  <2>1. CASE at' = "out"
    BY <1>1, <1>2, <1>3, <2>1 DEF PlayerAhead
  <2>2. CASE at' = "allocate"
    BY <1>1, <1>2, <1>3, <2>2 DEF PlayerAhead
  <2>3. CASE at' = "decode"
    BY <1>1, <1>2, <1>3, <2>3 DEF PlayerAhead
  <2>4. CASE at' = "output"
    BY <1>1, <1>2, <1>3, <2>4 DEF PlayerAhead
  <2>5. CASE at' = "done"
    BY <1>1, <1>2, <1>3, <2>5 DEF PlayerAhead
  <2>6. CASE at' = "complete"
    BY <1>1, <1>2, <1>3, <2>6 DEF PlayerAhead
  <2>7. CASE at' = "free"
    BY <1>1, <1>2, <1>3, <2>7 DEF PlayerAhead
  <2>8. QED BY <1>1, <2>1, <2>2, <2>3, <2>4, <2>5, <2>6, <2>7
<1>5. QED BY <1>1, <1>4 DEF SongAhead

(* A step that keeps what the DSP has.                                     *)
LEMMA AheadSteps ==
  ASSUME PlayerParameters, PlayerInv,
         \/ Allocate \/ Prepare \/ Mp3Turn \/ Mp3End \/ Mp3Take
         \/ FlacTake \/ FlacTurn \/ FlacDone \/ CompleteSong \/ FreeNode \/ CloseSong
  PROVE  UNCHANGED dsp /\ PlayerAhead' < PlayerAhead
<1>1. /\ NODE_COUNT \in Nat /\ i \in 0 .. NODE_COUNT /\ i \in Nat /\ left \in Nat
      /\ node = NoNode \/ node \in Nodes
      /\ NoNode \notin Nodes /\ PlayerRoles
  BY DEF PlayerInv, PlayerTypes, PlayerParameters
<1>2. CASE Allocate
  <2>1. /\ at = "allocate" /\ i > 0 /\ i' = i - 1 /\ at' \in {"allocate", "free"}
        /\ UNCHANGED <<dsp, left, node>>
    BY <1>2 DEF Allocate
  <2>2. QED BY <1>1, <2>1 DEF PlayerAhead
<1>3. CASE Prepare
  <2>1. /\ at = "allocate" /\ i = 0 /\ i' = NODE_COUNT /\ at' \in {"decode", "free"}
        /\ UNCHANGED <<dsp, left, node>>
    BY <1>3 DEF Prepare, ToFree, poolVars
  <2>2. QED BY <1>1, <2>1 DEF PlayerAhead
<1>4. CASE Mp3Turn
  <2>1. /\ at = "decode" /\ node = NoNode /\ UNCHANGED <<dsp, i, node>>
        /\ \/ at' = "complete" /\ UNCHANGED left
           \/ left > 0 /\ left' = left - 1 /\ at' \in {"decode", "output"}
    BY <1>1, <1>4 DEF Mp3Turn, poolVars, PlayerRoles
  <2>2. QED BY <1>1, <2>1 DEF PlayerAhead
<1>5. CASE Mp3End
  <2>1. at = "decode" /\ at' = "complete" /\ UNCHANGED <<dsp, i, left, node>>
    BY <1>5 DEF Mp3End, poolVars
  <2>2. QED BY <1>1, <2>1 DEF PlayerAhead
<1>6. CASE Mp3Take \/ FlacTake
  <2>1. /\ at \in {"output", "decode"} /\ idle # <<>> /\ node = NoNode /\ node' = Head(idle)
        /\ UNCHANGED <<dsp, at, i, left>>
    BY <1>6 DEF Mp3Take, FlacTake, TakeNode
  <2>2. Head(idle) # NoNode
    BY <2>1, TakenLemma
  <2>3. QED BY <1>1, <2>1, <2>2 DEF PlayerAhead
<1>7. CASE FlacTurn
  <2>1. /\ at = "decode" /\ node # NoNode /\ UNCHANGED <<dsp, i, node>>
        /\ \/ at' = "done" /\ UNCHANGED left
           \/ left # 0 /\ left' = left - 1 /\ at' \in {"decode", "output"}
    BY <1>7 DEF FlacTurn, AtEnd, poolVars
  <2>2. QED BY <1>1, <2>1 DEF PlayerAhead
<1>8. CASE FlacDone
  <2>1. at = "done" /\ at' = "complete" /\ UNCHANGED <<dsp, i, left>>
    BY <1>8 DEF FlacDone
  <2>2. QED BY <1>1, <2>1 DEF PlayerAhead
<1>9. CASE CompleteSong
  <2>1. at = "complete" /\ at' = "free" /\ UNCHANGED <<dsp, i, left, node>>
    BY <1>9 DEF CompleteSong, poolVars
  <2>2. QED BY <1>1, <2>1 DEF PlayerAhead
<1>10. CASE FreeNode
  <2>1. at = "free" /\ i > 0 /\ i' = i - 1 /\ UNCHANGED <<dsp, at, left, node>>
    BY <1>10 DEF FreeNode
  <2>2. QED BY <1>1, <2>1 DEF PlayerAhead
<1>11. CASE CloseSong
  <2>1. at = "free" /\ i = 0 /\ at' = "out" /\ UNCHANGED <<dsp, i, left, node>>
    BY <1>11 DEF CloseSong, poolVars
  <2>2. QED BY <1>1, <2>1 DEF PlayerAhead
<1>12. QED
  BY <1>2, <1>3, <1>4, <1>5, <1>6, <1>7, <1>8, <1>9, <1>10, <1>11

(* A step that lends a node or takes one back.                             *)
LEMMA LoanAhead ==
  ASSUME PlayerParameters, PlayerInv, Mp3Output \/ FlacOutput \/ DspCallback
  PROVE  SongAhead' < SongAhead
<1>1. /\ NODE_COUNT \in Nat /\ i \in Nat /\ left \in Nat /\ dsp \in Seq(Nodes)
      /\ Len(dsp) \in Nat /\ PlayerAhead \in Nat /\ PlayerRoles
  BY AheadType DEF PlayerInv, PlayerTypes, PlayerParameters
<1>2. CASE Mp3Output \/ FlacOutput
  <2>2. /\ at = "output" /\ node # NoNode /\ UNCHANGED <<i, left>>
        /\ (at' = "decode" /\ node' = NoNode) \/ at' = "done"
        /\ dsp' = dsp \/ dsp' = Append(dsp, node)
    BY <1>1, <1>2 DEF Mp3Output, FlacOutput, Lend, AfterLoan, PlayerRoles
  <2>3. PlayerAhead = NODE_COUNT + 4 + 4 * left + 2
    BY <2>2 DEF PlayerAhead
  <2>4. PlayerAhead' \in {NODE_COUNT + 4 + 4 * left + 1, NODE_COUNT + 3}
    BY <2>2 DEF PlayerAhead
  <2>5. PlayerAhead' \in Nat /\ PlayerAhead' <= PlayerAhead - 1
    BY <1>1, <2>3, <2>4
  <2>6. node \in Nodes
    BY <2>2 DEF PlayerInv, PlayerTypes
  <2>7. Len(dsp') \in Nat /\ Len(dsp') <= Len(dsp) + 1
    BY <1>1, <2>2, <2>6
  <2>8. QED BY <1>1, <2>5, <2>7 DEF SongAhead
<1>3. CASE DspCallback
  <2>1. dsp # <<>> /\ dsp' = Tail(dsp) /\ UNCHANGED <<at, i, left, node>>
    BY <1>3 DEF DspCallback
  <2>2. Len(dsp') = Len(dsp) - 1
    BY <1>1, <2>1
  <2>3. PlayerAhead' = PlayerAhead
    BY <2>1 DEF PlayerAhead
  <2>4. QED BY <1>1, <2>2, <2>3 DEF SongAhead
<1>4. QED BY <1>2, <1>3

(* A song that has begun is bounded: every step of the player and of the   *)
(* DSP brings it nearer to its end, for any length of the file and number  *)
(* of nodes, and also with a heap that refuses them and a DSP that refuses *)
(* frames.                                                                 *)
THEOREM SongsEnd ==
  SongSpec => [][OpenSong \/ (SongAhead' \in Nat /\ SongAhead' < SongAhead)]_songVars
<1> USE ParametersHold
<1>1. ASSUME PlayerInv, [SongNext]_songVars
      PROVE  [OpenSong \/ (SongAhead' \in Nat /\ SongAhead' < SongAhead)]_songVars
  <2>1. SUFFICES ASSUME SongNext, ~OpenSong PROVE SongAhead' \in Nat /\ SongAhead' < SongAhead
    BY <1>1
  <2>2. NODE_COUNT \in Nat /\ Frames \in Nat
    BY DEF PlayerParameters
  <2>3. SongAhead' \in Nat
    <3>1. PlayerTypes'
      BY <1>1, PlayerNext DEF PlayerInv
    <3>2. QED BY <2>2, <3>1, AheadNext
  <2>4. CASE Mp3Output \/ FlacOutput \/ DspCallback
    BY <1>1, <2>3, <2>4, LoanAhead
  <2>5. CASE \/ Allocate \/ Prepare \/ Mp3Turn \/ Mp3End \/ Mp3Take
             \/ FlacTake \/ FlacTurn \/ FlacDone \/ CompleteSong \/ FreeNode \/ CloseSong
    <3>1. UNCHANGED dsp /\ PlayerAhead' < PlayerAhead
      BY <1>1, <2>5, AheadSteps
    <3>2. PlayerAhead \in Nat /\ Len(dsp) \in Nat
      BY <1>1, <2>2, AheadType DEF PlayerInv
    <3>3. PlayerAhead' \in Nat
      <4>1. PlayerTypes'
        BY <1>1, PlayerNext DEF PlayerInv
      <4>2. QED BY <2>2, <4>1, AheadNext
    <3>4. QED BY <2>3, <3>1, <3>2, <3>3 DEF SongAhead
  <2>6. QED BY <2>1, <2>4, <2>5 DEF SongNext, Song
<1>2. QED BY <1>1, PlayerSafe, PTL DEF SongSpec
=============================================================================
