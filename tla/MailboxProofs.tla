---------------------------- MODULE MailboxProofs ----------------------------
(***************************************************************************)
(* Proofs about Mailbox, for every number of threads, every size and every *)
(* set of mails: the types, the ring buffer, the threads in the suspend    *)
(* lists, and that the mailbox implements MailboxFifo.                     *)
(***************************************************************************)
EXTENDS Mailbox, ListLemmas, FiniteSetTheorems, TLAPS

------------------------------------------------------------------------------
(* Suspend lists.                                                          *)

\* Inserting a thread into a list (rt_ipc_list_suspend) gives a list.
LEMMA InsertType ==
    ASSUME NEW q \in Seq(Threads), NEW t \in Threads, NEW i \in 1 .. Len(q) + 1
    PROVE  /\ InsertAt(q, i, t) \in Seq(Threads)
           /\ InsertAt(q, i, t) # <<>>
BY InsertListed

\* What rt_ipc_list_suspend leaves is a list of threads.
LEMMA SuspendType ==
    ASSUME NEW q \in Seq(Threads), NEW qNew, NEW t \in Threads,
           SuspendIn(q, qNew, t)
    PROVE  qNew \in Seq(Threads)
BY InsertType DEF SuspendIn

\* Removing a thread from a list (rt_thread_timeout) gives a list.
LEMMA RemoveType ==
    ASSUME NEW q \in Seq(Threads), NEW t \in Threads
    PROVE  RemoveFrom(q, t) \in Seq(Threads)
<1>1. CASE ~ \E i \in 1 .. Len(q) : q[i] = t
  BY <1>1 DEF RemoveFrom
<1>2. CASE \E i \in 1 .. Len(q) : q[i] = t
  <2> DEFINE k == CHOOSE i \in 1 .. Len(q) : q[i] = t
  <2>1. k \in 1 .. Len(q)
    BY <1>2
  <2>2. RemoveFrom(q, t) = RemoveAt(q, k)
    BY <1>2 DEF RemoveFrom
  <2> HIDE DEF k
  <2> QED
    BY <2>1, <2>2, RemovePlaces
<1> QED
  BY <1>1, <1>2

\* Resuming the head of a list (rt_ipc_list_resume).
LEMMA ResumeType ==
    ASSUME NEW q \in Seq(Threads),
           stat \in [Threads -> {"ready", "suspend", "halt"}]
    PROVE  /\ QueueAfterResume(q) \in Seq(Threads)
           /\ StatAfterResume(q) \in [Threads -> {"ready", "suspend", "halt"}]
           /\ q # <<>> => Head(q) \in Threads
BY HeadTailProperties DEF QueueAfterResume, StatAfterResume

------------------------------------------------------------------------------
(* Types.                                                                  *)

\* A call with mail v and timeout to leaves or blocks: what rt_mb_send_wait
\* and rt_mb_recv do when they return or suspend.
LEMMA LeaveType ==
    ASSUME TypeOK, NEW t \in Threads, NEW v \in Values \cup {None},
           NEW code \in {"EOK", "EFULL", "ETIMEOUT", "ERROR"}, Leave(t, code, v)
    PROVE  /\ op' \in [Threads -> {"none", "send", "recv"}]
           /\ arg' \in [Threads -> Values \cup {None}]
           /\ timeout' \in [Threads -> Nat \cup {WAITING_FOREVER}]
           /\ elapsed' \in [Threads -> Nat]
           /\ error' \in [Threads -> {"EOK", "ETIMEOUT", "ERROR"}]
           /\ done' \in [code : {"EOK", "EFULL", "ETIMEOUT", "ERROR"},
                         mail : Values \cup {None}]
           /\ late' \subseteq Threads
BY DEF Leave, TypeOK

\* A call of rt_mb_send_wait or rt_mb_recv that returns an error keeps the
\* types.
LEMMA FailType ==
    ASSUME TypeOK, NEW t \in Threads,
           NEW code \in {"EOK", "EFULL", "ETIMEOUT", "ERROR"}, Fail(t, code)
    PROVE  TypeOK'
BY LeaveType DEF Fail, TypeOK, boxVars

\* So does one that suspends its thread.
LEMMA BlockType ==
    ASSUME TypeOK, NEW t \in Threads, NEW o \in {"send", "recv"},
           NEW v \in Values \cup {None}, NEW to \in Nat \cup {WAITING_FOREVER},
           Block(t, o, v, to), recvQ' \in Seq(Threads), sendQ' \in Seq(Threads)
    PROVE  TypeOK'
BY DEF Block, TypeOK, boxVars

\* An advanced in_offset or out_offset is the offset of a slot.
LEMMA AdvanceType ==
    ASSUME NEW offset \in Slots
    PROVE  Advance(offset) \in Slots
BY SizeAssumption DEF Advance, Slots

\* What is left of a timeout when a thread wakes up is again a timeout.
LEMMA RemainingType ==
    ASSUME TypeOK, NEW t \in Threads
    PROVE  Remaining(t) \in Nat \cup {WAITING_FOREVER}
BY DEF Remaining, TypeOK, WAITING_FOREVER

\* The loop of rt_mb_send_wait keeps the types, however it ends.
LEMMA SendLoopType ==
    ASSUME TypeOK, NEW t \in Threads, NEW v \in Values \cup {None},
           NEW to \in Nat \cup {WAITING_FOREVER}, SendLoop(t, v, to)
    PROVE  TypeOK'
<1>1. CASE SendFull(t, to)
  BY <1>1, FailType DEF SendFull
<1>2. CASE SendBlock(t, v, to)
  <2>1. sendQ' \in Seq(Threads) /\ recvQ' \in Seq(Threads)
    BY <1>2, SuspendType DEF SendBlock, TypeOK
  <2> QED
    BY <1>2, <2>1, BlockType DEF SendBlock
<1>3. CASE SendPut(t, v)
  <2>1. in_offset' \in Slots /\ out_offset' \in Slots
    BY <1>3, AdvanceType DEF SendPut, TypeOK
  <2>2. msg_pool' \in [Slots -> Values \cup {None}] /\ entry' \in 0 .. Size
    BY <1>3, SizeAssumption DEF SendPut, TypeOK
  <2>3. /\ recvQ' \in Seq(Threads) /\ sendQ' \in Seq(Threads)
        /\ stat' \in [Threads -> {"ready", "suspend", "halt"}]
    BY <1>3, ResumeType DEF SendPut, TypeOK
  <2>4. Leave(t, "EOK", v) /\ UNCHANGED <<objType, detach>>
    BY <1>3 DEF SendPut
  <2> QED
    BY <2>1, <2>2, <2>3, <2>4, LeaveType DEF TypeOK
<1> QED
  BY <1>1, <1>2, <1>3 DEF SendLoop

\* The loop of rt_mb_recv keeps the types, however it ends.
LEMMA RecvLoopType ==
    ASSUME TypeOK, NEW t \in Threads,
           NEW to \in Nat \cup {WAITING_FOREVER}, RecvLoop(t, to)
    PROVE  TypeOK'
<1>1. CASE RecvEmpty(t, to)
  BY <1>1, FailType DEF RecvEmpty
<1>2. CASE RecvBlock(t, to)
  <2>1. sendQ' \in Seq(Threads) /\ recvQ' \in Seq(Threads)
    BY <1>2, SuspendType DEF RecvBlock, TypeOK
  <2> QED
    BY <1>2, <2>1, BlockType DEF RecvBlock
<1>3. CASE RecvTake(t)
  <2>1. in_offset' \in Slots /\ out_offset' \in Slots
    BY <1>3, AdvanceType DEF RecvTake, TypeOK
  <2>2. msg_pool' \in [Slots -> Values \cup {None}] /\ entry' \in 0 .. Size
    BY <1>3, SizeAssumption DEF RecvTake, TypeOK
  <2>3. /\ recvQ' \in Seq(Threads) /\ sendQ' \in Seq(Threads)
        /\ stat' \in [Threads -> {"ready", "suspend", "halt"}]
    BY <1>3, ResumeType DEF RecvTake, TypeOK
  <2>4. /\ Leave(t, "EOK", msg_pool[out_offset])
        /\ msg_pool[out_offset] \in Values \cup {None}
        /\ UNCHANGED <<objType, detach>>
    BY <1>3 DEF RecvTake, TypeOK
  <2> QED
    BY <2>1, <2>2, <2>3, <2>4, LeaveType DEF TypeOK
<1> QED
  BY <1>1, <1>2, <1>3 DEF RecvLoop

\* One step per action of Next.
LEMMA TypeStep ==
    ASSUME TypeOK, [Next]_vars
    PROVE  TypeOK'
<1>1. ASSUME NEW t \in Threads, Call(t)
      PROVE  TypeOK'
  <2>1. CASE AssertFails(t)
    BY <2>1 DEF AssertFails, TypeOK, boxVars, callVars
  <2>2. ASSUME NEW to \in Timeouts[t], NEW v \in Values, rt_mb_send_wait(t, v, to)
        PROVE  TypeOK'
    BY <2>2, SendLoopType, TimeoutAssumption DEF rt_mb_send_wait
  <2>3. ASSUME NEW to \in Timeouts[t], rt_mb_recv(t, to)
        PROVE  TypeOK'
    BY <2>3, RecvLoopType, TimeoutAssumption DEF rt_mb_recv
  <2> QED
    BY <1>1, <2>1, <2>2, <2>3 DEF Call
<1>2. ASSUME NEW t \in Threads, Resume(t)
      PROVE  TypeOK'
  <2>1. CASE ReturnError(t)
    <3>1. error[t] \in {"EOK", "EFULL", "ETIMEOUT", "ERROR"}
      BY DEF TypeOK
    <3> QED
      BY <2>1, <3>1, FailType DEF ReturnError
  <2>2. CASE SendAgain(t)
    <3>1. arg[t] \in Values \cup {None}
      BY DEF TypeOK
    <3> QED
      BY <2>2, <3>1, RemainingType, SendLoopType DEF SendAgain
  <2>3. CASE RecvAgain(t)
    BY <2>3, RemainingType, RecvLoopType DEF RecvAgain
  <2> QED
    BY <1>2, <2>1, <2>2, <2>3 DEF Resume
<1>3. ASSUME NEW t \in Threads, TimerExpires(t)
      PROVE  TypeOK'
  <2>1. recvQ' \in Seq(Threads) /\ sendQ' \in Seq(Threads)
    BY <1>3, RemoveType DEF TimerExpires, TypeOK
  <2> QED
    BY <1>3, <2>1 DEF TimerExpires, TypeOK, boxVars
<1>4. CASE Tick
  BY <1>4 DEF Tick, TypeOK, boxVars
<1>5. CASE rt_mb_init
  BY <1>5, SizeAssumption DEF rt_mb_init, TypeOK, callVars, Slots
<1>6. CASE rt_mb_reset
  BY <1>6, SizeAssumption DEF rt_mb_reset, TypeOK, Slots
<1>7. CASE DetachBegin \/ DetachTest \/ DetachObject
  BY <1>7 DEF DetachBegin, DetachTest, DetachObject, TypeOK, boxVars, callVars
<1>8. ASSUME NEW q \in Seq(Threads), DetachTake(q),
             recvQ' \in Seq(Threads), sendQ' \in Seq(Threads)
      PROVE  TypeOK'
  <2>1. /\ stat' \in [Threads -> {"ready", "suspend", "halt"}]
        /\ q # <<>> => Head(q) \in Threads
    BY <1>8, ResumeType DEF DetachTake, TypeOK
  <2>2. error' \in [Threads -> {"EOK", "ETIMEOUT", "ERROR"}]
    BY <1>8, <2>1 DEF DetachTake, TypeOK
  <2>3. detach' \in {"recv", "send", "garbage"}
    BY <1>8 DEF DetachTake
  <2> QED
    BY <1>8, <2>1, <2>2, <2>3 DEF DetachTake, TypeOK, boxVars
<1>9. CASE DetachTakeReceiver \/ DetachTakeSender
  <2>1. recvQ' \in Seq(Threads) /\ sendQ' \in Seq(Threads)
    BY <1>9, ResumeType DEF DetachTakeReceiver, DetachTakeSender, TypeOK
  <2> QED
    BY <1>8, <1>9, <2>1 DEF DetachTakeReceiver, DetachTakeSender, TypeOK
<1>10. CASE UNCHANGED vars
  BY <1>10 DEF vars, TypeOK, boxVars, callVars
<1> QED
  BY <1>1, <1>2, <1>3, <1>4, <1>5, <1>6, <1>7, <1>9, <1>10 DEF Next, Detaching

\* Every variable of the mailbox keeps its type: the offsets stay inside the
\* pool and entry never exceeds its size (rt_mb_send_wait, rt_mb_recv).
THEOREM TypeCorrect == Spec => []TypeOK
<1>1. Init => TypeOK
  BY SizeAssumption, EmptySeq DEF Init, TypeOK, Slots
<1> QED
  BY <1>1, TypeStep, PTL DEF Spec

------------------------------------------------------------------------------
(* The ring.                                                               *)

\* A sender that may still have to wait carries a mail.
SendersCarryMail == \A t \in Threads : op[t] = "send" => arg[t] \in Values

Inv == TypeOK /\ RingOK /\ SendersCarryMail

\* The slots of the mails are slots of the pool.
LEMMA SlotType ==
    ASSUME TypeOK, NEW i \in 0 .. entry, i < Size
    PROVE  SlotOf(i) \in Slots
BY SizeAssumption DEF TypeOK, SlotOf, Slots

\* The mails are a sequence of entry mails, and their values are stored from
\* out_offset on.
LEMMA MailsType ==
    ASSUME TypeOK, RingOK
    PROVE  /\ Mails \in Seq(Values)
           /\ Len(Mails) = entry
           /\ \A i \in 1 .. entry : Mails[i] = msg_pool[SlotOf(i - 1)]
<1>1. entry \in Nat
  BY SizeAssumption DEF TypeOK
<1>2. \A i \in 1 .. entry : msg_pool[SlotOf(i - 1)] \in Values
  BY <1>1 DEF RingOK
<1>3. Mails \in [1 .. entry -> Values]
  BY <1>2 DEF Mails
<1>4. Mails \in Seq(Values) /\ Len(Mails) = entry
  BY <1>1, <1>3
<1> QED
  BY <1>4 DEF Mails

\* Counting from 1 and counting from 0.
LEMMA OneDown ==
    \A n \in Nat : \A i \in 1 .. n : i - 1 \in 0 .. n - 1
OBVIOUS

\* The same in the next state.
LEMMA MailsTypeNext ==
    ASSUME TypeOK', RingOK'
    PROVE  /\ Mails' \in Seq(Values)
           /\ Len(Mails') = entry'
           /\ \A i \in 1 .. entry' : Mails'[i] = msg_pool'[SlotOf(i - 1)']
<1>1. entry' \in Nat
  BY SizeAssumption DEF TypeOK
<1>2. \A i \in 1 .. entry' : msg_pool'[SlotOf(i - 1)'] \in Values
  <2>1. \A j \in 0 .. entry' - 1 : msg_pool'[SlotOf(j)'] \in Values
    BY DEF RingOK
  <2>2. \A i \in 1 .. entry' : i - 1 \in 0 .. entry' - 1
    BY <1>1, OneDown
  <2> QED
    BY <2>1, <2>2
<1>3. Mails' \in [1 .. entry' -> Values]
  BY <1>2 DEF Mails
<1>4. Mails' \in Seq(Values) /\ Len(Mails') = entry'
  BY <1>1, <1>3
<1> QED
  BY <1>4 DEF Mails

\* A step that leaves the mailbox fields alone leaves the mails alone.
LEMMA RingUnchanged ==
    ASSUME UNCHANGED boxVars
    PROVE  /\ RingOK => RingOK'
           /\ Mails' = Mails
BY DEF boxVars, RingOK, Mails, SlotOf

\* rt_mb_init and rt_mb_control(RT_IPC_CMD_RESET) empty the ring.
LEMMA RingEmptied ==
    ASSUME entry' = 0, in_offset' = 0, out_offset' = 0
    PROVE  RingOK' /\ Mails' = <<>>
<1>1. RingOK'
  BY SizeAssumption DEF RingOK, SlotOf
<1>2. Mails' = <<>>
  BY DEF Mails
<1> QED
  BY <1>1, <1>2

\* Storing a mail at in_offset puts it behind all the others, wherever the ring
\* wraps (rt_mb_send_wait).
LEMMA PutAppends ==
    ASSUME TypeOK, RingOK, NEW t \in Threads, NEW v \in Values, SendPut(t, v)
    PROVE  /\ RingOK'
           /\ Len(Mails) < Size
           /\ Mails' = Append(Mails, v)
<1>1. /\ Size \in Nat /\ Size > 0 /\ entry \in 0 .. Size - 1
      /\ in_offset \in 0 .. Size - 1 /\ out_offset \in 0 .. Size - 1
      /\ msg_pool \in [0 .. Size - 1 -> Values \cup {None}]
  BY SizeAssumption DEF TypeOK, SendPut, Slots
<1>2. /\ in_offset = SlotOf(entry)
      /\ in_offset' = Advance(in_offset)
      /\ entry' = entry + 1
      /\ out_offset' = out_offset
      /\ msg_pool' = [msg_pool EXCEPT ![in_offset] = v]
  BY <1>1 DEF SendPut, RingOK
<1>3. \A i \in 0 .. entry - 1 : SlotOf(i) # in_offset /\ SlotOf(i) \in 0 .. Size - 1
  BY <1>1, <1>2 DEF SlotOf
<1>4. \A i \in 0 .. entry : SlotOf(i)' = SlotOf(i)
  BY <1>2 DEF SlotOf
<1>5. \A i \in 0 .. entry - 1 : msg_pool'[SlotOf(i)'] = msg_pool[SlotOf(i)]
  BY <1>1, <1>2, <1>3, <1>4
<1>6. \A i \in 0 .. entry : i = entry => msg_pool'[SlotOf(i)'] = v
  BY <1>1, <1>2, <1>4
<1>7. RingOK'
  <2>1. in_offset' = IF entry' = Size THEN out_offset' ELSE SlotOf(entry)'
    BY <1>1, <1>2 DEF SlotOf, Advance
  <2>2. ASSUME NEW i \in 0 .. entry' - 1
        PROVE  msg_pool'[SlotOf(i)'] \in Values
    <3>1. CASE i = entry
      BY <1>1, <1>2, <1>6, <3>1
    <3>2. CASE i \in 0 .. entry - 1
      BY <1>5, <3>2 DEF RingOK
    <3> QED
      BY <1>1, <1>2, <3>1, <3>2
  <2> QED
    BY <2>1, <2>2 DEF RingOK
<1>8. TypeOK'
  BY SendLoopType DEF SendLoop
<1>9. Mails' = Append(Mails, v)
  <2>1. /\ Mails \in Seq(Values) /\ Len(Mails) = entry
        /\ \A i \in 1 .. entry : Mails[i] = msg_pool[SlotOf(i - 1)]
    BY MailsType
  <2>2. /\ Mails' \in Seq(Values) /\ Len(Mails') = entry'
        /\ \A i \in 1 .. entry' : Mails'[i] = msg_pool'[SlotOf(i - 1)']
    BY <1>7, <1>8, MailsTypeNext
  <2>3. Append(Mails, v) \in Seq(Values) /\ Len(Append(Mails, v)) = entry + 1
    BY <2>1, AppendProperties
  <2>4. ASSUME NEW i \in 1 .. entry + 1
        PROVE  Mails'[i] = Append(Mails, v)[i]
    <3>1. CASE i = entry + 1
      <4>1. i - 1 \in 0 .. entry /\ i - 1 = entry /\ i \in 1 .. entry'
        BY <1>1, <1>2, <3>1
      <4>2. Mails'[i] = v
        BY <1>6, <2>2, <4>1
      <4> QED
        BY <2>1, <3>1, <4>2, AppendProperties
    <3>2. CASE i \in 1 .. entry
      <4>1. i - 1 \in 0 .. entry - 1 /\ i \in 1 .. entry'
        BY <1>1, <1>2, <3>2
      <4>2. Mails'[i] = Mails[i]
        BY <1>5, <2>1, <2>2, <3>2, <4>1
      <4> QED
        BY <2>1, <3>2, <4>2, AppendProperties
    <3> QED
      BY <1>1, <3>1, <3>2
  <2> QED
    BY <1>2, <2>2, <2>3, <2>4, SeqEqual
<1>10. Len(Mails) < Size
  BY <1>1, MailsType
<1> QED
  BY <1>7, <1>9, <1>10

\* What is read at out_offset is the oldest mail (rt_mb_recv).
LEMMA TakeRemoves ==
    ASSUME TypeOK, RingOK, NEW t \in Threads, RecvTake(t)
    PROVE  /\ RingOK'
           /\ Mails # <<>>
           /\ Head(Mails) = msg_pool[out_offset]
           /\ Mails' = Tail(Mails)
<1>1. /\ Size \in Nat /\ Size > 0 /\ entry \in 1 .. Size
      /\ in_offset \in 0 .. Size - 1 /\ out_offset \in 0 .. Size - 1
  BY SizeAssumption DEF TypeOK, RecvTake, Slots
<1>2. /\ out_offset' = Advance(out_offset)
      /\ entry' = entry - 1
      /\ in_offset' = in_offset
      /\ msg_pool' = msg_pool
  BY DEF RecvTake
<1>3. \A i \in 0 .. entry - 2 : SlotOf(i)' = SlotOf(i + 1)
  BY <1>1, <1>2 DEF SlotOf, Advance
<1>4. RingOK'
  <2>1. in_offset' = IF entry' = Size THEN out_offset' ELSE SlotOf(entry)'
    BY <1>1, <1>2 DEF SlotOf, Advance, RingOK
  <2>2. ASSUME NEW i \in 0 .. entry' - 1
        PROVE  msg_pool'[SlotOf(i)'] \in Values
    <3>1. i \in 0 .. entry - 2 /\ i + 1 \in 0 .. entry - 1
      BY <1>1, <1>2
    <3>2. msg_pool[SlotOf(i + 1)] \in Values
      BY <3>1 DEF RingOK
    <3> QED
      BY <1>2, <1>3, <3>1, <3>2
  <2> QED
    BY <2>1, <2>2 DEF RingOK
<1>5. TypeOK'
  <2>1. RecvLoop(t, 0)
    BY DEF RecvLoop
  <2> QED
    BY <2>1, RecvLoopType
<1>6. /\ Mails \in Seq(Values) /\ Len(Mails) = entry
      /\ \A i \in 1 .. entry : Mails[i] = msg_pool[SlotOf(i - 1)]
  BY MailsType
<1>7. Mails # <<>>
  BY <1>1, <1>6
<1>8. Head(Mails) = msg_pool[out_offset]
  <2>1. Head(Mails) = Mails[1]
    BY <1>6, <1>7
  <2>2. SlotOf(0) = out_offset
    BY <1>1 DEF SlotOf
  <2> QED
    BY <1>1, <1>6, <2>1, <2>2
<1>9. Mails' = Tail(Mails)
  <2>1. /\ Mails' \in Seq(Values) /\ Len(Mails') = entry'
        /\ \A i \in 1 .. entry' : Mails'[i] = msg_pool'[SlotOf(i - 1)']
    BY <1>4, <1>5, MailsTypeNext
  <2>2. /\ Tail(Mails) \in Seq(Values) /\ Len(Tail(Mails)) = entry - 1
        /\ \A i \in 1 .. entry - 1 : Tail(Mails)[i] = Mails[i + 1]
    BY <1>6, <1>7, HeadTailProperties
  <2>3. ASSUME NEW i \in 1 .. entry - 1
        PROVE  Mails'[i] = Tail(Mails)[i]
    <3>1. i - 1 \in 0 .. entry - 2 /\ i + 1 \in 1 .. entry /\ i \in 1 .. entry'
      BY <1>1, <1>2
    <3>2. Mails'[i] = msg_pool[SlotOf(i)]
      <4>1. SlotOf(i - 1)' = SlotOf((i - 1) + 1)
        BY <1>3, <3>1
      <4>2. (i - 1) + 1 = i
        OBVIOUS
      <4> QED
        BY <1>2, <2>1, <3>1, <4>1, <4>2
    <3>3. Mails[i + 1] = msg_pool[SlotOf(i)]
      <4>1. (i + 1) - 1 = i
        OBVIOUS
      <4> QED
        BY <1>6, <3>1, <4>1
    <3> QED
      BY <2>2, <3>2, <3>3
  <2> QED
    BY <1>2, <2>1, <2>2, <2>3, SeqEqual
<1> QED
  BY <1>4, <1>7, <1>8, <1>9

\* What a call does to the invariant, by what it does to the mailbox.
LEMMA SendLoopRing ==
    ASSUME Inv, NEW t \in Threads, NEW v \in Values, NEW to, SendLoop(t, v, to)
    PROVE  /\ RingOK' /\ SendersCarryMail'
           /\ [Fifo!FifoNext]_<<Mails, done>>
<1>1. CASE SendFull(t, to)
  <2>1. UNCHANGED boxVars /\ Leave(t, "EFULL", None)
    BY <1>1 DEF SendFull, Fail
  <2>2. RingOK' /\ Mails' = Mails /\ Len(Mails) = Size
    BY <1>1, <2>1, RingUnchanged, MailsType DEF Inv, SendFull
  <2>3. SendersCarryMail'
    BY <2>1 DEF Leave, SendersCarryMail, Inv, TypeOK
  <2>4. Fifo!Refuse("EFULL")
    BY <2>1, <2>2 DEF Leave, Fifo!Refuse, Fifo!Outcome
  <2> QED
    BY <2>2, <2>3, <2>4 DEF Fifo!FifoNext, Fifo!Codes
<1>2. CASE SendBlock(t, v, to)
  <2>1. UNCHANGED boxVars /\ UNCHANGED done
    BY <1>2 DEF SendBlock, Block
  <2>2. RingOK' /\ Mails' = Mails
    BY <2>1, RingUnchanged DEF Inv
  <2>3. SendersCarryMail'
    BY <1>2 DEF SendBlock, Block, SendersCarryMail, Inv, TypeOK
  <2> QED
    BY <2>1, <2>2, <2>3
<1>3. CASE SendPut(t, v)
  <2>1. /\ RingOK'
        /\ Len(Mails) < Size
        /\ Mails' = Append(Mails, v)
    BY <1>3, PutAppends DEF Inv
  <2>2. Leave(t, "EOK", v)
    BY <1>3 DEF SendPut
  <2>3. SendersCarryMail'
    BY <2>2 DEF Leave, SendersCarryMail, Inv, TypeOK
  <2>4. Fifo!Put(v)
    BY <2>1, <2>2 DEF Leave, Fifo!Put, Fifo!Outcome
  <2> QED
    BY <2>1, <2>3, <2>4 DEF Fifo!FifoNext
<1> QED
  BY <1>1, <1>2, <1>3 DEF SendLoop

\* The same for rt_mb_recv.
LEMMA RecvLoopRing ==
    ASSUME Inv, NEW t \in Threads, NEW to, RecvLoop(t, to)
    PROVE  /\ RingOK' /\ SendersCarryMail'
           /\ [Fifo!FifoNext]_<<Mails, done>>
<1>1. CASE RecvEmpty(t, to)
  <2>1. UNCHANGED boxVars /\ Leave(t, "ETIMEOUT", None)
    BY <1>1 DEF RecvEmpty, Fail
  <2>2. RingOK' /\ Mails' = Mails
    BY <2>1, RingUnchanged DEF Inv
  <2>3. SendersCarryMail'
    BY <2>1 DEF Leave, SendersCarryMail, Inv, TypeOK
  <2>4. Fifo!Refuse("ETIMEOUT")
    BY <2>1, <2>2 DEF Leave, Fifo!Refuse, Fifo!Outcome
  <2> QED
    BY <2>2, <2>3, <2>4 DEF Fifo!FifoNext, Fifo!Codes
<1>2. CASE RecvBlock(t, to)
  <2>1. UNCHANGED boxVars /\ UNCHANGED done
    BY <1>2 DEF RecvBlock, Block
  <2>2. RingOK' /\ Mails' = Mails
    BY <2>1, RingUnchanged DEF Inv
  <2>3. SendersCarryMail'
    BY <1>2 DEF RecvBlock, Block, SendersCarryMail, Inv, TypeOK
  <2> QED
    BY <2>1, <2>2, <2>3
<1>3. CASE RecvTake(t)
  <2>1. /\ RingOK'
        /\ Mails # <<>>
        /\ Head(Mails) = msg_pool[out_offset]
        /\ Mails' = Tail(Mails)
    BY <1>3, TakeRemoves DEF Inv
  <2>2. Leave(t, "EOK", msg_pool[out_offset])
    BY <1>3 DEF RecvTake
  <2>3. SendersCarryMail'
    BY <2>2 DEF Leave, SendersCarryMail, Inv, TypeOK
  <2>4. Fifo!Take
    BY <2>1, <2>2 DEF Leave, Fifo!Take, Fifo!Outcome
  <2> QED
    BY <2>1, <2>3, <2>4 DEF Fifo!FifoNext
<1> QED
  BY <1>1, <1>2, <1>3 DEF RecvLoop

\* Every step keeps the invariant and is a step of the FIFO, or none.
LEMMA RingStep ==
    ASSUME Inv, [Next]_vars
    PROVE  Inv' /\ [Fifo!FifoNext]_<<Mails, done>>
<1>1. TypeOK'
  BY TypeStep DEF Inv
<1>2. RingOK' /\ SendersCarryMail' /\ [Fifo!FifoNext]_<<Mails, done>>
  <2>1. ASSUME NEW t \in Threads, Call(t)
        PROVE  RingOK' /\ SendersCarryMail' /\ [Fifo!FifoNext]_<<Mails, done>>
    <3>1. CASE AssertFails(t)
      BY <3>1, RingUnchanged DEF AssertFails, callVars, SendersCarryMail, Inv
    <3>2. ASSUME NEW to \in Timeouts[t], NEW v \in Values, rt_mb_send_wait(t, v, to)
          PROVE  RingOK' /\ SendersCarryMail' /\ [Fifo!FifoNext]_<<Mails, done>>
      BY <3>2, SendLoopRing DEF rt_mb_send_wait
    <3>3. ASSUME NEW to \in Timeouts[t], rt_mb_recv(t, to)
          PROVE  RingOK' /\ SendersCarryMail' /\ [Fifo!FifoNext]_<<Mails, done>>
      BY <3>3, RecvLoopRing DEF rt_mb_recv
    <3> QED
      BY <2>1, <3>1, <3>2, <3>3 DEF Call
  <2>2. ASSUME NEW t \in Threads, Resume(t)
        PROVE  RingOK' /\ SendersCarryMail' /\ [Fifo!FifoNext]_<<Mails, done>>
    <3>1. CASE ReturnError(t)
      <4>1. /\ UNCHANGED boxVars /\ Leave(t, error[t], None)
            /\ error[t] \in {"ETIMEOUT", "ERROR"}
        BY <3>1 DEF ReturnError, Fail, Inv, TypeOK
      <4>2. RingOK' /\ Mails' = Mails
        BY <4>1, RingUnchanged DEF Inv
      <4>3. SendersCarryMail'
        BY <4>1 DEF Leave, SendersCarryMail, Inv, TypeOK
      <4>4. Fifo!Refuse(error[t])
        BY <4>1, <4>2 DEF Leave, Fifo!Refuse, Fifo!Outcome
      <4> QED
        BY <4>1, <4>2, <4>3, <4>4 DEF Fifo!FifoNext, Fifo!Codes
    <3>2. CASE SendAgain(t)
      <4>1. arg[t] \in Values
        BY <3>2 DEF SendAgain, Inv, SendersCarryMail
      <4> QED
        BY <3>2, <4>1, SendLoopRing DEF SendAgain
    <3>3. CASE RecvAgain(t)
      BY <3>3, RecvLoopRing DEF RecvAgain
    <3> QED
      BY <2>2, <3>1, <3>2, <3>3 DEF Resume
  <2>3. ASSUME NEW t \in Threads, TimerExpires(t)
        PROVE  RingOK' /\ SendersCarryMail' /\ [Fifo!FifoNext]_<<Mails, done>>
    BY <2>3, RingUnchanged DEF TimerExpires, SendersCarryMail, Inv
  <2>4. CASE Tick
    BY <2>4, RingUnchanged DEF Tick, SendersCarryMail, Inv
  <2>5. CASE rt_mb_init \/ rt_mb_reset
    <3>1. RingOK' /\ Mails' = <<>> /\ UNCHANGED done
      BY <2>5, RingEmptied DEF rt_mb_init, rt_mb_reset
    <3>2. SendersCarryMail'
      BY <2>5 DEF rt_mb_init, rt_mb_reset, callVars, SendersCarryMail, Inv
    <3>3. Fifo!Clear
      BY <3>1 DEF Fifo!Clear
    <3> QED
      BY <3>1, <3>2, <3>3 DEF Fifo!FifoNext
  <2>6. CASE Detaching
    <3>1. UNCHANGED boxVars /\ UNCHANGED <<op, arg, done>>
      BY <2>6 DEF Detaching, DetachBegin, DetachTest, DetachTakeReceiver,
                  DetachTakeSender, DetachTake, DetachObject, callVars
    <3> QED
      BY <3>1, RingUnchanged DEF SendersCarryMail, Inv
  <2>7. CASE UNCHANGED vars
    <3>1. UNCHANGED boxVars /\ UNCHANGED <<op, arg, done>>
      BY <2>7 DEF vars, callVars
    <3> QED
      BY <3>1, RingUnchanged DEF SendersCarryMail, Inv
  <2> QED
    BY <2>1, <2>2, <2>3, <2>4, <2>5, <2>6, <2>7 DEF Next
<1> QED
  BY <1>1, <1>2 DEF Inv

\* The zeroed object before rt_mb_init satisfies the invariant and is an empty
\* FIFO.
LEMMA InitInv == Init => Inv /\ Fifo!FifoInit
<1> SUFFICES ASSUME Init PROVE Inv /\ Fifo!FifoInit
  OBVIOUS
<1>1. TypeOK
  BY SizeAssumption, EmptySeq DEF Init, TypeOK, Slots
<1>2. RingOK
  BY SizeAssumption DEF Init, RingOK, SlotOf
<1>3. SendersCarryMail
  BY DEF Init, SendersCarryMail
<1>4. Mails = <<>>
  BY DEF Init, Mails
<1>5. Fifo!FifoInit
  BY <1>4 DEF Init, Fifo!FifoInit, Fifo!Outcome
<1> QED
  BY <1>1, <1>2, <1>3, <1>5 DEF Inv

\* The ring keeps its shape: in_offset lies entry slots behind out_offset and
\* every slot between them holds a mail (rt_mb_send_wait, rt_mb_recv,
\* rt_mb_control).
THEOREM RingCorrect == Spec => []RingOK
<1>1. Init => Inv
  BY InitInv
<1>2. Inv /\ [Next]_vars => Inv'
  BY RingStep
<1>3. Inv => RingOK
  BY DEF Inv
<1> QED
  BY <1>1, <1>2, <1>3, PTL DEF Spec

\* The mailbox of ipc.c implements the bounded FIFO of MailboxFifo: no mail is
\* lost, invented, altered or overtaken, for any size and any threads.
THEOREM ImplementsFifo == Spec => FifoSpec
<1>1. Init => Inv /\ Fifo!FifoInit
  BY InitInv
<1>2. Inv /\ [Next]_vars => Inv' /\ [Fifo!FifoNext]_Fifo!fifoVars
  BY RingStep DEF Fifo!fifoVars
<1> QED
  BY <1>1, <1>2, PTL DEF Spec, FifoSpec, Fifo!FifoSpec

------------------------------------------------------------------------------
(* The suspend lists.                                                      *)

\* The list q holds, once each and sorted on a PRIO mailbox, the threads that
\* the call o suspended; st and ops stand for stat and op.
ListFor(q, st, ops, o) ==
    /\ \A t \in Threads : st[t] = "suspend" /\ ops[t] = o <=> Listed(q, t)
    /\ NoDouble(q)
    /\ Flag = "PRIO" => SortedBy(q, Priority)

Stats == {"ready", "suspend", "halt"}
Ops == {"none", "send", "recv"}

\* A thread suspends itself: it joins the list of its call and no other.
LEMMA ThreadJoins ==
    ASSUME NEW q \in Seq(Threads), NEW r \in Seq(Threads), stat \in [Threads -> Stats],
           op \in [Threads -> Ops], NEW o \in Ops, NEW p \in Ops, p # o,
           ListFor(q, stat, op, o), ListFor(r, stat, op, p),
           NEW t \in Threads, stat[t] = "ready", NEW q2, SuspendIn(q, q2, t),
           stat' = [stat EXCEPT ![t] = "suspend"], op' = [op EXCEPT ![t] = o]
    PROVE  ListFor(q2, stat', op', o) /\ ListFor(r, stat', op', p) /\ q2 # <<>>
<1>1. PICK i \in 1 .. Len(q) + 1 : SuspendPlace(q, t, i) /\ q2 = InsertAt(q, i, t)
  BY DEF SuspendIn
<1>2. ~Listed(q, t) /\ ~Listed(r, t)
  BY DEF ListFor
<1>3. /\ q2 # <<>> /\ NoDouble(q2)
      /\ \A u : Listed(q2, u) <=> u = t \/ Listed(q, u)
  BY <1>1, <1>2, InsertListed DEF ListFor
<1>4. Flag = "PRIO" => SortedBy(q2, Priority)
  <2> SUFFICES ASSUME Flag = "PRIO" PROVE SortedBy(q2, Priority)
    OBVIOUS
  <2>1. Place(q, i, t, Priority) /\ SortedBy(q, Priority)
    BY <1>1 DEF SuspendPlace, Place, ListFor
  <2>2. Priority \in [Threads -> Int]
    <3>1. \A u \in Threads : Priority[u] \in Nat
      BY PriorityAssumption
    <3>2. \A u \in Threads : Priority[u] \in Int
      BY <3>1
    <3>3. Priority = [u \in Threads |-> Priority[u]]
      BY PriorityAssumption
    <3> QED
      BY <3>2, <3>3
  <2> QED
    BY <1>1, <2>1, <2>2, InsertSorted
<1>5. \A u \in Threads : stat'[u] = "suspend" /\ op'[u] = o <=> Listed(q2, u)
  BY <1>3 DEF ListFor
<1>6. \A u \in Threads : stat'[u] = "suspend" /\ op'[u] = p <=> Listed(r, u)
  BY <1>2 DEF ListFor
<1> QED
  BY <1>3, <1>4, <1>5, <1>6 DEF ListFor

\* The head of a list is made ready: it leaves its list and was in no other.
LEMMA HeadLeaves ==
    ASSUME NEW q \in Seq(Threads), NEW r \in Seq(Threads), stat \in [Threads -> Stats],
           op \in [Threads -> Ops], NEW o \in Ops, NEW p \in Ops, p # o,
           ListFor(q, stat, op, o), ListFor(r, stat, op, p), q # <<>>,
           stat' = [stat EXCEPT ![Head(q)] = "ready"]
    PROVE  /\ Head(q) \in Threads /\ stat[Head(q)] = "suspend" /\ op[Head(q)] = o
           /\ ListFor(Tail(q), stat', op, o) /\ ListFor(r, stat', op, p)
<1> DEFINE h == Head(q)
           rest == Tail(q)
<1>1. /\ h \in Threads /\ Listed(q, h)
      /\ \A u : Listed(q, u) <=> u = h \/ Listed(rest, u)
      /\ NoDouble(q) => NoDouble(rest) /\ ~Listed(rest, h)
      /\ SortedBy(q, Priority) => SortedBy(rest, Priority)
  BY TailListed
<1>2. stat' = [stat EXCEPT ![h] = "ready"]
  OBVIOUS
<1> HIDE DEF h, rest
<1>3. stat[h] = "suspend" /\ op[h] = o /\ ~Listed(rest, h)
  BY <1>1 DEF ListFor
<1>4. \A u \in Threads : stat'[u] = "suspend" <=> u # h /\ stat[u] = "suspend"
  BY <1>1, <1>2
<1>5. ListFor(rest, stat', op, o)
  BY <1>1, <1>3, <1>4 DEF ListFor
<1>6. ListFor(r, stat', op, p)
  BY <1>3, <1>4 DEF ListFor
<1> QED
  BY <1>1, <1>3, <1>5, <1>6 DEF h, rest

\* A thread whose time is over leaves the list it is in.
LEMMA ThreadLeaves ==
    ASSUME NEW q \in Seq(Threads), NEW st \in [Threads -> Stats], NEW ops, NEW o,
           ListFor(q, st, ops, o), NEW t \in Threads,
           NEW st2, st2 = [st EXCEPT ![t] = "ready"]
    PROVE  ListFor(RemoveFrom(q, t), st2, ops, o)
<1>1. DOMAIN q = 1 .. Len(q)
  BY LenProperties
<1>2. \A u \in Threads : st2[u] = "suspend" <=> u # t /\ st[u] = "suspend"
  OBVIOUS
<1>3. CASE ~ \E i \in 1 .. Len(q) : q[i] = t
  <2>1. RemoveFrom(q, t) = q /\ ~Listed(q, t)
    BY <1>1, <1>3 DEF RemoveFrom, Listed
  <2> QED
    BY <1>2, <2>1 DEF ListFor
<1>4. CASE \E i \in 1 .. Len(q) : q[i] = t
  <2> DEFINE k == CHOOSE i \in 1 .. Len(q) : q[i] = t
             rest == RemoveAt(q, k)
  <2>1. k \in 1 .. Len(q) /\ q[k] = t
    BY <1>4
  <2>2. RemoveFrom(q, t) = rest
    BY <1>4 DEF RemoveFrom
  <2> HIDE DEF k
  <2>3. /\ \A u : Listed(rest, u) <=> u # t /\ Listed(q, u)
        /\ NoDouble(rest) /\ (SortedBy(q, Priority) => SortedBy(rest, Priority))
    BY <2>1, RemoveListed DEF ListFor
  <2> HIDE DEF rest
  <2> QED
    BY <1>2, <2>2, <2>3 DEF ListFor
<1> QED
  BY <1>3, <1>4

\* What a thread that is not suspended does with its call changes no list.
LEMMA OthersStay ==
    ASSUME NEW q, NEW st \in [Threads -> Stats], NEW ops \in [Threads -> Ops], NEW o,
           ListFor(q, st, ops, o), NEW t \in Threads, NEW st2, NEW ops2,
           st[t] # "suspend", st2[t] # "suspend",
           \A u \in Threads \ {t} : st2[u] = st[u] /\ ops2[u] = ops[u]
    PROVE  ListFor(q, st2, ops2, o)
BY DEF ListFor

\* An empty list, when nobody is suspended.
LEMMA NobodyListed ==
    ASSUME NEW st, NEW ops, NEW o, \A t \in Threads : st[t] # "suspend"
    PROVE  ListFor(<<>>, st, ops, o)
BY DEF ListFor, Listed, NoDouble, SortedBy

\* A suspended thread is in a call and has no error yet; before rt_mb_init
\* nobody is in a call.
QueueInv ==
    /\ ListFor(recvQ, stat, op, "recv")
    /\ ListFor(sendQ, stat, op, "send")
    /\ \A t \in Threads : Waiting(t) => op[t] # "none" /\ error[t] = "EOK"
    /\ objType = "Null" /\ detach = "none" => \A t \in Threads : op[t] = "none"

\* The threads in the two lists wait for the call the list is for.
LEMMA QueueTypes ==
    ASSUME TypeOK
    PROVE  /\ recvQ \in Seq(Threads) /\ sendQ \in Seq(Threads)
           /\ stat \in [Threads -> Stats] /\ op \in [Threads -> Ops]
           /\ error \in [Threads -> {"EOK", "ETIMEOUT", "ERROR"}]
BY DEF TypeOK, Stats, Ops

\* A call that returns an error changes no list.
LEMMA FailQueues ==
    ASSUME TypeOK, QueueInv, NEW t \in Threads, NEW code, Fail(t, code),
           stat[t] = "ready"
    PROVE  QueueInv'
<1>1. /\ recvQ' = recvQ /\ sendQ' = sendQ /\ stat' = stat /\ objType' = objType
      /\ detach' = detach
      /\ op' = [op EXCEPT ![t] = "none"] /\ error' = [error EXCEPT ![t] = "EOK"]
  BY DEF Fail, Leave
<1>2. ListFor(recvQ, stat, op', "recv") /\ ListFor(sendQ, stat, op', "send")
  BY <1>1, QueueTypes, OthersStay DEF QueueInv
<1>3. \A u \in Threads : stat[u] = "suspend" => op'[u] # "none" /\ error'[u] = "EOK"
  BY <1>1, QueueTypes DEF QueueInv, Waiting
<1>4. objType = "Null" /\ detach = "none" => \A u \in Threads : op'[u] = "none"
  BY <1>1, QueueTypes DEF QueueInv
<1> QED
  BY <1>1, <1>2, <1>3, <1>4 DEF QueueInv, Waiting

\* A send or receive that goes through wakes the head of q, the list of the
\* other side, and ends its own call.
LEMMA WakeQueues ==
    ASSUME TypeOK, QueueInv, NEW t \in Threads, stat[t] = "ready",
           NEW o \in {"send", "recv"}, NEW p \in {"send", "recv"}, p # o,
           NEW q, NEW r, q = (IF o = "recv" THEN recvQ ELSE sendQ),
           r = (IF o = "recv" THEN sendQ ELSE recvQ),
           stat' = StatAfterResume(q), op' = [op EXCEPT ![t] = "none"]
    PROVE  /\ ListFor(QueueAfterResume(q), stat', op', o)
           /\ ListFor(r, stat', op', p)
           /\ \A u \in Threads : stat'[u] = "suspend" => stat[u] = "suspend" /\ u # t
           /\ \A u \in Threads : stat[u] = "ready" => stat'[u] = "ready"
           /\ q # <<>> => Head(q) \in Threads /\ Head(q) # t /\ op[Head(q)] = o
                          /\ stat[Head(q)] = "suspend" /\ stat'[Head(q)] = "ready"
<1>1. /\ q \in Seq(Threads) /\ r \in Seq(Threads)
      /\ ListFor(q, stat, op, o) /\ ListFor(r, stat, op, p)
      /\ stat \in [Threads -> Stats] /\ op \in [Threads -> Ops] /\ o \in Ops /\ p \in Ops
  BY QueueTypes DEF QueueInv, Ops
<1>2. CASE q = <<>>
  <2>1. stat' = stat /\ QueueAfterResume(q) = q
    BY <1>2 DEF StatAfterResume, QueueAfterResume
  <2>2. stat[t] # "suspend" /\ \A u \in Threads \ {t} : op'[u] = op[u]
    BY <1>1
  <2>3. ListFor(q, stat, op', o)
    BY <1>1, <2>2, OthersStay
  <2>4. ListFor(r, stat, op', p)
    BY <1>1, <2>2, OthersStay
  <2> QED
    BY <1>2, <2>1, <2>3, <2>4
<1>3. CASE q # <<>>
  <2>1. stat' = [stat EXCEPT ![Head(q)] = "ready"] /\ QueueAfterResume(q) = Tail(q)
    BY <1>3 DEF StatAfterResume, QueueAfterResume
  <2>2. /\ Head(q) \in Threads /\ stat[Head(q)] = "suspend" /\ op[Head(q)] = o
        /\ ListFor(Tail(q), stat', op, o) /\ ListFor(r, stat', op, p)
    BY <1>1, <1>3, <2>1, HeadLeaves
  <2> DEFINE h == Head(q)
             rest == Tail(q)
  <2>3. /\ h \in Threads /\ stat[h] = "suspend" /\ op[h] = o
        /\ ListFor(rest, stat', op, o) /\ ListFor(r, stat', op, p)
        /\ stat' = [stat EXCEPT ![h] = "ready"] /\ QueueAfterResume(q) = rest
    BY <2>1, <2>2
  <2> HIDE DEF h, rest
  <2>4. /\ stat' \in [Threads -> Stats] /\ h # t /\ stat'[t] # "suspend"
        /\ \A u \in Threads \ {t} : op'[u] = op[u]
    BY <1>1, <2>3 DEF Stats
  <2>5. \A st \in [Threads -> Stats] :
           st[t] # "suspend" =>
             /\ ListFor(rest, st, op, o) => ListFor(rest, st, op', o)
             /\ ListFor(r, st, op, p) => ListFor(r, st, op', p)
    BY <2>4 DEF ListFor
  <2>6. ListFor(rest, stat', op', o) /\ ListFor(r, stat', op', p)
    BY <2>3, <2>4, <2>5
  <2>7. /\ \A u \in Threads : stat'[u] = "suspend" => stat[u] = "suspend" /\ u # t
        /\ \A u \in Threads : stat[u] = "ready" => stat'[u] = "ready"
        /\ h \in Threads /\ h # t /\ op[h] = o /\ stat[h] = "suspend" /\ stat'[h] = "ready"
    BY <1>1, <2>3, <2>4
  <2> QED
    BY <2>3, <2>6, <2>7 DEF h
<1> QED
  BY <1>2, <1>3

\* The loop of rt_mb_send_wait keeps the lists.
LEMMA SendLoopQueues ==
    ASSUME TypeOK, QueueInv, NEW t \in Threads, NEW v, NEW to, SendLoop(t, v, to),
           stat[t] = "ready", objType = "MailBox" \/ op[t] # "none"
    PROVE  QueueInv'
<1>0. /\ recvQ \in Seq(Threads) /\ sendQ \in Seq(Threads) /\ stat \in [Threads -> Stats]
      /\ op \in [Threads -> Ops] /\ error \in [Threads -> {"EOK", "ETIMEOUT", "ERROR"}]
      /\ "send" \in Ops /\ "recv" \in Ops
  BY QueueTypes DEF Ops
<1>1. CASE SendFull(t, to)
  BY <1>1, FailQueues DEF SendFull
<1>2. CASE SendBlock(t, v, to)
  <2>1. /\ stat' = [stat EXCEPT ![t] = "suspend"] /\ op' = [op EXCEPT ![t] = "send"]
        /\ error' = [error EXCEPT ![t] = "EOK"] /\ recvQ' = recvQ
        /\ SuspendIn(sendQ, sendQ', t) /\ objType' = objType /\ detach' = detach
    BY <1>2 DEF SendBlock, Block
  <2>2. ListFor(sendQ', stat', op', "send") /\ ListFor(recvQ', stat', op', "recv")
    <3>1. ListFor(sendQ, stat, op, "send") /\ ListFor(recvQ, stat, op, "recv")
      BY DEF QueueInv
    <3> QED
      BY <1>0, <2>1, <3>1, ThreadJoins
  <2>3. \A u \in Threads : stat'[u] = "suspend" => op'[u] # "none" /\ error'[u] = "EOK"
    BY <1>0, <2>1 DEF QueueInv, Waiting
  <2>4. ~(objType' = "Null" /\ detach' = "none")
    BY <2>1 DEF QueueInv
  <2> QED
    BY <2>2, <2>3, <2>4 DEF QueueInv, Waiting
<1>3. CASE SendPut(t, v)
  <2>1. /\ stat' = StatAfterResume(recvQ) /\ op' = [op EXCEPT ![t] = "none"]
        /\ error' = [error EXCEPT ![t] = "EOK"] /\ sendQ' = sendQ
        /\ recvQ' = QueueAfterResume(recvQ) /\ objType' = objType /\ detach' = detach
    BY <1>3 DEF SendPut, Leave
  <2>2. /\ ListFor(recvQ', stat', op', "recv") /\ ListFor(sendQ', stat', op', "send")
        /\ \A u \in Threads : stat'[u] = "suspend" => stat[u] = "suspend" /\ u # t
    BY <2>1, WakeQueues
  <2>3. \A u \in Threads : stat'[u] = "suspend" => op'[u] # "none" /\ error'[u] = "EOK"
    BY <1>0, <2>1, <2>2 DEF QueueInv, Waiting
  <2>4. ~(objType' = "Null" /\ detach' = "none")
    BY <2>1 DEF QueueInv
  <2> QED
    BY <2>2, <2>3, <2>4 DEF QueueInv, Waiting
<1> QED
  BY <1>1, <1>2, <1>3 DEF SendLoop

\* So does the loop of rt_mb_recv.
LEMMA RecvLoopQueues ==
    ASSUME TypeOK, QueueInv, NEW t \in Threads, NEW to, RecvLoop(t, to),
           stat[t] = "ready", objType = "MailBox" \/ op[t] # "none"
    PROVE  QueueInv'
<1>0. /\ recvQ \in Seq(Threads) /\ sendQ \in Seq(Threads) /\ stat \in [Threads -> Stats]
      /\ op \in [Threads -> Ops] /\ error \in [Threads -> {"EOK", "ETIMEOUT", "ERROR"}]
      /\ "send" \in Ops /\ "recv" \in Ops
  BY QueueTypes DEF Ops
<1>1. CASE RecvEmpty(t, to)
  BY <1>1, FailQueues DEF RecvEmpty
<1>2. CASE RecvBlock(t, to)
  <2>1. /\ stat' = [stat EXCEPT ![t] = "suspend"] /\ op' = [op EXCEPT ![t] = "recv"]
        /\ error' = [error EXCEPT ![t] = "EOK"] /\ sendQ' = sendQ
        /\ SuspendIn(recvQ, recvQ', t) /\ objType' = objType /\ detach' = detach
    BY <1>2 DEF RecvBlock, Block
  <2>2. ListFor(recvQ', stat', op', "recv") /\ ListFor(sendQ', stat', op', "send")
    <3>1. ListFor(recvQ, stat, op, "recv") /\ ListFor(sendQ, stat, op, "send")
      BY DEF QueueInv
    <3> QED
      BY <1>0, <2>1, <3>1, ThreadJoins
  <2>3. \A u \in Threads : stat'[u] = "suspend" => op'[u] # "none" /\ error'[u] = "EOK"
    BY <1>0, <2>1 DEF QueueInv, Waiting
  <2>4. ~(objType' = "Null" /\ detach' = "none")
    BY <2>1 DEF QueueInv
  <2> QED
    BY <2>2, <2>3, <2>4 DEF QueueInv, Waiting
<1>3. CASE RecvTake(t)
  <2>1. /\ stat' = StatAfterResume(sendQ) /\ op' = [op EXCEPT ![t] = "none"]
        /\ error' = [error EXCEPT ![t] = "EOK"] /\ recvQ' = recvQ
        /\ sendQ' = QueueAfterResume(sendQ) /\ objType' = objType /\ detach' = detach
    BY <1>3 DEF RecvTake, Leave
  <2>2. /\ ListFor(sendQ', stat', op', "send") /\ ListFor(recvQ', stat', op', "recv")
        /\ \A u \in Threads : stat'[u] = "suspend" => stat[u] = "suspend" /\ u # t
    BY <2>1, WakeQueues
  <2>3. \A u \in Threads : stat'[u] = "suspend" => op'[u] # "none" /\ error'[u] = "EOK"
    BY <1>0, <2>1, <2>2 DEF QueueInv, Waiting
  <2>4. ~(objType' = "Null" /\ detach' = "none")
    BY <2>1 DEF QueueInv
  <2> QED
    BY <2>2, <2>3, <2>4 DEF QueueInv, Waiting
<1> QED
  BY <1>1, <1>2, <1>3 DEF RecvLoop

\* A suspended thread whose timeout runs out leaves its list.
LEMMA TimerQueues ==
    ASSUME TypeOK, QueueInv, NEW t \in Threads, TimerExpires(t)
    PROVE  QueueInv'
<1>0. /\ recvQ \in Seq(Threads) /\ sendQ \in Seq(Threads) /\ stat \in [Threads -> Stats]
      /\ error \in [Threads -> {"EOK", "ETIMEOUT", "ERROR"}]
  BY QueueTypes
<1>1. /\ stat' = [stat EXCEPT ![t] = "ready"] /\ error' = [error EXCEPT ![t] = "ETIMEOUT"]
      /\ recvQ' = RemoveFrom(recvQ, t) /\ sendQ' = RemoveFrom(sendQ, t)
      /\ op' = op /\ objType' = objType /\ detach' = detach
  BY DEF TimerExpires
<1>2. ListFor(recvQ, stat, op, "recv") /\ ListFor(sendQ, stat, op, "send")
  BY DEF QueueInv
<1>3. ListFor(recvQ', stat', op', "recv")
  BY <1>0, <1>1, <1>2, ThreadLeaves
<1>4. ListFor(sendQ', stat', op', "send")
  BY <1>0, <1>1, <1>2, ThreadLeaves
<1>5. \A u \in Threads : stat'[u] = "suspend" => op'[u] # "none" /\ error'[u] = "EOK"
  BY <1>0, <1>1 DEF QueueInv, Waiting
<1>6. objType' = "Null" /\ detach' = "none" => \A u \in Threads : op'[u] = "none"
  BY <1>1 DEF QueueInv
<1> QED
  BY <1>3, <1>4, <1>5, <1>6 DEF QueueInv, Waiting

\* rt_mb_detach takes the head of a list, with an error.
LEMMA DetachQueues ==
    ASSUME TypeOK, QueueInv, DetachTakeReceiver \/ DetachTakeSender
    PROVE  QueueInv'
<1>0. /\ recvQ \in Seq(Threads) /\ sendQ \in Seq(Threads) /\ stat \in [Threads -> Stats]
      /\ op \in [Threads -> Ops] /\ error \in [Threads -> {"EOK", "ETIMEOUT", "ERROR"}]
      /\ "send" \in Ops /\ "recv" \in Ops
  BY QueueTypes DEF Ops
<1>1. /\ ListFor(recvQ, stat, op, "recv") /\ ListFor(sendQ, stat, op, "send")
      /\ \A u \in Threads : stat[u] = "suspend" => op[u] # "none" /\ error[u] = "EOK"
  BY DEF QueueInv, Waiting
<1>2. op' = op /\ objType' = objType /\ detach' # "none"
  BY DEF DetachTakeReceiver, DetachTakeSender, DetachTake
<1>3. ASSUME NEW q \in Seq(Threads), q # <<>>, stat' = [stat EXCEPT ![Head(q)] = "ready"],
             error' = [error EXCEPT ![Head(q)] = "ERROR"], Head(q) \in Threads
      PROVE  \A u \in Threads : stat'[u] = "suspend" => op'[u] # "none" /\ error'[u] = "EOK"
  <2> DEFINE h == Head(q)
  <2>1. h \in Threads /\ stat' = [stat EXCEPT ![h] = "ready"]
        /\ error' = [error EXCEPT ![h] = "ERROR"]
    BY <1>3
  <2> HIDE DEF h
  <2> QED
    BY <1>0, <1>1, <1>2, <2>1
<1>4. CASE DetachTakeReceiver
  <2>1. CASE recvQ = <<>>
    <3>1. recvQ' = recvQ /\ sendQ' = sendQ /\ stat' = stat /\ error' = error
      BY <1>4, <2>1 DEF DetachTakeReceiver, DetachTake, StatAfterResume, QueueAfterResume
    <3> QED
      BY <1>1, <1>2, <3>1 DEF QueueInv, Waiting
  <2>2. CASE recvQ # <<>>
    <3>1. /\ recvQ' = Tail(recvQ) /\ sendQ' = sendQ
          /\ stat' = [stat EXCEPT ![Head(recvQ)] = "ready"]
          /\ error' = [error EXCEPT ![Head(recvQ)] = "ERROR"]
      BY <1>4, <2>2 DEF DetachTakeReceiver, DetachTake, StatAfterResume, QueueAfterResume
    <3>2. /\ Head(recvQ) \in Threads /\ ListFor(Tail(recvQ), stat', op, "recv")
          /\ ListFor(sendQ, stat', op, "send")
      BY <1>0, <1>1, <2>2, <3>1, HeadLeaves
    <3>3. \A u \in Threads : stat'[u] = "suspend" => op'[u] # "none" /\ error'[u] = "EOK"
      BY <1>0, <1>3, <2>2, <3>1, <3>2
    <3> QED
      BY <1>2, <3>1, <3>2, <3>3 DEF QueueInv, Waiting
  <2> QED
    BY <2>1, <2>2
<1>5. CASE DetachTakeSender
  <2>1. CASE sendQ = <<>>
    <3>1. recvQ' = recvQ /\ sendQ' = sendQ /\ stat' = stat /\ error' = error
      BY <1>5, <2>1 DEF DetachTakeSender, DetachTake, StatAfterResume, QueueAfterResume
    <3> QED
      BY <1>1, <1>2, <3>1 DEF QueueInv, Waiting
  <2>2. CASE sendQ # <<>>
    <3>1. /\ sendQ' = Tail(sendQ) /\ recvQ' = recvQ
          /\ stat' = [stat EXCEPT ![Head(sendQ)] = "ready"]
          /\ error' = [error EXCEPT ![Head(sendQ)] = "ERROR"]
      BY <1>5, <2>2 DEF DetachTakeSender, DetachTake, StatAfterResume, QueueAfterResume
    <3>2. /\ Head(sendQ) \in Threads /\ ListFor(Tail(sendQ), stat', op, "send")
          /\ ListFor(recvQ, stat', op, "recv")
      BY <1>0, <1>1, <2>2, <3>1, HeadLeaves
    <3>3. \A u \in Threads : stat'[u] = "suspend" => op'[u] # "none" /\ error'[u] = "EOK"
      BY <1>0, <1>3, <2>2, <3>1, <3>2
    <3> QED
      BY <1>2, <3>1, <3>2, <3>3 DEF QueueInv, Waiting
  <2> QED
    BY <2>1, <2>2
<1> QED
  BY <1>4, <1>5

\* Every step keeps the lists.
LEMMA QueueStep ==
    ASSUME TypeOK, QueueInv, [Next]_vars
    PROVE  QueueInv'
<1>0. /\ stat \in [Threads -> Stats] /\ op \in [Threads -> Ops]
      /\ error \in [Threads -> {"EOK", "ETIMEOUT", "ERROR"}]
  BY QueueTypes
<1>1. ASSUME NEW t \in Threads, Call(t)
      PROVE  QueueInv'
  <2>1. CASE AssertFails(t)
    <3>1. /\ recvQ' = recvQ /\ sendQ' = sendQ /\ op' = op /\ error' = error
          /\ objType' = objType /\ detach' = detach
          /\ stat[t] # "suspend" /\ stat' = [stat EXCEPT ![t] = "halt"]
      BY <2>1 DEF AssertFails, Free, callVars
    <3>2. ListFor(recvQ, stat', op, "recv") /\ ListFor(sendQ, stat', op, "send")
      BY <1>0, <3>1, OthersStay DEF QueueInv
    <3>3. \A u \in Threads : stat'[u] = "suspend" => op'[u] # "none" /\ error'[u] = "EOK"
      BY <1>0, <3>1 DEF QueueInv, Waiting
    <3> QED
      BY <3>1, <3>2, <3>3 DEF QueueInv, Waiting
  <2>2. ASSUME NEW to \in Timeouts[t], NEW v \in Values, rt_mb_send_wait(t, v, to)
        PROVE  QueueInv'
    BY <2>2, SendLoopQueues DEF rt_mb_send_wait, Free
  <2>3. ASSUME NEW to \in Timeouts[t], rt_mb_recv(t, to)
        PROVE  QueueInv'
    BY <2>3, RecvLoopQueues DEF rt_mb_recv, Free
  <2> QED
    BY <1>1, <2>1, <2>2, <2>3 DEF Call
<1>2. ASSUME NEW t \in Threads, Resume(t)
      PROVE  QueueInv'
  <2>1. CASE ReturnError(t)
    BY <2>1, FailQueues DEF ReturnError, Woken
  <2>2. CASE SendAgain(t)
    BY <2>2, SendLoopQueues DEF SendAgain, Woken
  <2>3. CASE RecvAgain(t)
    BY <2>3, RecvLoopQueues DEF RecvAgain, Woken
  <2> QED
    BY <1>2, <2>1, <2>2, <2>3 DEF Resume
<1>3. ASSUME NEW t \in Threads, TimerExpires(t)
      PROVE  QueueInv'
  BY <1>3, TimerQueues
<1>4. CASE rt_mb_init
  <2>1. \A u \in Threads : stat[u] # "suspend"
    BY <1>4 DEF rt_mb_init, QueueInv, Waiting
  <2>2. ListFor(<<>>, stat, op, "recv") /\ ListFor(<<>>, stat, op, "send")
    BY <2>1, NobodyListed
  <2> QED
    BY <1>4, <2>1, <2>2 DEF rt_mb_init, QueueInv, Waiting, callVars
<1>5. CASE rt_mb_reset
  <2>1. /\ stat' = [u \in Threads |-> IF Waiting(u) THEN "ready" ELSE stat[u]]
        /\ recvQ' = <<>> /\ sendQ' = <<>> /\ objType' = "MailBox"
    BY <1>5 DEF rt_mb_reset
  <2>2. \A u \in Threads : stat'[u] # "suspend"
    BY <2>1 DEF Waiting
  <2>3. ListFor(<<>>, stat', op', "recv") /\ ListFor(<<>>, stat', op', "send")
    BY <2>2, NobodyListed
  <2> QED
    BY <2>1, <2>2, <2>3 DEF QueueInv, Waiting
<1>6. CASE Detaching
  <2>1. CASE DetachTakeReceiver \/ DetachTakeSender
    BY <2>1, DetachQueues
  <2>2. CASE DetachBegin \/ DetachTest \/ DetachObject
    <3>1. /\ recvQ' = recvQ /\ sendQ' = sendQ /\ stat' = stat /\ op' = op
          /\ error' = error /\ detach' # "none"
      BY <2>2 DEF DetachBegin, DetachTest, DetachObject, callVars
    <3> QED
      BY <3>1 DEF QueueInv, Waiting
  <2> QED
    BY <1>6, <2>1, <2>2 DEF Detaching
<1>7. CASE Tick \/ UNCHANGED vars
  <2>1. /\ recvQ' = recvQ /\ sendQ' = sendQ /\ stat' = stat /\ op' = op
        /\ error' = error /\ detach' = detach /\ objType' = objType
    BY <1>7 DEF Tick, vars, callVars
  <2> QED
    BY <2>1 DEF QueueInv, Waiting
<1> QED
  BY <1>1, <1>2, <1>3, <1>4, <1>5, <1>6, <1>7 DEF Next

\* In the initial state nobody is suspended.
LEMMA QueueInit ==
    ASSUME Init
    PROVE  QueueInv
<1>1. \A u \in Threads : stat[u] # "suspend"
  BY DEF Init
<1> QED
  BY <1>1, NobodyListed DEF Init, QueueInv, Waiting

\* The types and the lists hold in every state.
LEMMA QueueCorrect == Spec => [](TypeOK /\ QueueInv)
<1>1. Init => QueueInv
  BY QueueInit
<1>2. TypeOK /\ QueueInv /\ [Next]_vars => QueueInv'
  BY QueueStep
<1> QED
  BY <1>1, <1>2, TypeCorrect, PTL DEF Spec

\* A thread is in exactly the list its call suspended it in, once, and a PRIO
\* list is sorted: rt_ipc_list_suspend, rt_ipc_list_resume, rt_thread_timeout,
\* the reset and rt_mb_detach keep the two lists, whatever their order.
THEOREM MailboxLists == Spec => []ListsOK
<1>1. TypeOK /\ QueueInv => ListsOK
  <2> SUFFICES ASSUME TypeOK, QueueInv PROVE ListsOK
    OBVIOUS
  <2>0. /\ recvQ \in Seq(Threads) /\ sendQ \in Seq(Threads)
        /\ ListFor(recvQ, stat, op, "recv") /\ ListFor(sendQ, stat, op, "send")
    BY QueueTypes DEF QueueInv
  <2>1. \A q \in Seq(Threads) : DOMAIN q = 1 .. Len(q)
    BY LenProperties
  <2>2. \A t \in Threads :
           /\ (Waiting(t) /\ op[t] = "recv") <=> \E i \in 1 .. Len(recvQ) : recvQ[i] = t
           /\ (Waiting(t) /\ op[t] = "send") <=> \E i \in 1 .. Len(sendQ) : sendQ[i] = t
    BY <2>0, <2>1 DEF ListFor, Listed, Waiting
  <2>3. \A q \in {recvQ, sendQ} : \A i, j \in 1 .. Len(q) : i < j =>
           /\ q[i] # q[j]
           /\ Flag = "PRIO" => Priority[q[i]] <= Priority[q[j]]
    BY <2>0, <2>1 DEF ListFor, NoDouble, SortedBy
  <2> QED
    BY <2>2, <2>3 DEF ListsOK
<1> QED
  BY <1>1, QueueCorrect, PTL

------------------------------------------------------------------------------
(* Wake-ups.                                                               *)

\* Counting the threads on their way: sets of threads are finite.
LEMMA MoreThreads ==
    ASSUME NEW A \in SUBSET Threads, NEW B \in SUBSET Threads
    PROVE  /\ Cardinality(A) \in Nat /\ Cardinality(B) \in Nat
           /\ A \subseteq B => Cardinality(A) <= Cardinality(B)
           /\ \A t : A \ {t} \subseteq B => Cardinality(A) - 1 <= Cardinality(B)
           /\ \A h : h \notin A /\ h \in B /\ A \subseteq B
                       => Cardinality(A) + 1 <= Cardinality(B)
<1>1. IsFiniteSet(A) /\ IsFiniteSet(B)
  BY ThreadsAssumption, FS_Subset
<1>2. Cardinality(A) \in Nat /\ Cardinality(B) \in Nat
  BY <1>1, FS_CardinalityType
<1>3. \A C, D : IsFiniteSet(D) /\ C \subseteq D => Cardinality(C) <= Cardinality(D)
  BY FS_Subset
<1>4. ASSUME NEW t, A \ {t} \subseteq B
      PROVE  Cardinality(A) - 1 <= Cardinality(B)
  <2>1. /\ IsFiniteSet(A \ {t})
        /\ Cardinality(A \ {t}) = IF t \in A THEN Cardinality(A) - 1 ELSE Cardinality(A)
    BY <1>1, FS_RemoveElement
  <2>2. Cardinality(A \ {t}) <= Cardinality(B)
    BY <1>1, <1>3, <1>4
  <2> QED
    BY <1>2, <2>1, <2>2
<1>5. ASSUME NEW h, h \notin A, h \in B, A \subseteq B
      PROVE  Cardinality(A) + 1 <= Cardinality(B)
  <2>1. Cardinality(A \cup {h}) = Cardinality(A) + 1
    BY <1>1, <1>5, FS_AddElement
  <2>2. A \cup {h} \subseteq B
    BY <1>5
  <2>3. Cardinality(A \cup {h}) <= Cardinality(B)
    BY <1>1, <1>3, <2>2
  <2> QED
    BY <2>1, <2>3
<1> QED
  BY <1>1, <1>2, <1>3, <1>4, <1>5

\* A step that moves no mail, makes no list start and takes nobody off its
\* way loses no wake-up.
LEMMA SameMatch ==
    ASSUME TypeOK, TypeOK', WakeupsMatch, entry' = entry,
           recvQ' # <<>> => recvQ # <<>>, sendQ' # <<>> => sendQ # <<>>,
           Pending("recv") \subseteq Pending("recv")',
           Pending("send") \subseteq Pending("send")'
    PROVE  WakeupsMatch'
<1> DEFINE R == Pending("recv")
           S == Pending("send")
<1>1. /\ R \in SUBSET Threads /\ S \in SUBSET Threads
      /\ R' \in SUBSET Threads /\ S' \in SUBSET Threads
      /\ R \subseteq R' /\ S \subseteq S'
  BY DEF Pending
<1>2. /\ recvQ # <<>> => entry <= Cardinality(R)
      /\ sendQ # <<>> => Size - entry <= Cardinality(S)
  BY DEF WakeupsMatch
<1>3. WakeupsMatch' <=> /\ recvQ' # <<>> => entry' <= Cardinality(R')
                        /\ sendQ' # <<>> => Size - entry' <= Cardinality(S')
  BY DEF WakeupsMatch
<1> HIDE DEF R, S
<1>4. /\ Cardinality(R) \in Nat /\ Cardinality(R') \in Nat
      /\ Cardinality(R) <= Cardinality(R')
  BY <1>1, MoreThreads
<1>5. /\ Cardinality(S) \in Nat /\ Cardinality(S') \in Nat
      /\ Cardinality(S) <= Cardinality(S')
  BY <1>1, MoreThreads
<1>6. entry \in Int /\ Size \in Int
  BY SizeAssumption DEF TypeOK
<1> QED
  BY <1>2, <1>3, <1>4, <1>5, <1>6

\* The loop of rt_mb_send_wait: a full mailbox has no free slot to match; a
\* mail put in wakes one receiver, who is then on its way, and takes at most
\* the sender itself off its way to a slot that is gone.
LEMMA SendLoopMatch ==
    ASSUME TypeOK, TypeOK', QueueInv, WakeupsMatch, NEW t \in Threads, NEW v, NEW to,
           SendLoop(t, v, to), stat[t] = "ready", op[t] # "recv"
    PROVE  WakeupsMatch'
<1> DEFINE R == Pending("recv")
           S == Pending("send")
<1>0. /\ recvQ \in Seq(Threads) /\ sendQ \in Seq(Threads) /\ stat \in [Threads -> Stats]
      /\ op \in [Threads -> Ops] /\ error \in [Threads -> {"EOK", "ETIMEOUT", "ERROR"}]
  BY QueueTypes
<1>1. /\ R \in SUBSET Threads /\ S \in SUBSET Threads
      /\ R' \in SUBSET Threads /\ S' \in SUBSET Threads
  BY DEF Pending
<1>2. /\ recvQ # <<>> => entry <= Cardinality(R)
      /\ sendQ # <<>> => Size - entry <= Cardinality(S)
  BY DEF WakeupsMatch
<1>3. WakeupsMatch' <=> /\ recvQ' # <<>> => entry' <= Cardinality(R')
                        /\ sendQ' # <<>> => Size - entry' <= Cardinality(S')
  BY DEF WakeupsMatch
<1>4. entry \in Int /\ Size \in Int
  BY SizeAssumption DEF TypeOK
<1>5. /\ Cardinality(R) \in Nat /\ Cardinality(R') \in Nat
      /\ Cardinality(S) \in Nat /\ Cardinality(S') \in Nat
  BY <1>1, MoreThreads
<1>6. CASE SendFull(t, to) \/ SendBlock(t, v, to)
  <2>1. /\ entry = Size /\ entry' = entry /\ recvQ' = recvQ
        /\ \A u \in Threads \ {t} : stat'[u] = stat[u] /\ op'[u] = op[u] /\ error'[u] = error[u]
    BY <1>0, <1>6 DEF SendFull, SendBlock, Fail, Leave, Block, boxVars
  <2>2. R \subseteq R'
    BY <2>1 DEF Pending
  <2> HIDE DEF R, S
  <2>3. Cardinality(R) <= Cardinality(R')
    BY <1>1, <2>2, MoreThreads
  <2> QED
    BY <1>2, <1>3, <1>4, <1>5, <2>1, <2>3
<1>7. CASE SendPut(t, v)
  <2>1. /\ entry' = entry + 1 /\ stat' = StatAfterResume(recvQ) /\ sendQ' = sendQ
        /\ recvQ' = QueueAfterResume(recvQ)
        /\ op' = [op EXCEPT ![t] = "none"] /\ error' = [error EXCEPT ![t] = "EOK"]
    BY <1>7 DEF SendPut, Leave
  <2>2. /\ \A u \in Threads : stat[u] = "ready" => stat'[u] = "ready"
        /\ recvQ # <<>> =>
             /\ Head(recvQ) \in Threads /\ Head(recvQ) # t /\ op[Head(recvQ)] = "recv"
             /\ stat[Head(recvQ)] = "suspend" /\ stat'[Head(recvQ)] = "ready"
    <3>1. \A u \in Threads : stat[u] = "ready" => stat'[u] = "ready"
      BY <2>1, WakeQueues
    <3>2. recvQ # <<>> =>
             /\ Head(recvQ) \in Threads /\ Head(recvQ) # t /\ op[Head(recvQ)] = "recv"
             /\ stat[Head(recvQ)] = "suspend" /\ stat'[Head(recvQ)] = "ready"
      BY <2>1, WakeQueues
    <3> QED
      BY <3>1, <3>2
  <2>3. S \ {t} \subseteq S' /\ R \subseteq R'
    BY <1>0, <2>1, <2>2 DEF Pending
  <2>4. recvQ # <<>> => Head(recvQ) \notin R /\ Head(recvQ) \in R'
    <3> DEFINE h == Head(recvQ)
    <3> SUFFICES ASSUME recvQ # <<>>
                 PROVE  h \notin R /\ h \in R'
      OBVIOUS
    <3>1. h \in Threads /\ h # t /\ op[h] = "recv" /\ stat[h] = "suspend" /\ stat'[h] = "ready"
      BY <2>2
    <3> HIDE DEF h
    <3>2. error[h] = "EOK"
      BY <3>1 DEF QueueInv, Waiting
    <3> QED
      BY <1>0, <2>1, <3>1, <3>2 DEF Pending
  <2>5. recvQ' # <<>> => recvQ # <<>>
    BY <2>1 DEF QueueAfterResume
  <2> HIDE DEF R, S
  <2>6. Cardinality(S) - 1 <= Cardinality(S')
    BY <1>1, <2>3, MoreThreads
  <2>7. recvQ # <<>> => Cardinality(R) + 1 <= Cardinality(R')
    BY <1>1, <2>3, <2>4, MoreThreads
  <2>8. recvQ' # <<>> => entry' <= Cardinality(R')
    BY <1>2, <1>4, <1>5, <2>1, <2>5, <2>7
  <2>9. sendQ' # <<>> => Size - entry' <= Cardinality(S')
    BY <1>2, <1>4, <1>5, <2>1, <2>6
  <2> QED
    BY <1>3, <2>8, <2>9
<1> QED
  BY <1>6, <1>7 DEF SendLoop

\* The same for the loop of rt_mb_recv: an empty mailbox has no mail to match.
LEMMA RecvLoopMatch ==
    ASSUME TypeOK, TypeOK', QueueInv, WakeupsMatch, NEW t \in Threads, NEW to,
           RecvLoop(t, to), stat[t] = "ready", op[t] # "send"
    PROVE  WakeupsMatch'
<1> DEFINE R == Pending("recv")
           S == Pending("send")
<1>0. /\ recvQ \in Seq(Threads) /\ sendQ \in Seq(Threads) /\ stat \in [Threads -> Stats]
      /\ op \in [Threads -> Ops] /\ error \in [Threads -> {"EOK", "ETIMEOUT", "ERROR"}]
  BY QueueTypes
<1>1. /\ R \in SUBSET Threads /\ S \in SUBSET Threads
      /\ R' \in SUBSET Threads /\ S' \in SUBSET Threads
  BY DEF Pending
<1>2. /\ recvQ # <<>> => entry <= Cardinality(R)
      /\ sendQ # <<>> => Size - entry <= Cardinality(S)
  BY DEF WakeupsMatch
<1>3. WakeupsMatch' <=> /\ recvQ' # <<>> => entry' <= Cardinality(R')
                        /\ sendQ' # <<>> => Size - entry' <= Cardinality(S')
  BY DEF WakeupsMatch
<1>4. entry \in Int /\ Size \in Int
  BY SizeAssumption DEF TypeOK
<1>5. /\ Cardinality(R) \in Nat /\ Cardinality(R') \in Nat
      /\ Cardinality(S) \in Nat /\ Cardinality(S') \in Nat
  BY <1>1, MoreThreads
<1>6. CASE RecvEmpty(t, to) \/ RecvBlock(t, to)
  <2>1. /\ entry = 0 /\ entry' = entry /\ sendQ' = sendQ
        /\ \A u \in Threads \ {t} : stat'[u] = stat[u] /\ op'[u] = op[u] /\ error'[u] = error[u]
    BY <1>0, <1>6 DEF RecvEmpty, RecvBlock, Fail, Leave, Block, boxVars
  <2>2. S \subseteq S'
    BY <2>1 DEF Pending
  <2> HIDE DEF R, S
  <2>3. Cardinality(S) <= Cardinality(S')
    BY <1>1, <2>2, MoreThreads
  <2> QED
    BY <1>2, <1>3, <1>4, <1>5, <2>1, <2>3
<1>7. CASE RecvTake(t)
  <2>1. /\ entry' = entry - 1 /\ stat' = StatAfterResume(sendQ) /\ recvQ' = recvQ
        /\ sendQ' = QueueAfterResume(sendQ)
        /\ op' = [op EXCEPT ![t] = "none"] /\ error' = [error EXCEPT ![t] = "EOK"]
    BY <1>7 DEF RecvTake, Leave
  <2>2. /\ \A u \in Threads : stat[u] = "ready" => stat'[u] = "ready"
        /\ sendQ # <<>> =>
             /\ Head(sendQ) \in Threads /\ Head(sendQ) # t /\ op[Head(sendQ)] = "send"
             /\ stat[Head(sendQ)] = "suspend" /\ stat'[Head(sendQ)] = "ready"
    <3>1. \A u \in Threads : stat[u] = "ready" => stat'[u] = "ready"
      BY <2>1, WakeQueues
    <3>2. sendQ # <<>> =>
             /\ Head(sendQ) \in Threads /\ Head(sendQ) # t /\ op[Head(sendQ)] = "send"
             /\ stat[Head(sendQ)] = "suspend" /\ stat'[Head(sendQ)] = "ready"
      <4> SUFFICES ASSUME sendQ # <<>>
                   PROVE  /\ Head(sendQ) \in Threads /\ Head(sendQ) # t /\ op[Head(sendQ)] = "send"
                          /\ stat[Head(sendQ)] = "suspend" /\ stat'[Head(sendQ)] = "ready"
        OBVIOUS
      <4> DEFINE h == Head(sendQ)
      <4>1. h \in Threads /\ Listed(sendQ, h)
        BY <1>0, TailListed
      <4>2. stat' = [stat EXCEPT ![h] = "ready"]
        BY <2>1 DEF StatAfterResume
      <4> HIDE DEF h
      <4>3. stat[h] = "suspend" /\ op[h] = "send"
        BY <4>1 DEF QueueInv, ListFor
      <4>4. stat'[h] = "ready" /\ h # t
        BY <1>0, <4>1, <4>2, <4>3
      <4> QED
        BY <4>1, <4>3, <4>4 DEF h
    <3> QED
      BY <3>1, <3>2
  <2>3. R \ {t} \subseteq R' /\ S \subseteq S'
    BY <1>0, <2>1, <2>2 DEF Pending
  <2>4. sendQ # <<>> => Head(sendQ) \notin S /\ Head(sendQ) \in S'
    <3> DEFINE h == Head(sendQ)
    <3> SUFFICES ASSUME sendQ # <<>>
                 PROVE  h \notin S /\ h \in S'
      OBVIOUS
    <3>1. h \in Threads /\ h # t /\ op[h] = "send" /\ stat[h] = "suspend" /\ stat'[h] = "ready"
      BY <2>2
    <3> HIDE DEF h
    <3>2. error[h] = "EOK"
      BY <3>1 DEF QueueInv, Waiting
    <3> QED
      BY <1>0, <2>1, <3>1, <3>2 DEF Pending
  <2>5. sendQ' # <<>> => sendQ # <<>>
    BY <2>1 DEF QueueAfterResume
  <2> HIDE DEF R, S
  <2>6. Cardinality(R) - 1 <= Cardinality(R')
    BY <1>1, <2>3, MoreThreads
  <2>7. sendQ # <<>> => Cardinality(S) + 1 <= Cardinality(S')
    BY <1>1, <2>3, <2>4, MoreThreads
  <2>8. sendQ' # <<>> => Size - entry' <= Cardinality(S')
    BY <1>2, <1>4, <1>5, <2>1, <2>5, <2>7
  <2>9. recvQ' # <<>> => entry' <= Cardinality(R')
    BY <1>2, <1>4, <1>5, <2>1, <2>6
  <2> QED
    BY <1>3, <2>8, <2>9
<1> QED
  BY <1>6, <1>7 DEF RecvLoop

\* Every step keeps the wake-ups matched.
LEMMA MatchStep ==
    ASSUME TypeOK, TypeOK', QueueInv, WakeupsMatch, [Next]_vars
    PROVE  WakeupsMatch'
<1>0. /\ stat \in [Threads -> Stats] /\ op \in [Threads -> Ops]
      /\ recvQ \in Seq(Threads) /\ sendQ \in Seq(Threads)
      /\ error \in [Threads -> {"EOK", "ETIMEOUT", "ERROR"}]
  BY QueueTypes
<1>1. ASSUME NEW t \in Threads, Call(t)
      PROVE  WakeupsMatch'
  <2>1. CASE AssertFails(t)
    <3>1. /\ recvQ' = recvQ /\ sendQ' = sendQ /\ op' = op /\ error' = error /\ entry' = entry
          /\ op[t] = "none" /\ stat' = [stat EXCEPT ![t] = "halt"]
      BY <2>1 DEF AssertFails, Free, callVars, boxVars
    <3>2. Pending("recv") \subseteq Pending("recv")' /\ Pending("send") \subseteq Pending("send")'
      BY <1>0, <3>1 DEF Pending
    <3> QED
      BY <3>1, <3>2, SameMatch
  <2>2. ASSUME NEW to \in Timeouts[t], NEW v \in Values, rt_mb_send_wait(t, v, to)
        PROVE  WakeupsMatch'
    BY <2>2, SendLoopMatch DEF rt_mb_send_wait, Free
  <2>3. ASSUME NEW to \in Timeouts[t], rt_mb_recv(t, to)
        PROVE  WakeupsMatch'
    BY <2>3, RecvLoopMatch DEF rt_mb_recv, Free
  <2> QED
    BY <1>1, <2>1, <2>2, <2>3 DEF Call
<1>2. ASSUME NEW t \in Threads, Resume(t)
      PROVE  WakeupsMatch'
  <2>1. CASE ReturnError(t)
    <3>1. /\ recvQ' = recvQ /\ sendQ' = sendQ /\ entry' = entry /\ stat' = stat
          /\ op' = [op EXCEPT ![t] = "none"] /\ error[t] # "EOK"
          /\ error' = [error EXCEPT ![t] = "EOK"]
      BY <2>1 DEF ReturnError, Fail, Leave, boxVars
    <3>2. Pending("recv") \subseteq Pending("recv")' /\ Pending("send") \subseteq Pending("send")'
      BY <1>0, <3>1 DEF Pending
    <3> QED
      BY <3>1, <3>2, SameMatch
  <2>2. CASE SendAgain(t)
    BY <2>2, SendLoopMatch DEF SendAgain, Woken
  <2>3. CASE RecvAgain(t)
    BY <2>3, RecvLoopMatch DEF RecvAgain, Woken
  <2> QED
    BY <1>2, <2>1, <2>2, <2>3 DEF Resume
<1>3. ASSUME NEW t \in Threads, TimerExpires(t)
      PROVE  WakeupsMatch'
  <2>1. /\ recvQ' = RemoveFrom(recvQ, t) /\ sendQ' = RemoveFrom(sendQ, t)
        /\ entry' = entry /\ op' = op /\ stat[t] = "suspend"
        /\ stat' = [stat EXCEPT ![t] = "ready"]
        /\ error' = [error EXCEPT ![t] = "ETIMEOUT"]
    BY <1>3 DEF TimerExpires, TimerDue, Waiting, boxVars
  <2>2. Pending("recv") \subseteq Pending("recv")' /\ Pending("send") \subseteq Pending("send")'
    BY <1>0, <2>1 DEF Pending
  <2>3. RemoveFrom(<<>>, t) = <<>>
    BY DEF RemoveFrom
  <2> QED
    BY <2>1, <2>2, <2>3, SameMatch
<1>4. CASE rt_mb_init \/ rt_mb_reset
  <2>1. recvQ' = <<>> /\ sendQ' = <<>>
    BY <1>4 DEF rt_mb_init, rt_mb_reset
  <2> QED
    BY <2>1 DEF WakeupsMatch
<1>5. ASSUME NEW q \in Seq(Threads), q # <<>> => Head(q) \in Threads,
             q # <<>> => stat[Head(q)] = "suspend", DetachTake(q)
      PROVE  /\ Pending("recv") \subseteq Pending("recv")'
             /\ Pending("send") \subseteq Pending("send")'
  <2>1. CASE q = <<>>
    <3>1. stat' = stat /\ error' = error /\ op' = op
      BY <1>5, <2>1 DEF DetachTake, StatAfterResume
    <3> QED
      BY <3>1 DEF Pending
  <2>2. CASE q # <<>>
    <3> DEFINE h == Head(q)
    <3>1. /\ h \in Threads /\ stat[h] = "suspend" /\ stat' = [stat EXCEPT ![h] = "ready"]
          /\ error' = [error EXCEPT ![h] = "ERROR"] /\ op' = op
      BY <1>5, <2>2 DEF DetachTake, StatAfterResume
    <3> HIDE DEF h
    <3> QED
      BY <1>0, <3>1 DEF Pending
  <2> QED
    BY <2>1, <2>2
<1>6. ASSUME NEW q \in {recvQ, sendQ}
      PROVE  /\ q \in Seq(Threads)
             /\ q # <<>> => Head(q) \in Threads /\ stat[Head(q)] = "suspend"
  <2>1. q \in Seq(Threads)
    BY <1>0, <1>6
  <2>2. ASSUME q # <<>> PROVE Head(q) \in Threads /\ Listed(q, Head(q))
    BY <2>1, <2>2, TailListed
  <2>3. \A u \in Threads : Listed(q, u) => stat[u] = "suspend"
    BY <1>6 DEF QueueInv, ListFor
  <2> QED
    BY <2>1, <2>2, <2>3
<1>7. CASE DetachTakeReceiver \/ DetachTakeSender
  <2>1. /\ entry' = entry
        /\ recvQ' # <<>> => recvQ # <<>>
        /\ sendQ' # <<>> => sendQ # <<>>
    BY <1>7 DEF DetachTakeReceiver, DetachTakeSender, DetachTake, QueueAfterResume, boxVars
  <2>2. /\ Pending("recv") \subseteq Pending("recv")'
        /\ Pending("send") \subseteq Pending("send")'
    BY <1>5, <1>6, <1>7 DEF DetachTakeReceiver, DetachTakeSender
  <2> QED
    BY <2>1, <2>2, SameMatch
<1>8. CASE DetachBegin \/ DetachTest \/ DetachObject \/ Tick \/ UNCHANGED vars
  <2>1. /\ recvQ' = recvQ /\ sendQ' = sendQ /\ stat' = stat /\ op' = op
        /\ error' = error /\ entry' = entry
    BY <1>8 DEF DetachBegin, DetachTest, DetachObject, Tick, vars, callVars, boxVars
  <2>2. /\ Pending("recv") \subseteq Pending("recv")'
        /\ Pending("send") \subseteq Pending("send")'
    BY <2>1 DEF Pending
  <2> QED
    BY <2>1, <2>2, SameMatch
<1> QED
  BY <1>1, <1>2, <1>3, <1>4, <1>7, <1>8 DEF Next, Detaching

\* No wake-up of rt_mb_send_wait and rt_mb_recv is lost, whatever other calls,
\* timeouts, resets and the steps of rt_mb_detach come between a wake-up and
\* the step of the thread it is for.
THEOREM MailboxWakeups == Spec => []WakeupsMatch
<1>1. Init => WakeupsMatch
  BY DEF Init, WakeupsMatch
<1>2. TypeOK /\ TypeOK' /\ QueueInv /\ WakeupsMatch /\ [Next]_vars => WakeupsMatch'
  BY MatchStep
<1> QED
  BY <1>1, <1>2, QueueCorrect, PTL DEF Spec

------------------------------------------------------------------------------
(* Detaching.                                                              *)

\* Once rt_mb_detach has found a list empty, only threads that came later
\* stand in it.
DetachInv ==
    \A t \in Threads : Waiting(t) /\ detach \in PastList(op[t]) => t \in late

\* A thread that suspends knows whether it is late; the others wait as before.
LEMMA BlockLate ==
    ASSUME TypeOK, DetachInv, NEW t \in Threads, NEW o \in Ops, NEW v, NEW to,
           Block(t, o, v, to)
    PROVE  DetachInv'
<1>1. /\ stat' = [stat EXCEPT ![t] = "suspend"] /\ op' = [op EXCEPT ![t] = o]
      /\ late' = IF detach \in PastList(o) THEN late \cup {t} ELSE late \ {t}
      /\ detach' = detach
  BY DEF Block
<1>2. SUFFICES ASSUME NEW u \in Threads, stat'[u] = "suspend", detach \in PastList(op'[u])
               PROVE  u \in late'
  BY <1>1 DEF DetachInv, Waiting, PastList
<1>3. CASE u = t
  BY <1>1, <1>2, <1>3 DEF TypeOK
<1>4. CASE u # t
  <2>1. stat[u] = "suspend" /\ detach \in PastList(op[u])
    BY <1>1, <1>2, <1>4 DEF TypeOK
  <2> QED
    BY <1>1, <1>4, <2>1 DEF DetachInv, Waiting
<1> QED
  BY <1>3, <1>4

\* A call that returns leaves the other threads waiting, or wakes one of them.
LEMMA LeaveLate ==
    ASSUME TypeOK, DetachInv, NEW t \in Threads, stat[t] = "ready", NEW code, NEW v,
           Leave(t, code, v), detach' = detach,
           stat' = stat \/ \E u \in Threads : stat' = [stat EXCEPT ![u] = "ready"]
    PROVE  DetachInv'
<1>1. op' = [op EXCEPT ![t] = "none"] /\ late' = late \ {t}
  BY DEF Leave
<1>2. \A u \in Threads : stat'[u] = "suspend" => stat[u] = "suspend" /\ u # t
  BY DEF TypeOK
<1>3. \A u \in Threads : u # t => op'[u] = op[u]
  BY <1>1 DEF TypeOK
<1> QED
  BY <1>1, <1>2, <1>3 DEF DetachInv, Waiting, PastList

\* The loop of rt_mb_send_wait in a thread that runs.
LEMMA SendLate ==
    ASSUME TypeOK, DetachInv, NEW t \in Threads, stat[t] = "ready", NEW v, NEW to,
           SendLoop(t, v, to)
    PROVE  DetachInv'
<1>1. CASE SendFull(t, to)
  BY <1>1, LeaveLate DEF SendFull, Fail
<1>2. CASE SendBlock(t, v, to)
  BY <1>2, BlockLate DEF SendBlock, Ops
<1>3. CASE SendPut(t, v)
  <2>1. stat' = stat \/ \E u \in Threads : stat' = [stat EXCEPT ![u] = "ready"]
    BY <1>3, ResumeType DEF SendPut, StatAfterResume, TypeOK
  <2> QED
    BY <1>3, <2>1, LeaveLate DEF SendPut
<1> QED
  BY <1>1, <1>2, <1>3 DEF SendLoop

\* The loop of rt_mb_recv in a thread that runs.
LEMMA RecvLate ==
    ASSUME TypeOK, DetachInv, NEW t \in Threads, stat[t] = "ready", NEW to,
           RecvLoop(t, to)
    PROVE  DetachInv'
<1>1. CASE RecvEmpty(t, to)
  BY <1>1, LeaveLate DEF RecvEmpty, Fail
<1>2. CASE RecvBlock(t, to)
  BY <1>2, BlockLate DEF RecvBlock, Ops
<1>3. CASE RecvTake(t)
  <2>1. stat' = stat \/ \E u \in Threads : stat' = [stat EXCEPT ![u] = "ready"]
    BY <1>3, ResumeType DEF RecvTake, StatAfterResume, TypeOK
  <2> QED
    BY <1>3, <2>1, LeaveLate DEF RecvTake
<1> QED
  BY <1>1, <1>2, <1>3 DEF RecvLoop

\* Nobody new waits after a step that only wakes threads, and rt_mb_detach
\* stands where it stood or works on a list it has not found empty.
LEMMA WakeLate ==
    ASSUME DetachInv, UNCHANGED <<op, late>>,
           detach' = detach \/ detach' \in {"none", "recv", "recvTake", "garbage"}
           \/ (detach = "sendTake" /\ detach' = "send"),
           \A u \in Threads : stat'[u] = "suspend" => stat[u] = "suspend"
    PROVE  DetachInv'
<1> SUFFICES ASSUME NEW u \in Threads, stat'[u] = "suspend", detach' \in PastList(op[u])
             PROVE  u \in late
  BY DEF DetachInv, Waiting, PastList
<1>1. detach \in PastList(op[u])
  BY DEF PastList
<1> QED
  BY <1>1 DEF DetachInv, Waiting

\* Every step keeps DetachInv.  It is here that a list is found empty: nobody
\* who has not come late can be in it (QueueInv).
LEMMA DetachStep ==
    ASSUME TypeOK, QueueInv, DetachInv, [Next]_vars
    PROVE  DetachInv'
<1>0. /\ stat \in [Threads -> Stats] /\ op \in [Threads -> Ops]
      /\ recvQ \in Seq(Threads) /\ sendQ \in Seq(Threads)
  BY QueueTypes
<1>1. ASSUME NEW t \in Threads, Call(t)
      PROVE  DetachInv'
  <2>1. CASE AssertFails(t)
    BY <1>0, <2>1, WakeLate DEF AssertFails, callVars
  <2>2. ASSUME NEW to \in Timeouts[t], NEW v \in Values, rt_mb_send_wait(t, v, to)
        PROVE  DetachInv'
    BY <2>2, SendLate DEF rt_mb_send_wait, Free
  <2>3. ASSUME NEW to \in Timeouts[t], rt_mb_recv(t, to)
        PROVE  DetachInv'
    BY <2>3, RecvLate DEF rt_mb_recv, Free
  <2> QED
    BY <1>1, <2>1, <2>2, <2>3 DEF Call
<1>2. ASSUME NEW t \in Threads, Resume(t)
      PROVE  DetachInv'
  <2>1. CASE ReturnError(t)
    BY <2>1, LeaveLate DEF ReturnError, Woken, Fail
  <2>2. CASE SendAgain(t)
    BY <2>2, SendLate DEF SendAgain, Woken
  <2>3. CASE RecvAgain(t)
    BY <2>3, RecvLate DEF RecvAgain, Woken
  <2> QED
    BY <1>2, <2>1, <2>2, <2>3 DEF Resume
<1>3. ASSUME NEW t \in Threads, TimerExpires(t)
      PROVE  DetachInv'
  BY <1>0, <1>3, WakeLate DEF TimerExpires
<1>4. CASE rt_mb_init \/ rt_mb_reset
  BY <1>0, <1>4, WakeLate DEF rt_mb_init, rt_mb_reset, callVars
<1>5. CASE DetachBegin
  BY <1>5, WakeLate DEF DetachBegin, callVars
<1>6. CASE DetachTest
  <2>1. UNCHANGED <<stat, op, late>>
    BY <1>6 DEF DetachTest, callVars
  <2>2. SUFFICES ASSUME NEW t \in Threads, stat[t] = "suspend", detach' \in PastList(op[t])
                 PROVE  t \in late
    BY <2>1 DEF DetachInv, Waiting, PastList
  <2>3. CASE detach \in PastList(op[t])
    BY <2>2, <2>3 DEF DetachInv, Waiting
  <2>4. CASE detach \notin PastList(op[t])
    <3>1. op[t] \in {"send", "recv"}
      BY <1>0, <2>2 DEF QueueInv, Waiting, Ops
    <3>2. \/ detach = "recv" /\ recvQ = <<>> /\ op[t] = "recv"
          \/ detach = "send" /\ sendQ = <<>> /\ op[t] = "send"
      BY <1>6, <2>2, <2>4, <3>1 DEF DetachTest, PastList
    <3>3. (Listed(recvQ, t) /\ op[t] = "recv") \/ (Listed(sendQ, t) /\ op[t] = "send")
      BY <2>2, <3>1 DEF QueueInv, ListFor
    <3> QED
      BY <3>2, <3>3 DEF Listed
  <2> QED
    BY <2>3, <2>4
<1>7. CASE DetachObject
  <2>1. UNCHANGED <<stat, op, late>> /\ detach = "object" /\ detach' = "done"
    BY <1>7 DEF DetachObject, callVars
  <2> QED
    BY <2>1 DEF DetachInv, Waiting, PastList
<1>8. CASE DetachTakeReceiver \/ DetachTakeSender
  <2>1. PICK q \in {recvQ, sendQ} : DetachTake(q)
    BY <1>8 DEF DetachTakeReceiver, DetachTakeSender
  <2>2. q # <<>> => Head(q) \in Threads
    BY <1>0, TailListed
  <2>3. \A u \in Threads : stat'[u] = "suspend" => stat[u] = "suspend"
    BY <1>0, <2>1, <2>2 DEF DetachTake, StatAfterResume
  <2>4. UNCHANGED <<op, late>>
    BY <2>1 DEF DetachTake
  <2>5. detach' \in {"recv", "garbage"} \/ (detach = "sendTake" /\ detach' = "send")
    BY <1>8, <2>1 DEF DetachTakeReceiver, DetachTakeSender, DetachTake
  <2> QED
    BY <2>3, <2>4, <2>5, WakeLate
<1>9. CASE Tick \/ UNCHANGED vars
  BY <1>9, WakeLate DEF Tick, vars, callVars
<1> QED
  BY <1>1, <1>2, <1>3, <1>4, <1>5, <1>6, <1>7, <1>8, <1>9 DEF Next, Detaching

\* Whatever comes between the steps of rt_mb_detach, a detach that returns
\* leaves nobody suspended but those who came after the two calls of
\* rt_ipc_list_resume_all had found their list empty.
THEOREM MailboxDetach == Spec => []DetachFreesAll
<1>1. Init => DetachInv
  BY DEF Init, DetachInv, Waiting
<1>2. TypeOK /\ QueueInv /\ DetachInv /\ [Next]_vars => DetachInv'
  BY DetachStep
<1>3. DetachInv => DetachFreesAll
  BY DEF DetachInv, DetachFreesAll, PastList
<1> QED
  BY <1>1, <1>2, <1>3, QueueCorrect, PTL DEF Spec
=============================================================================
