------------------------------- MODULE Mailbox -------------------------------
(***************************************************************************)
(* The RT-Thread mailbox of rt-thread/src/ipc.c, with the part of          *)
(* thread.c that suspends, resumes and times out its callers.              *)
(*                                                                         *)
(* A call runs with interrupts disabled from its first test to the point   *)
(* where it returns or suspends its thread, so that stretch is one step.   *)
(* A thread that was suspended and made ready again goes on only when the  *)
(* scheduler picks it: between the two steps any other thread, the tick    *)
(* interrupt and rt_mb_detach may act.                                     *)
(***************************************************************************)
EXTENDS Integers, Sequences, FiniteSets, SequencesExt

CONSTANTS
    Threads,        \* the threads that use the mailbox
    Values,         \* the mails (pointers or words, never inspected here)
    None,           \* content of a slot never written
    Size,           \* mb->size
    Flag,           \* mb->parent.parent.flag: "FIFO" or "PRIO"
    Priority,       \* thread->current_priority; a smaller number runs first
    Timeouts        \* the timeout arguments each thread uses

WAITING_FOREVER == -1   \* RT_WAITING_FOREVER; RT_WAITING_NO is 0

ASSUME ThreadsAssumption == IsFiniteSet(Threads)
ASSUME SizeAssumption == Size \in Nat \ {0}
ASSUME NoneAssumption == None \notin Values
ASSUME PriorityAssumption == Priority \in [Threads -> Nat]
ASSUME FlagAssumption == Flag \in {"FIFO", "PRIO"}
ASSUME TimeoutAssumption ==
    Timeouts \in [Threads -> SUBSET (Nat \cup {WAITING_FOREVER})]

VARIABLES
    objType,        \* rt_object_get_type(mb): "Null" or "MailBox"
    msg_pool, entry, in_offset, out_offset,
    recvQ,          \* mb->parent.suspend_thread
    sendQ,          \* mb->suspend_sender_thread
    detach,         \* where the thread inside rt_mb_detach stands
    stat,           \* thread->stat: "ready", "suspend", or "halt" (assertion)
    op,             \* the call a thread is in: "none", "send" or "recv"
    arg,            \* the mail a blocked sender carries
    timeout,        \* the local variable timeout of that call
    elapsed,        \* ticks since the call last suspended (tick_delta)
    error,          \* thread->error; the code reads it only on waking up, so
                    \* it is kept as "EOK" outside a call
    done,           \* the call that completed last: the code it returned,
                    \* the mail it sent or received
    late            \* the threads that suspended only after rt_mb_detach had
                    \* found their list empty; no variable of the code, for
                    \* the properties only

boxVars    == <<msg_pool, entry, in_offset, out_offset>>
callVars   == <<op, arg, timeout, elapsed, error>>
vars == <<objType, boxVars, recvQ, sendQ, detach, stat, callVars, done, late>>

Slots == 0 .. Size - 1

\* rt_mb_detach has taken a list for a thread (see DetachTake): the assertion
\* that fails then loops with interrupts disabled, and nothing runs any more.
Halted == detach = "garbage"

------------------------------------------------------------------------------
(* Suspend lists.                                                          *)

\* rt_ipc_list_suspend: FIFO appends, PRIO inserts before the first thread
\* of lower priority.
SuspendPlace(q, t, i) ==
    IF Flag = "FIFO"
    THEN i = Len(q) + 1
    ELSE /\ \A j \in 1 .. i - 1 : Priority[q[j]] <= Priority[t]
         /\ i <= Len(q) => Priority[t] < Priority[q[i]]

\* List q becomes qNew.
SuspendIn(q, qNew, t) ==
    \E i \in 1 .. Len(q) + 1 : SuspendPlace(q, t, i) /\ qNew = InsertAt(q, i, t)

\* Mutant: the timeout leaves its thread in the list.
RemoveNothing(q, t) == q

\* rt_list_remove(&thread->tlist), by the timeout of the thread.
RemoveFrom(q, t) ==
    IF \E i \in 1 .. Len(q) : q[i] = t
    THEN RemoveAt(q, CHOOSE i \in 1 .. Len(q) : q[i] = t)
    ELSE q

\* Mutant: > for >=.
AdvanceLate(offset) == IF offset + 1 > Size THEN 0 ELSE offset + 1

\* An offset advanced by one, back to 0 at the end of the pool.
Advance(offset) == IF offset + 1 >= Size THEN 0 ELSE offset + 1

------------------------------------------------------------------------------
(* Time.                                                                   *)

Waiting(t) == stat[t] = "suspend"

\* The thread timer of a suspended call has run out.  The tick interrupt that
\* finds it calls rt_thread_timeout; the next tick does not come before that,
\* while what another thread does in between could as well have come before
\* this tick.
TimerDue(t) == Waiting(t) /\ timeout[t] > 0 /\ elapsed[t] >= timeout[t]

\* Mutant: each new wait starts with the whole timeout.
RemainingAll(t) == timeout[t]

\* timeout -= tick_delta, not below 0; a wait without end stays one.
Remaining(t) ==
    IF timeout[t] <= 0 THEN timeout[t]
    ELSE IF elapsed[t] >= timeout[t] THEN 0 ELSE timeout[t] - elapsed[t]

\* A tick passes for every call that has a deadline.
Tick ==
    /\ ~Halted
    /\ \A t \in Threads : ~TimerDue(t)
    /\ \E t \in Threads : op[t] # "none" /\ elapsed[t] < timeout[t]
    /\ elapsed' = [t \in Threads |->
                     IF op[t] # "none" /\ elapsed[t] < timeout[t]
                     THEN elapsed[t] + 1 ELSE elapsed[t]]
    /\ UNCHANGED <<objType, boxVars, recvQ, sendQ, detach, stat, op, arg,
                   timeout, error, done, late>>

\* rt_thread_timeout.
TimerExpires(t) ==
    /\ ~Halted
    /\ TimerDue(t)
    /\ error' = [error EXCEPT ![t] = "ETIMEOUT"]
    /\ stat' = [stat EXCEPT ![t] = "ready"]
    /\ recvQ' = RemoveFrom(recvQ, t)
    /\ sendQ' = RemoveFrom(sendQ, t)
    /\ UNCHANGED <<objType, boxVars, detach, op, arg, timeout, elapsed, done,
                   late>>

------------------------------------------------------------------------------
(* The calls.                                                              *)

\* The call of t is over and returns code.
Leave(t, code, v) ==
    /\ done' = [code |-> code, mail |-> v]
    /\ error' = [error EXCEPT ![t] = "EOK"]
    /\ op' = [op EXCEPT ![t] = "none"]
    /\ arg' = [arg EXCEPT ![t] = None]
    /\ timeout' = [timeout EXCEPT ![t] = 0]
    /\ elapsed' = [elapsed EXCEPT ![t] = 0]
    /\ late' = late \ {t}

\* It returns an error code and leaves the mailbox alone.
Fail(t, code) ==
    /\ Leave(t, code, None)
    /\ UNCHANGED <<objType, boxVars, recvQ, sendQ, detach, stat>>

\* The steps of rt_mb_detach after it has found the list of call o empty.
PastList(o) ==
    IF o = "recv" THEN {"send", "sendTake", "object", "done"} ELSE {"object", "done"}

\* thread->error is cleared, the thread is suspended and its timer started.
Block(t, o, v, to) ==
    /\ stat' = [stat EXCEPT ![t] = "suspend"]
    /\ error' = [error EXCEPT ![t] = "EOK"]
    /\ op' = [op EXCEPT ![t] = o]
    /\ arg' = [arg EXCEPT ![t] = v]
    /\ timeout' = [timeout EXCEPT ![t] = to]
    /\ elapsed' = [elapsed EXCEPT ![t] = 0]
    /\ late' = IF detach \in PastList(o) THEN late \cup {t} ELSE late \ {t}
    /\ UNCHANGED <<objType, boxVars, detach, done>>

\* rt_ipc_list_resume: the first thread of a list that is not empty.
StatAfterResume(q) ==
    IF q = <<>> THEN stat ELSE [stat EXCEPT ![Head(q)] = "ready"]

QueueAfterResume(q) == IF q = <<>> THEN q ELSE Tail(q)

\* The loop and the rest of rt_mb_send_wait, with the timeout still left.
\* -RT_EFULL when full and out of time; suspend when full; else store the
\* mail and wake one receiver.  The second -RT_EFULL, for an entry that
\* reached RT_MB_ENTRY_MAX, is left out: size is a 16-bit number as well, so
\* entry < size implies entry < RT_MB_ENTRY_MAX.
SendFull(t, to) ==
    /\ entry = Size
    /\ to = 0
    /\ Fail(t, "EFULL")

SendBlock(t, v, to) ==
    /\ entry = Size
    /\ to # 0
    /\ Block(t, "send", v, to)
    /\ SuspendIn(sendQ, sendQ', t)
    /\ UNCHANGED recvQ

\* Mutant: a receiver is woken only for the first mail.
SendPutWakeIfEmpty(t, v) ==
    /\ entry # Size
    /\ msg_pool' = [msg_pool EXCEPT ![in_offset] = v]
    /\ in_offset' = Advance(in_offset)
    /\ entry' = entry + 1
    /\ stat' = IF entry = 0 THEN StatAfterResume(recvQ) ELSE stat
    /\ recvQ' = IF entry = 0 THEN QueueAfterResume(recvQ) ELSE recvQ
    /\ Leave(t, "EOK", v)
    /\ UNCHANGED <<objType, out_offset, sendQ, detach>>

\* Mutant: no receiver is woken.
SendPutSilent(t, v) ==
    /\ entry # Size
    /\ msg_pool' = [msg_pool EXCEPT ![in_offset] = v]
    /\ in_offset' = Advance(in_offset)
    /\ entry' = entry + 1
    /\ Leave(t, "EOK", v)
    /\ UNCHANGED <<objType, out_offset, stat, recvQ, sendQ, detach>>

SendPut(t, v) ==
    /\ entry # Size
    /\ msg_pool' = [msg_pool EXCEPT ![in_offset] = v]
    /\ in_offset' = Advance(in_offset)
    /\ entry' = entry + 1
    /\ stat' = StatAfterResume(recvQ)
    /\ recvQ' = QueueAfterResume(recvQ)
    /\ Leave(t, "EOK", v)
    /\ UNCHANGED <<objType, out_offset, sendQ, detach>>

SendLoop(t, v, to) == SendFull(t, to) \/ SendBlock(t, v, to) \/ SendPut(t, v)

\* The same for rt_mb_recv.
RecvEmpty(t, to) ==
    /\ entry = 0
    /\ to = 0
    /\ Fail(t, "ETIMEOUT")

RecvBlock(t, to) ==
    /\ entry = 0
    /\ to # 0
    /\ Block(t, "recv", None, to)
    /\ SuspendIn(recvQ, recvQ', t)
    /\ UNCHANGED sendQ

\* Mutant: the offset is advanced before the mail is read.
RecvTakeLate(t) ==
    /\ entry # 0
    /\ out_offset' = Advance(out_offset)
    /\ entry' = entry - 1
    /\ stat' = StatAfterResume(sendQ)
    /\ sendQ' = QueueAfterResume(sendQ)
    /\ Leave(t, "EOK", msg_pool[Advance(out_offset)])
    /\ UNCHANGED <<objType, msg_pool, in_offset, recvQ, detach>>

RecvTake(t) ==
    /\ entry # 0
    /\ out_offset' = Advance(out_offset)
    /\ entry' = entry - 1
    /\ stat' = StatAfterResume(sendQ)
    /\ sendQ' = QueueAfterResume(sendQ)
    /\ Leave(t, "EOK", msg_pool[out_offset])
    /\ UNCHANGED <<objType, msg_pool, in_offset, recvQ, detach>>

RecvLoop(t, to) == RecvEmpty(t, to) \/ RecvBlock(t, to) \/ RecvTake(t)

\* A thread outside any call, free to make one, also while another thread is
\* inside rt_mb_detach.
Free(t) ==
    /\ ~Halted
    /\ op[t] = "none"
    /\ stat[t] = "ready"

\* RT_ASSERT(rt_object_get_type(mb) == RT_Object_Class_MailBox) fails: the
\* assertion handler never returns.
AssertFails(t) ==
    /\ Free(t)
    /\ objType # "MailBox"
    /\ stat' = [stat EXCEPT ![t] = "halt"]
    /\ UNCHANGED <<objType, boxVars, recvQ, sendQ, detach, callVars, done, late>>

rt_mb_send_wait(t, v, to) ==
    /\ Free(t)
    /\ objType = "MailBox"
    /\ SendLoop(t, v, to)

rt_mb_recv(t, to) ==
    /\ Free(t)
    /\ objType = "MailBox"
    /\ RecvLoop(t, to)

\* A thread resumed inside a call is scheduled again: an error in
\* thread->error ends the call, otherwise the loop goes round.
Woken(t) == ~Halted /\ op[t] # "none" /\ stat[t] = "ready"

ReturnError(t) ==
    /\ Woken(t)
    /\ error[t] # "EOK"
    /\ Fail(t, error[t])

SendAgain(t) ==
    /\ Woken(t)
    /\ op[t] = "send"
    /\ error[t] = "EOK"
    /\ SendLoop(t, arg[t], Remaining(t))

RecvAgain(t) ==
    /\ Woken(t)
    /\ op[t] = "recv"
    /\ error[t] = "EOK"
    /\ RecvLoop(t, Remaining(t))

------------------------------------------------------------------------------
(* The life of the mailbox object.                                         *)

\* rt_mb_create does the same to a mailbox and a pool it has allocated.
rt_mb_init ==
    /\ objType = "Null"
    /\ detach = "none"
    /\ objType' = "MailBox"
    /\ entry' = 0
    /\ in_offset' = 0
    /\ out_offset' = 0
    /\ recvQ' = <<>>
    /\ sendQ' = <<>>
    /\ UNCHANGED <<msg_pool, detach, stat, callVars, done, late>>

\* Mutant: out_offset is not reset.
ResetKeepsOut ==
    /\ ~Halted
    /\ objType = "MailBox"
    /\ stat' = [t \in Threads |-> IF Waiting(t) THEN "ready" ELSE stat[t]]
    /\ error' = [t \in Threads |-> IF Waiting(t) THEN "ERROR" ELSE error[t]]
    /\ recvQ' = <<>>
    /\ sendQ' = <<>>
    /\ entry' = 0
    /\ in_offset' = 0
    /\ UNCHANGED <<objType, msg_pool, out_offset, detach, op, arg, timeout,
                   elapsed, done, late>>

\* rt_mb_control(RT_IPC_CMD_RESET), all of it with interrupts disabled.
rt_mb_reset ==
    /\ ~Halted
    /\ objType = "MailBox"
    /\ stat' = [t \in Threads |-> IF Waiting(t) THEN "ready" ELSE stat[t]]
    /\ error' = [t \in Threads |-> IF Waiting(t) THEN "ERROR" ELSE error[t]]
    /\ recvQ' = <<>>
    /\ sendQ' = <<>>
    /\ entry' = 0
    /\ in_offset' = 0
    /\ out_offset' = 0
    /\ UNCHANGED <<objType, msg_pool, detach, op, arg, timeout, elapsed, done,
                   late>>

\* rt_mb_detach, and rt_mb_delete, which frees the memory as well.  The two
\* calls of rt_ipc_list_resume_all test the list with interrupts enabled and
\* take its head in a later critical section; callers, timeouts and resets may
\* come in between.
DetachBegin ==
    /\ objType = "MailBox"
    /\ detach = "none"
    /\ detach' = "recv"
    /\ UNCHANGED <<objType, boxVars, recvQ, sendQ, stat, callVars, done, late>>

\* Mutant: the senders' list is not emptied.
DetachTestOneList ==
    /\ detach = "recv"
    /\ detach' = IF recvQ = <<>> THEN "object" ELSE "recvTake"
    /\ UNCHANGED <<objType, boxVars, recvQ, sendQ, stat, callVars, done, late>>

DetachTest ==
    /\ \/ detach = "recv" /\ detach' = IF recvQ = <<>> THEN "send" ELSE "recvTake"
       \/ detach = "send" /\ detach' = IF sendQ = <<>> THEN "object" ELSE "sendTake"
    /\ UNCHANGED <<objType, boxVars, recvQ, sendQ, stat, callVars, done, late>>

\* The head of a list emptied meanwhile is the mailbox's own list, taken for a
\* thread: its type is not that of a thread, and the assertion of
\* rt_thread_resume fails.
DetachTake(q) ==
    /\ detach' = IF q = <<>> THEN "garbage"
                 ELSE IF detach = "recvTake" THEN "recv" ELSE "send"
    /\ stat' = StatAfterResume(q)
    /\ error' = IF q = <<>> THEN error ELSE [error EXCEPT ![Head(q)] = "ERROR"]
    /\ UNCHANGED <<objType, boxVars, op, arg, timeout, elapsed, done, late>>

DetachTakeReceiver ==
    /\ detach = "recvTake"
    /\ DetachTake(recvQ)
    /\ recvQ' = QueueAfterResume(recvQ)
    /\ UNCHANGED sendQ

DetachTakeSender ==
    /\ detach = "sendTake"
    /\ DetachTake(sendQ)
    /\ sendQ' = QueueAfterResume(sendQ)
    /\ UNCHANGED recvQ

\* rt_object_detach.
DetachObject ==
    /\ detach = "object"
    /\ objType' = "Null"
    /\ detach' = "done"
    /\ UNCHANGED <<boxVars, recvQ, sendQ, stat, callVars, done, late>>

------------------------------------------------------------------------------
Init ==
    /\ objType = "Null"
    /\ msg_pool = [i \in Slots |-> None]
    /\ entry = 0
    /\ in_offset = 0
    /\ out_offset = 0
    /\ recvQ = <<>>
    /\ sendQ = <<>>
    /\ detach = "none"
    /\ stat = [t \in Threads |-> "ready"]
    /\ op = [t \in Threads |-> "none"]
    /\ arg = [t \in Threads |-> None]
    /\ timeout = [t \in Threads |-> 0]
    /\ elapsed = [t \in Threads |-> 0]
    /\ error = [t \in Threads |-> "EOK"]
    /\ done = [code |-> "EOK", mail |-> None]
    /\ late = {}

\* The steps by which a call in progress goes on.
Resume(t) == ReturnError(t) \/ SendAgain(t) \/ RecvAgain(t)

Call(t) ==
    \/ \E to \in Timeouts[t] :
        \/ \E v \in Values : rt_mb_send_wait(t, v, to)
        \/ rt_mb_recv(t, to)
    \/ AssertFails(t)

Detaching ==
    \/ DetachBegin
    \/ DetachTest
    \/ DetachTakeReceiver
    \/ DetachTakeSender
    \/ DetachObject

Next ==
    \/ \E t \in Threads : Call(t) \/ Resume(t) \/ TimerExpires(t)
    \/ Tick
    \/ rt_mb_init
    \/ rt_mb_reset
    \/ Detaching

Spec == Init /\ [][Next]_vars

\* The scheduler runs every ready thread in time, and the tick never stops.
Fairness ==
    /\ WF_vars(Tick)
    /\ \A t \in Threads : WF_vars(Resume(t)) /\ WF_vars(TimerExpires(t))

FairSpec == Spec /\ Fairness
------------------------------------------------------------------------------
(* Properties.                                                             *)

\* The fields of struct rt_mailbox and of the calls in progress have their
\* types: the offsets stay inside the pool and entry never exceeds size.
TypeOK ==
    /\ objType \in {"Null", "MailBox"}
    /\ msg_pool \in [Slots -> Values \cup {None}]
    /\ entry \in 0 .. Size
    /\ in_offset \in Slots
    /\ out_offset \in Slots
    /\ recvQ \in Seq(Threads)
    /\ sendQ \in Seq(Threads)
    /\ detach \in {"none", "recv", "recvTake", "send", "sendTake", "object",
                   "done", "garbage"}
    /\ late \subseteq Threads
    /\ stat \in [Threads -> {"ready", "suspend", "halt"}]
    /\ op \in [Threads -> {"none", "send", "recv"}]
    /\ arg \in [Threads -> Values \cup {None}]
    /\ timeout \in [Threads -> Nat \cup {WAITING_FOREVER}]
    /\ elapsed \in [Threads -> Nat]
    /\ error \in [Threads -> {"EOK", "ETIMEOUT", "ERROR"}]
    /\ done \in [code : {"EOK", "EFULL", "ETIMEOUT", "ERROR"},
                 mail : Values \cup {None}]

\* The slot of the i-th oldest mail, counting from 0.
SlotOf(i) == IF out_offset + i >= Size THEN out_offset + i - Size ELSE out_offset + i

\* The three numbers the code keeps of the ring agree: in_offset lies entry
\* slots behind out_offset, and every slot between the two holds a mail.
RingOK ==
    /\ in_offset = IF entry = Size THEN out_offset ELSE SlotOf(entry)
    /\ \A i \in 0 .. entry - 1 : msg_pool[SlotOf(i)] \in Values

\* The mailbox is the bounded FIFO its callers see: each mail is received at
\* most once, in the order sent, unaltered by any wrap-around of the offsets,
\* and -RT_EFULL is only ever said of a full mailbox (rt_mb_send_wait,
\* rt_mb_recv, rt_mb_control).
Mails == [i \in 1 .. entry |-> msg_pool[SlotOf(i - 1)]]

Fifo == INSTANCE MailboxFifo WITH box <- Mails

FifoSpec == Fifo!FifoSpec

\* Threads made ready by a peer that have not run yet.
Pending(o) == {t \in Threads : op[t] = o /\ stat[t] = "ready" /\ error[t] = "EOK"}

\* No wake-up is lost: while a receiver stays suspended, every mail in the
\* box is matched by another receiver already on its way; while a sender
\* stays suspended, so is every free slot.  rt_mb_send_wait and rt_mb_recv
\* resume one thread per call, although others may steal what it was woken for.
WakeupsMatch ==
    /\ recvQ # <<>> => entry <= Cardinality(Pending("recv"))
    /\ sendQ # <<>> => Size - entry <= Cardinality(Pending("send"))

\* A thread is in exactly the list its call suspended it in, once, and a PRIO
\* mailbox keeps the list sorted, so that the head is the most urgent thread
\* (rt_ipc_list_suspend, rt_ipc_list_resume, rt_thread_timeout).
ListsOK ==
    /\ \A t \in Threads :
        /\ (Waiting(t) /\ op[t] = "recv") <=> \E i \in 1 .. Len(recvQ) : recvQ[i] = t
        /\ (Waiting(t) /\ op[t] = "send") <=> \E i \in 1 .. Len(sendQ) : sendQ[i] = t
    /\ \A q \in {recvQ, sendQ} : \A i, j \in 1 .. Len(q) : i < j =>
        /\ q[i] # q[j]
        /\ Flag = "PRIO" => Priority[q[i]] <= Priority[q[j]]

\* rt_mb_detach makes everybody ready whom it finds: once it has returned, a
\* thread still suspended came, or came back from a wake-up, only after its
\* list had been found empty, whatever calls, timeouts, resets and wake-ups
\* came between the tests and the removals of rt_ipc_list_resume_all.
DetachFreesAll ==
    detach = "done" =>
        \A t \in Threads : Waiting(t) => t \in late

\* A call with a finite timeout ends, however often its thread is woken for a
\* mail or a slot that another thread takes first: the timeout is recomputed
\* before each new wait (rt_mb_send_wait, rt_mb_recv).  Only a detach that halts
\* the system keeps it from ending.
FiniteWaitEnds ==
    \A t \in Threads : (op[t] # "none" /\ timeout[t] > 0) ~> (op[t] = "none" \/ Halted)

\* A mailbox does not keep mail and a waiting receiver side by side: a woken
\* receiver takes the mail, or a thread that took it first has it
\* (rt_mb_send_wait, rt_mb_recv).
MailMeetsReceiver ==
    (entry > 0 /\ recvQ # <<>>) ~> (entry = 0 \/ recvQ = <<>> \/ Halted)
==============================================================================
