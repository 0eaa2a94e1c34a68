-------------------------------- MODULE Mutex --------------------------------
(***************************************************************************)
(* The RT-Thread mutex of rt-thread/src/ipc.c: recursive, owned, with      *)
(* priority inheritance.  As in Mailbox, the stretch a call runs with      *)
(* interrupts disabled is one step, and a thread that was made ready goes  *)
(* on in a later step.  rt_mutex_detach and rt_mutex_delete are left out:  *)
(* no mutex of this firmware is detached while a thread uses it.           *)
(***************************************************************************)
EXTENDS Integers, Sequences, SequencesExt

CONSTANTS
    Threads,
    Mutexes,
    None,           \* RT_NULL, for an owner and for "waits for no mutex"
    Flag,           \* mutex->parent.parent.flag: "FIFO" or "PRIO"
    init_priority,  \* thread->init_priority; a smaller number runs first
    NoPriority,     \* 0xFF, original_priority of a free mutex
    Timeouts,       \* the arguments time: 0, a number of ticks, or -1
    HoldMax,        \* RT_MUTEX_HOLD_MAX, 255 in rtdef.h
    Nested          \* a thread may take a mutex while it owns another

ASSUME MutexNoneAssumption == None \notin Threads \cup Mutexes
ASSUME MutexFlagAssumption == Flag \in [Mutexes -> {"FIFO", "PRIO"}]
ASSUME MutexPriorityAssumption ==
    /\ NoPriority \in Nat
    /\ init_priority \in [Threads -> 0 .. NoPriority - 1]
ASSUME MutexTimeoutAssumption == Timeouts \subseteq Int
ASSUME HoldAssumption == HoldMax \in Nat \ {0}
ASSUME NestedAssumption == Nested \in BOOLEAN

VARIABLES
    value, owner, hold, original_priority,
    waitQ,              \* mutex->parent.suspend_thread
    stat,               \* thread->stat: "ready" or "suspend"
    current_priority,
    error,              \* thread->error
    op,                 \* the mutex a suspended or just woken thread asked for
    timed               \* its thread timer runs

mutexVars  == <<value, owner, hold, original_priority, waitQ>>
threadVars == <<stat, current_priority, error, op, timed>>
vars == <<mutexVars, threadVars>>

Init ==
    /\ value = [m \in Mutexes |-> 1]
    /\ owner = [m \in Mutexes |-> None]
    /\ hold = [m \in Mutexes |-> 0]
    /\ original_priority = [m \in Mutexes |-> NoPriority]
    /\ waitQ = [m \in Mutexes |-> <<>>]
    /\ stat = [t \in Threads |-> "ready"]
    /\ current_priority = init_priority
    /\ error = [t \in Threads |-> "EOK"]
    /\ op = [t \in Threads |-> None]
    /\ timed = [t \in Threads |-> FALSE]

------------------------------------------------------------------------------
(* The suspend list and the priorities.                                    *)

\* rt_ipc_list_suspend: FIFO appends, PRIO goes before the first thread of
\* lower priority.
WaitPlace(m, t, i) ==
    IF Flag[m] = "FIFO"
    THEN i = Len(waitQ[m]) + 1
    ELSE /\ \A j \in 1 .. i - 1 :
               current_priority[waitQ[m][j]] <= current_priority[t]
         /\ i <= Len(waitQ[m]) =>
               current_priority[t] < current_priority[waitQ[m][i]]

\* Mutant: the timeout leaves its thread in the list.
StaysListed(q, t) == q

\* rt_list_remove(&thread->tlist).
RemoveFrom(q, t) ==
    IF \E i \in 1 .. Len(q) : q[i] = t
    THEN RemoveAt(q, CHOOSE i \in 1 .. Len(q) : q[i] = t)
    ELSE q

\* RT_THREAD_CTRL_CHANGE_PRIORITY: a suspended thread keeps its place in the
\* list it waits in, and the owner of what it waits for inherits nothing.
ChangePriority(t, p) == [current_priority EXCEPT ![t] = p]

\* Mutant: the test is the wrong way round.
InheritWrong(t, m) ==
    IF current_priority[t] > current_priority[owner[m]]
    THEN ChangePriority(owner[m], current_priority[t])
    ELSE current_priority

\* The owner runs at the priority of a more urgent thread that waits for it.
Inherit(t, m) ==
    IF current_priority[t] < current_priority[owner[m]]
    THEN ChangePriority(owner[m], current_priority[t])
    ELSE current_priority

\* Mutant: the inherited priority is kept.
KeepPriority(m) == current_priority

\* The owner's last release gives it back the priority it took m with.
Restore(m) == ChangePriority(owner[m], original_priority[m])

------------------------------------------------------------------------------
(* rt_mutex_take.                                                          *)

\* t executes its own code and is not inside a call on a mutex.
Running(t) == stat[t] = "ready" /\ op[t] = None

Owns(t, m) == owner[m] = t

\* Mutant: the limit is not looked at.
TakeAgainAnyway(t, m) ==
    /\ Running(t) /\ Owns(t, m)
    /\ error' = [error EXCEPT ![t] = "EOK"]
    /\ hold' = [hold EXCEPT ![m] = @ + 1]
    /\ UNCHANGED <<value, owner, original_priority, waitQ, stat,
                   current_priority, op, timed>>

\* The owner takes the mutex once more; at the limit it gets -RT_EFULL.
TakeAgain(t, m) ==
    /\ Running(t) /\ Owns(t, m)
    /\ error' = [error EXCEPT ![t] = "EOK"]
    /\ hold' = [hold EXCEPT ![m] = IF @ < HoldMax THEN @ + 1 ELSE @]
    /\ UNCHANGED <<value, owner, original_priority, waitQ, stat,
                   current_priority, op, timed>>

\* How the callers nest their mutexes.
MayTake(t) == Nested \/ \A m \in Mutexes : ~Owns(t, m)

TakeFree(t, m) ==
    /\ Running(t) /\ MayTake(t) /\ ~Owns(t, m)
    /\ value[m] > 0
    /\ value' = [value EXCEPT ![m] = @ - 1]
    /\ owner' = [owner EXCEPT ![m] = t]
    /\ original_priority' = [original_priority EXCEPT ![m] = current_priority[t]]
    /\ hold' = [hold EXCEPT ![m] = @ + 1]
    /\ error' = [error EXCEPT ![t] = "EOK"]
    /\ UNCHANGED <<waitQ, stat, current_priority, op, timed>>

TakeRefused(t, m) ==
    /\ Running(t) /\ MayTake(t) /\ ~Owns(t, m)
    /\ value[m] = 0
    /\ 0 \in Timeouts
    /\ error' = [error EXCEPT ![t] = "ETIMEOUT"]
    /\ UNCHANGED <<mutexVars, stat, current_priority, op, timed>>

TakeWait(t, m) ==
    /\ Running(t) /\ MayTake(t) /\ ~Owns(t, m)
    /\ value[m] = 0
    /\ \E time \in Timeouts \ {0} : timed' = [timed EXCEPT ![t] = time > 0]
    /\ current_priority' = Inherit(t, m)
    /\ \E i \in 1 .. Len(waitQ[m]) + 1 :
          /\ WaitPlace(m, t, i)
          /\ waitQ' = [waitQ EXCEPT ![m] = InsertAt(@, i, t)]
    /\ stat' = [stat EXCEPT ![t] = "suspend"]
    /\ op' = [op EXCEPT ![t] = m]
    /\ error' = [error EXCEPT ![t] = "EOK"]
    /\ UNCHANGED <<value, owner, hold, original_priority>>

\* rt_thread_timeout of a thread that waits for m.
TimerExpires(t) ==
    /\ stat[t] = "suspend" /\ timed[t]
    /\ error' = [error EXCEPT ![t] = "ETIMEOUT"]
    /\ waitQ' = [waitQ EXCEPT ![op[t]] = RemoveFrom(@, t)]
    /\ stat' = [stat EXCEPT ![t] = "ready"]
    /\ timed' = [timed EXCEPT ![t] = FALSE]
    /\ UNCHANGED <<value, owner, hold, original_priority, current_priority, op>>

\* The woken thread is scheduled and returns thread->error; the mutex was
\* handed to it if that is RT_EOK.
TakeReturns(t) ==
    /\ stat[t] = "ready" /\ op[t] # None
    /\ op' = [op EXCEPT ![t] = None]
    /\ UNCHANGED <<mutexVars, stat, current_priority, error, timed>>

------------------------------------------------------------------------------
(* rt_mutex_release.                                                       *)

\* Only the owner may release.
ReleaseForeign(t, m) ==
    /\ Running(t) /\ ~Owns(t, m)
    /\ error' = [error EXCEPT ![t] = "ERROR"]
    /\ UNCHANGED <<mutexVars, stat, current_priority, op, timed>>

ReleaseInner(t, m) ==
    /\ Running(t) /\ Owns(t, m)
    /\ hold[m] > 1
    /\ hold' = [hold EXCEPT ![m] = @ - 1]
    /\ UNCHANGED <<value, owner, original_priority, waitQ, threadVars>>

\* Mutant: the waiter is woken and the mutex is not given to it.
WakeOnly(t, m) ==
    /\ Running(t) /\ Owns(t, m)
    /\ hold[m] = 1
    /\ waitQ[m] # <<>>
    /\ current_priority' = Restore(m)
    /\ LET next == Head(waitQ[m])
       IN  /\ stat' = [stat EXCEPT ![next] = "ready"]
           /\ timed' = [timed EXCEPT ![next] = FALSE]
    /\ owner' = [owner EXCEPT ![m] = None]
    /\ original_priority' = [original_priority EXCEPT ![m] = NoPriority]
    /\ value' = [value EXCEPT ![m] = @ + 1]
    /\ hold' = [hold EXCEPT ![m] = @ - 1]
    /\ waitQ' = [waitQ EXCEPT ![m] = Tail(@)]
    /\ UNCHANGED <<error, op>>

\* The first waiter owns the mutex before it runs again; hold falls to 0
\* and is raised to 1 for it.
ReleaseHandOver(t, m) ==
    /\ Running(t) /\ Owns(t, m)
    /\ hold[m] = 1
    /\ waitQ[m] # <<>>
    /\ current_priority' = Restore(m)
    /\ LET next == Head(waitQ[m])
       IN  /\ owner' = [owner EXCEPT ![m] = next]
           /\ original_priority' =
                [original_priority EXCEPT ![m] = current_priority[next]]
           /\ stat' = [stat EXCEPT ![next] = "ready"]
           /\ timed' = [timed EXCEPT ![next] = FALSE]
    /\ waitQ' = [waitQ EXCEPT ![m] = Tail(@)]
    /\ UNCHANGED <<value, hold, error, op>>

\* Mutant: value is not raised.
ReleaseKeepsValue(t, m) ==
    /\ Running(t) /\ Owns(t, m)
    /\ hold[m] = 1
    /\ waitQ[m] = <<>>
    /\ current_priority' = Restore(m)
    /\ hold' = [hold EXCEPT ![m] = 0]
    /\ owner' = [owner EXCEPT ![m] = None]
    /\ original_priority' = [original_priority EXCEPT ![m] = NoPriority]
    /\ UNCHANGED <<value, waitQ, stat, error, op, timed>>

ReleaseFree(t, m) ==
    /\ Running(t) /\ Owns(t, m)
    /\ hold[m] = 1
    /\ waitQ[m] = <<>>
    /\ current_priority' = Restore(m)
    /\ hold' = [hold EXCEPT ![m] = 0]
    /\ value' = [value EXCEPT ![m] = @ + 1]
    /\ owner' = [owner EXCEPT ![m] = None]
    /\ original_priority' = [original_priority EXCEPT ![m] = NoPriority]
    /\ UNCHANGED <<waitQ, stat, error, op, timed>>

rt_mutex_take(t, m) ==
    \/ TakeAgain(t, m)
    \/ TakeFree(t, m)
    \/ TakeRefused(t, m)
    \/ TakeWait(t, m)

rt_mutex_release(t, m) ==
    \/ ReleaseForeign(t, m)
    \/ ReleaseInner(t, m)
    \/ ReleaseHandOver(t, m)
    \/ ReleaseFree(t, m)

Next ==
    \E t \in Threads :
        \/ \E m \in Mutexes : rt_mutex_take(t, m) \/ rt_mutex_release(t, m)
        \/ TimerExpires(t)
        \/ TakeReturns(t)

Spec == Init /\ [][Next]_vars

------------------------------------------------------------------------------
(* Properties.                                                             *)

\* Every variable has its type; hold stays within RT_MUTEX_HOLD_MAX.
TypeOK ==
    /\ value \in [Mutexes -> {0, 1}]
    /\ owner \in [Mutexes -> Threads \cup {None}]
    /\ hold \in [Mutexes -> 0 .. HoldMax]
    /\ original_priority \in [Mutexes -> 0 .. NoPriority]
    /\ waitQ \in [Mutexes -> Seq(Threads)]
    /\ stat \in [Threads -> {"ready", "suspend"}]
    /\ current_priority \in [Threads -> 0 .. NoPriority - 1]
    /\ error \in [Threads -> {"EOK", "ETIMEOUT", "ERROR"}]
    /\ op \in [Threads -> Mutexes \cup {None}]
    /\ timed \in [Threads -> BOOLEAN]

\* The three fields that say whether a mutex is taken (value, owner, hold)
\* agree in every state of rt_mutex_take and rt_mutex_release, and a free
\* mutex has no waiter: no wake-up is lost between a release and a timeout.
FreeOrOwned ==
    \A m \in Mutexes :
        /\ value[m] = 1 <=> owner[m] = None
        /\ hold[m] = 0 <=> owner[m] = None
        /\ owner[m] = None => waitQ[m] = <<>>

\* A thread is suspended exactly when it stands, once, in the list of the
\* mutex it asked for and in no other: rt_thread_timeout racing a hand-over
\* leaves no thread behind in a list.
WaitersListed ==
    \A m \in Mutexes :
        /\ \A i, j \in DOMAIN waitQ[m] : i # j => waitQ[m][i] # waitQ[m][j]
        /\ \A t \in Threads :
              (stat[t] = "suspend" /\ op[t] = m)
                  <=> \E i \in DOMAIN waitQ[m] : waitQ[m][i] = t

\* A thread that wakes up in rt_mutex_take sees RT_EOK if and only if it owns
\* the mutex it asked for: it never enters unowned, and never leaves with an
\* error while owning a mutex nobody would then release.
WokenOwner ==
    \A t \in Threads :
        (stat[t] = "ready" /\ op[t] # None) => (error[t] = "EOK" <=> Owns(t, op[t]))

\* Priority inheritance of rt_mutex_take: nobody waits in a list sorted by
\* priority for an owner less urgent than itself, after hand-overs and
\* timeouts of other waiters as well.
Inheritance ==
    \A m \in Mutexes :
        Flag[m] = "PRIO" =>
            \A i \in DOMAIN waitQ[m] :
                current_priority[owner[m]] <= current_priority[waitQ[m][i]]

\* rt_mutex_release gives an inherited priority back: a thread that owns no
\* mutex runs at its own priority.
OwnPriority ==
    \A t \in Threads :
        (\A m \in Mutexes : ~Owns(t, m)) => current_priority[t] = init_priority[t]
==============================================================================
