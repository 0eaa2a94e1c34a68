----------------------------- MODULE MutexProofs -----------------------------
(***************************************************************************)
(* Proofs about Mutex, for every number of threads and mutexes, every      *)
(* priority and timeout: who owns a mutex, who waits for it and what a     *)
(* woken thread finds; and, for threads that do not nest mutexes, that     *)
(* priorities are inherited and given back.                                *)
(***************************************************************************)
EXTENDS Mutex, ListLemmas, TLAPS

\* A suspended thread waits for a mutex it does not own, and its call of
\* rt_mutex_take has not failed so far.
SuspendedInCall ==
    \A t \in Threads :
        stat[t] = "suspend" => /\ op[t] \in Mutexes
                               /\ error[t] = "EOK"
                               /\ ~Owns(t, op[t])

\* A mutex that is taken has a priority to go back to.
OwnerHasPriority ==
    \A m \in Mutexes : owner[m] # None => original_priority[m] \in 0 .. NoPriority - 1

Inv ==
    /\ TypeOK /\ FreeOrOwned /\ WaitersListed /\ WokenOwner
    /\ SuspendedInCall /\ OwnerHasPriority

-----------------------------------------------------------------------------
(* The lists.                                                              *)

\* WaitersListed in the words of ListLemmas.
LEMMA ListedThreads ==
    WaitersListed <=>
        \A m \in Mutexes :
            /\ NoDouble(waitQ[m])
            /\ \A t \in Threads : (stat[t] = "suspend" /\ op[t] = m) <=> Listed(waitQ[m], t)
BY DEF WaitersListed, NoDouble, Listed

\* The timeout of a thread that waits takes it, and it alone, from the list.
LEMMA RemoveFromList ==
    ASSUME NEW q \in Seq(Threads), NoDouble(q), NEW t \in Threads, Listed(q, t)
    PROVE  /\ RemoveFrom(q, t) \in Seq(Threads)
           /\ NoDouble(RemoveFrom(q, t))
           /\ \A u : Listed(RemoveFrom(q, t), u) <=> u # t /\ Listed(q, u)
           /\ \A f : SortedBy(q, f) => SortedBy(RemoveFrom(q, t), f)
<1>1. DOMAIN q = 1 .. Len(q)
  BY LenProperties
<1>2. PICK i \in 1 .. Len(q) : q[i] = t /\ RemoveFrom(q, t) = RemoveAt(q, i)
  BY <1>1 DEF RemoveFrom, Listed
<1> QED
  BY <1>2, RemoveListed

-----------------------------------------------------------------------------
(* Ownership: one lemma for each exit of rt_mutex_take and of              *)
(* rt_mutex_release that changes a mutex or a list.                        *)

\* The owner takes the mutex again.
LEMMA TakeAgainInv ==
    ASSUME Inv, NEW t \in Threads, NEW m \in Mutexes, TakeAgain(t, m)
    PROVE  Inv'
<1> USE DEF TakeAgain, Running, Owns
<1>1. TypeOK'
  BY HoldAssumption DEF Inv, TypeOK
<1>2. FreeOrOwned'
  BY HoldAssumption, MutexNoneAssumption DEF Inv, TypeOK, FreeOrOwned
<1>3. WaitersListed'
  BY DEF Inv, WaitersListed
<1>4. WokenOwner' /\ SuspendedInCall'
  BY DEF Inv, TypeOK, WokenOwner, SuspendedInCall
<1>5. OwnerHasPriority'
  BY DEF Inv, OwnerHasPriority
<1> QED
  BY <1>1, <1>2, <1>3, <1>4, <1>5 DEF Inv

\* A free mutex is taken.
LEMMA TakeFreeInv ==
    ASSUME Inv, NEW t \in Threads, NEW m \in Mutexes, TakeFree(t, m)
    PROVE  Inv'
<1> USE DEF TakeFree, Running, Owns
<1>0. value[m] = 1 /\ owner[m] = None /\ hold[m] = 0 /\ waitQ[m] = <<>>
  BY DEF Inv, TypeOK, FreeOrOwned
<1>1. TypeOK'
  BY <1>0, HoldAssumption, MutexPriorityAssumption DEF Inv, TypeOK
<1>2. FreeOrOwned'
  BY <1>0, MutexNoneAssumption DEF Inv, TypeOK, FreeOrOwned
<1>3. WaitersListed'
  BY DEF Inv, WaitersListed
<1>4. WokenOwner'
  BY <1>0, MutexNoneAssumption DEF Inv, TypeOK, WokenOwner
<1>5. SuspendedInCall'
  BY <1>0 DEF Inv, TypeOK, SuspendedInCall
<1>6. OwnerHasPriority'
  BY DEF Inv, TypeOK, OwnerHasPriority
<1> QED
  BY <1>1, <1>2, <1>3, <1>4, <1>5, <1>6 DEF Inv

\* A thread waits for a mutex that is taken.
LEMMA TakeWaitInv ==
    ASSUME Inv, NEW t \in Threads, NEW m \in Mutexes, TakeWait(t, m)
    PROVE  Inv'
<1> USE DEF TakeWait, Running, Owns
<1>0. owner[m] \in Threads \ {t} /\ current_priority' \in [Threads -> 0 .. NoPriority - 1]
  BY MutexNoneAssumption DEF Inv, TypeOK, FreeOrOwned, Inherit, ChangePriority
<1>1. PICK i \in 1 .. Len(waitQ[m]) + 1 :
        waitQ' = [waitQ EXCEPT ![m] = InsertAt(@, i, t)]
  OBVIOUS
<1>2. waitQ[m] \in Seq(Threads) /\ waitQ \in [Mutexes -> Seq(Threads)]
  BY DEF Inv, TypeOK
<1>3. NoDouble(waitQ[m]) /\ ~Listed(waitQ[m], t)
  BY ListedThreads DEF Inv
<1>4. /\ waitQ'[m] \in Seq(Threads) /\ waitQ'[m] # <<>>
      /\ NoDouble(waitQ'[m])
      /\ \A u : Listed(waitQ'[m], u) <=> u = t \/ Listed(waitQ[m], u)
  <2>1. waitQ'[m] = InsertAt(waitQ[m], i, t)
    BY <1>1, <1>2
  <2> QED
    BY <2>1, <1>2, <1>3, InsertListed
<1>5. TypeOK'
  <2>1. waitQ' \in [Mutexes -> Seq(Threads)]
    BY <1>1, <1>2, <1>4
  <2>2. timed' \in [Threads -> BOOLEAN]
    <3>1. PICK time \in Timeouts : timed' = [timed EXCEPT ![t] = time > 0]
      OBVIOUS
    <3>2. (time > 0) \in BOOLEAN
      BY MutexTimeoutAssumption
    <3> QED
      BY <3>1, <3>2, Zenon DEF Inv, TypeOK
  <2> QED
    BY <1>0, <2>1, <2>2 DEF Inv, TypeOK
<1>6. FreeOrOwned'
  BY <1>0, <1>1, <1>2, MutexNoneAssumption DEF Inv, TypeOK, FreeOrOwned
<1>7. WaitersListed'
  <2>1. \A n \in Mutexes \ {m} : waitQ'[n] = waitQ[n]
    BY <1>1, <1>2
  <2>2. /\ stat'[t] = "suspend" /\ op'[t] = m /\ stat[t] = "ready"
        /\ \A u \in Threads \ {t} : stat'[u] = stat[u] /\ op'[u] = op[u]
    BY DEF Inv, TypeOK
  <2>3. ASSUME NEW n \in Mutexes
        PROVE  /\ NoDouble(waitQ'[n])
               /\ \A u \in Threads :
                     (stat'[u] = "suspend" /\ op'[u] = n) <=> Listed(waitQ'[n], u)
    BY <1>4, <2>1, <2>2, ListedThreads DEF Inv
  <2> QED
    BY <2>3 DEF WaitersListed, NoDouble, Listed
<1>8. WokenOwner'
  BY DEF Inv, TypeOK, WokenOwner
<1>9. SuspendedInCall'
  BY <1>0 DEF Inv, TypeOK, SuspendedInCall
<1>10. OwnerHasPriority'
  BY DEF Inv, OwnerHasPriority
<1> QED
  BY <1>5, <1>6, <1>7, <1>8, <1>9, <1>10 DEF Inv

\* The timeout of a waiting thread.
LEMMA TimerExpiresInv ==
    ASSUME Inv, NEW t \in Threads, TimerExpires(t)
    PROVE  Inv'
<1> USE DEF TimerExpires, Owns
<1> DEFINE m == op[t]
<1>0. m \in Mutexes /\ stat[t] = "suspend" /\ ~Owns(t, m)
  BY DEF Inv, SuspendedInCall
<1>1. waitQ[m] \in Seq(Threads) /\ waitQ \in [Mutexes -> Seq(Threads)]
  BY <1>0 DEF Inv, TypeOK
<1>2. NoDouble(waitQ[m]) /\ Listed(waitQ[m], t)
  BY <1>0, ListedThreads DEF Inv
<1>3. /\ waitQ'[m] \in Seq(Threads)
      /\ NoDouble(waitQ'[m])
      /\ \A u : Listed(waitQ'[m], u) <=> u # t /\ Listed(waitQ[m], u)
  <2>1. waitQ'[m] = RemoveFrom(waitQ[m], t)
    BY <1>0, <1>1
  <2> QED
    BY <2>1, <1>1, <1>2, RemoveFromList
<1>4. \A n \in Mutexes \ {m} : waitQ'[n] = waitQ[n]
  BY <1>1
<1>5. TypeOK'
  <2>1. waitQ' \in [Mutexes -> Seq(Threads)]
    BY <1>1, <1>3, <1>4
  <2> QED
    BY <2>1 DEF Inv, TypeOK
<1>6. FreeOrOwned'
  <2>1. owner[m] # None
    BY <1>0, <1>2 DEF Inv, FreeOrOwned, Listed
  <2> QED
    BY <1>0, <1>4, <2>1 DEF Inv, FreeOrOwned
<1>7. WaitersListed'
  <2>1. /\ stat'[t] = "ready" /\ op' = op
        /\ \A u \in Threads \ {t} : stat'[u] = stat[u]
    BY DEF Inv, TypeOK
  <2>2. ASSUME NEW n \in Mutexes
        PROVE  /\ NoDouble(waitQ'[n])
               /\ \A u \in Threads :
                     (stat'[u] = "suspend" /\ op'[u] = n) <=> Listed(waitQ'[n], u)
    BY <1>0, <1>3, <1>4, <2>1, ListedThreads DEF Inv
  <2> QED
    BY <2>2 DEF WaitersListed, NoDouble, Listed
<1>8. WokenOwner'
  BY <1>0 DEF Inv, TypeOK, WokenOwner
<1>9. SuspendedInCall'
  BY DEF Inv, TypeOK, SuspendedInCall
<1>10. OwnerHasPriority'
  BY DEF Inv, OwnerHasPriority
<1> QED
  BY <1>5, <1>6, <1>7, <1>8, <1>9, <1>10 DEF Inv

\* The last release gives the mutex to the first waiter.
LEMMA ReleaseHandOverInv ==
    ASSUME Inv, NEW t \in Threads, NEW m \in Mutexes, ReleaseHandOver(t, m)
    PROVE  Inv'
<1> USE DEF ReleaseHandOver, Running, Owns
<1> DEFINE next == Head(waitQ[m])
<1>1. waitQ[m] \in Seq(Threads) /\ waitQ \in [Mutexes -> Seq(Threads)] /\ waitQ[m] # <<>>
  BY DEF Inv, TypeOK
<1>2. NoDouble(waitQ[m])
  BY ListedThreads DEF Inv
<1>3. /\ next \in Threads /\ Listed(waitQ[m], next)
      /\ waitQ'[m] = Tail(waitQ[m]) /\ waitQ'[m] \in Seq(Threads)
      /\ NoDouble(waitQ'[m])
      /\ \A u : Listed(waitQ'[m], u) <=> u # next /\ Listed(waitQ[m], u)
  BY <1>1, <1>2, TailListed
<1>4. \A n \in Mutexes \ {m} : waitQ'[n] = waitQ[n]
  BY <1>1
<1>5. stat[next] = "suspend" /\ op[next] = m /\ error[next] = "EOK" /\ next # t
  BY <1>3, ListedThreads DEF Inv, SuspendedInCall
<1> HIDE DEF next
<1>6. /\ owner' = [owner EXCEPT ![m] = next]
      /\ original_priority' = [original_priority EXCEPT ![m] = current_priority[next]]
      /\ stat' = [stat EXCEPT ![next] = "ready"]
      /\ timed' = [timed EXCEPT ![next] = FALSE]
  BY DEF next
<1>7. TypeOK'
  <2>1. waitQ' \in [Mutexes -> Seq(Threads)]
    BY <1>1, <1>3, <1>4
  <2>2. current_priority' \in [Threads -> 0 .. NoPriority - 1]
    <3>1. original_priority[m] \in 0 .. NoPriority - 1
      BY MutexNoneAssumption DEF Inv, OwnerHasPriority
    <3> QED
      BY <3>1 DEF Inv, TypeOK, Restore, ChangePriority
  <2>3. timed' \in [Threads -> BOOLEAN]
    BY <1>6, Zenon DEF Inv, TypeOK
  <2>4. owner' \in [Mutexes -> Threads \cup {None}] /\ stat' \in [Threads -> {"ready", "suspend"}]
    BY <1>3, <1>6 DEF Inv, TypeOK
  <2>5. original_priority' \in [Mutexes -> 0 .. NoPriority]
    BY <1>3, <1>6, MutexPriorityAssumption DEF Inv, TypeOK
  <2> QED
    BY <2>1, <2>2, <2>3, <2>4, <2>5 DEF Inv, TypeOK
<1>8. FreeOrOwned'
  BY <1>3, <1>4, <1>6, MutexNoneAssumption DEF Inv, TypeOK, FreeOrOwned
<1>9. WaitersListed'
  <2>1. /\ stat'[next] = "ready" /\ op' = op
        /\ \A u \in Threads \ {next} : stat'[u] = stat[u]
    BY <1>3, <1>6 DEF Inv, TypeOK
  <2>2. ASSUME NEW n \in Mutexes
        PROVE  /\ NoDouble(waitQ'[n])
               /\ \A u \in Threads :
                     (stat'[u] = "suspend" /\ op'[u] = n) <=> Listed(waitQ'[n], u)
    BY <1>3, <1>4, <1>5, <2>1, ListedThreads DEF Inv
  <2> QED
    BY <2>2 DEF WaitersListed, NoDouble, Listed
<1>10. WokenOwner'
  BY <1>3, <1>5, <1>6 DEF Inv, TypeOK, WokenOwner
<1>11. SuspendedInCall'
  BY <1>3, <1>5, <1>6 DEF Inv, TypeOK, SuspendedInCall
<1>12. OwnerHasPriority'
  BY <1>3, <1>6 DEF Inv, TypeOK, OwnerHasPriority
<1> QED
  BY <1>7, <1>8, <1>9, <1>10, <1>11, <1>12 DEF Inv

\* The last release of a mutex nobody waits for.
LEMMA ReleaseFreeInv ==
    ASSUME Inv, NEW t \in Threads, NEW m \in Mutexes, ReleaseFree(t, m)
    PROVE  Inv'
<1> USE DEF ReleaseFree, Running, Owns
<1>0. value[m] = 0 /\ original_priority[m] \in 0 .. NoPriority - 1
  BY MutexNoneAssumption DEF Inv, TypeOK, FreeOrOwned, OwnerHasPriority
<1>1. TypeOK'
  <2>1. current_priority' \in [Threads -> 0 .. NoPriority - 1]
    BY <1>0 DEF Inv, TypeOK, Restore, ChangePriority
  <2> QED
    BY <1>0, <2>1, MutexPriorityAssumption, HoldAssumption DEF Inv, TypeOK
<1>2. FreeOrOwned'
  BY <1>0, MutexNoneAssumption DEF Inv, TypeOK, FreeOrOwned
<1>3. WaitersListed'
  BY DEF Inv, WaitersListed
<1>4. WokenOwner'
  BY MutexNoneAssumption DEF Inv, TypeOK, WokenOwner
<1>5. SuspendedInCall'
  BY MutexNoneAssumption DEF Inv, TypeOK, SuspendedInCall
<1>6. OwnerHasPriority'
  BY DEF Inv, TypeOK, OwnerHasPriority
<1> QED
  BY <1>1, <1>2, <1>3, <1>4, <1>5, <1>6 DEF Inv

\* An inner release of a mutex that was taken several times.
LEMMA ReleaseInnerInv ==
    ASSUME Inv, NEW t \in Threads, NEW m \in Mutexes, ReleaseInner(t, m)
    PROVE  Inv'
<1> USE DEF ReleaseInner, Running, Owns, threadVars
<1>1. TypeOK'
  BY HoldAssumption DEF Inv, TypeOK
<1>2. FreeOrOwned'
  BY HoldAssumption, MutexNoneAssumption DEF Inv, TypeOK, FreeOrOwned
<1>3. WaitersListed' /\ WokenOwner' /\ SuspendedInCall' /\ OwnerHasPriority'
  BY DEF Inv, WaitersListed, WokenOwner, SuspendedInCall, OwnerHasPriority
<1> QED
  BY <1>1, <1>2, <1>3 DEF Inv

\* The exits that change nothing but the error and the call of one thread.
LEMMA RefusalInv ==
    ASSUME Inv, NEW t \in Threads,
           \/ \E m \in Mutexes : TakeRefused(t, m) \/ ReleaseForeign(t, m)
           \/ TakeReturns(t)
    PROVE  Inv'
<1>1. /\ UNCHANGED <<mutexVars, stat, current_priority, timed>>
      /\ stat[t] = "ready"
      /\ (op' = op /\ op[t] = None) \/ op' = [op EXCEPT ![t] = None]
      /\ \/ error' = [error EXCEPT ![t] = "ETIMEOUT"]
         \/ error' = [error EXCEPT ![t] = "ERROR"]
         \/ error' = error
  BY DEF TakeRefused, ReleaseForeign, TakeReturns, Running
<1> USE <1>1 DEF mutexVars, Owns
<1>2. TypeOK'
  BY DEF Inv, TypeOK
<1>3. /\ op'[t] = None
      /\ \A u \in Threads \ {t} : op'[u] = op[u] /\ error'[u] = error[u]
  BY DEF Inv, TypeOK
<1>4. FreeOrOwned' /\ OwnerHasPriority'
  BY DEF Inv, FreeOrOwned, OwnerHasPriority
<1>5. WaitersListed'
  BY <1>3, MutexNoneAssumption DEF Inv, WaitersListed
<1>6. WokenOwner'
  BY <1>3 DEF Inv, WokenOwner
<1>7. SuspendedInCall'
  BY <1>3 DEF Inv, SuspendedInCall
<1> QED
  BY <1>2, <1>4, <1>5, <1>6, <1>7 DEF Inv

\* Every step of Next keeps the ownership invariant.
LEMMA OwnershipStep ==
    ASSUME Inv, [Next]_vars
    PROVE  Inv'
<1>1. ASSUME NEW t \in Threads, NEW m \in Mutexes, rt_mutex_take(t, m) PROVE Inv'
  BY <1>1, TakeAgainInv, TakeFreeInv, RefusalInv, TakeWaitInv DEF rt_mutex_take
<1>2. ASSUME NEW t \in Threads, NEW m \in Mutexes, rt_mutex_release(t, m) PROVE Inv'
  BY <1>2, RefusalInv, ReleaseInnerInv, ReleaseHandOverInv, ReleaseFreeInv DEF rt_mutex_release
<1>3. ASSUME NEW t \in Threads, TimerExpires(t) \/ TakeReturns(t) PROVE Inv'
  BY <1>3, TimerExpiresInv, RefusalInv
<1>4. CASE UNCHANGED vars
  BY <1>4 DEF Inv, TypeOK, FreeOrOwned, WaitersListed, WokenOwner, SuspendedInCall,
              OwnerHasPriority, Owns, vars, mutexVars, threadVars
<1> QED
  BY <1>1, <1>2, <1>3, <1>4 DEF Next

\* Free mutexes that nobody waits for satisfy the ownership invariant.
LEMMA OwnershipInit == Init => Inv
<1> SUFFICES ASSUME Init PROVE Inv
  OBVIOUS
<1>1. TypeOK
  BY HoldAssumption, MutexPriorityAssumption DEF Init, TypeOK
<1>2. FreeOrOwned /\ OwnerHasPriority
  BY DEF Init, FreeOrOwned, OwnerHasPriority
<1>3. WaitersListed
  BY DEF Init, WaitersListed
<1>4. WokenOwner /\ SuspendedInCall
  BY DEF Init, WokenOwner, SuspendedInCall
<1> QED
  BY <1>1, <1>2, <1>3, <1>4 DEF Inv

\* The ownership invariant holds in every reachable state.
LEMMA OwnershipInvariant == Spec => []Inv
BY OwnershipInit, OwnershipStep, PTL DEF Spec

\* rt_mutex_take and rt_mutex_release keep the types; in particular hold does
\* not pass RT_MUTEX_HOLD_MAX and a priority is never the 0xFF of a free mutex.
THEOREM MutexTypeCorrect == Spec => []TypeOK
<1>1. Inv => TypeOK
  BY DEF Inv
<1> QED
  BY <1>1, OwnershipInvariant, PTL

\* value, owner and hold agree, and a free mutex has no waiter, after every
\* sequence of takes, releases, hand-overs and timeouts.
THEOREM MutexFreeOrOwned == Spec => []FreeOrOwned
<1>1. Inv => FreeOrOwned
  BY DEF Inv
<1> QED
  BY <1>1, OwnershipInvariant, PTL

\* A thread is suspended exactly when it stands once in the list of the mutex
\* it asked for, whatever races between a timeout and a hand-over.
THEOREM MutexWaitersListed == Spec => []WaitersListed
<1>1. Inv => WaitersListed
  BY DEF Inv
<1> QED
  BY <1>1, OwnershipInvariant, PTL

\* A thread that wakes up in rt_mutex_take finds RT_EOK exactly when the mutex
\* was handed to it.
THEOREM MutexWokenOwner == Spec => []WokenOwner
<1>1. Inv => WokenOwner
  BY DEF Inv
<1> QED
  BY <1>1, OwnershipInvariant, PTL

-----------------------------------------------------------------------------
(* Priorities, for threads that hold one mutex at a time.                  *)

\* No thread owns two mutexes.
OneMutexEach ==
    \A m, n \in Mutexes : owner[m] # None /\ owner[m] = owner[n] => m = n

\* A thread that waits owns nothing.
WaitersOwnNothing ==
    \A t \in Threads : stat[t] = "suspend" => \A m \in Mutexes : ~Owns(t, m)

\* The priority to go back to is the owner's own.
BackToOwn ==
    \A m \in Mutexes : owner[m] # None => original_priority[m] = init_priority[owner[m]]

\* The lists of RT_IPC_FLAG_PRIO are sorted.
WaitersSorted ==
    \A m \in Mutexes : Flag[m] = "PRIO" => SortedBy(waitQ[m], current_priority)

PrioInv ==
    /\ OneMutexEach /\ WaitersOwnNothing /\ BackToOwn /\ OwnPriority
    /\ WaitersSorted /\ Inheritance

\* Inheritance in the words of ListLemmas.
LEMMA InheritanceListed ==
    Inheritance <=>
        \A m \in Mutexes : Flag[m] = "PRIO" =>
            \A u : Listed(waitQ[m], u) => current_priority[owner[m]] <= current_priority[u]
BY DEF Inheritance, Listed

\* A change of priorities that leaves the members of a list alone leaves it
\* sorted.
LEMMA SortedKept ==
    ASSUME NEW q, NEW f, NEW g, SortedBy(q, f), \A u : Listed(q, u) => g[u] = f[u]
    PROVE  SortedBy(q, g)
BY DEF SortedBy, Listed

\* Those who wait: threads that own nothing, run at their own priority, and
\* wait for somebody.
LEMMA WaiterFacts ==
    ASSUME Inv, PrioInv, NEW m \in Mutexes, NEW u, Listed(waitQ[m], u)
    PROVE  /\ u \in Threads /\ stat[u] = "suspend" /\ op[u] = m
           /\ \A n \in Mutexes : owner[n] # u
           /\ current_priority[u] = init_priority[u]
           /\ owner[m] \in Threads
<1>1. waitQ[m] \in Seq(Threads)
  BY DEF Inv, TypeOK
<1>2. u \in Threads
  BY <1>1, LenProperties, ElementOfSeq DEF Listed
<1>3. stat[u] = "suspend" /\ op[u] = m
  BY <1>2, ListedThreads DEF Inv
<1>4. \A n \in Mutexes : owner[n] # u
  BY <1>2, <1>3 DEF PrioInv, WaitersOwnNothing, Owns
<1>5. current_priority[u] = init_priority[u]
  BY <1>2, <1>4 DEF PrioInv, OwnPriority, Owns
<1>6. owner[m] \in Threads
  BY DEF Inv, TypeOK, FreeOrOwned, Listed
<1> QED
  BY <1>2, <1>3, <1>4, <1>5, <1>6

\* A step that leaves owners, lists and priorities alone, and suspends nobody.
LEMMA PrioUnchanged ==
    ASSUME PrioInv, UNCHANGED <<owner, original_priority, waitQ, current_priority, stat>>
    PROVE  PrioInv'
BY DEF PrioInv, OneMutexEach, WaitersOwnNothing, BackToOwn, OwnPriority, WaitersSorted,
       Inheritance, Owns, SortedBy

\* A thread that owns nothing takes a free mutex.
LEMMA TakeFreePrio ==
    ASSUME ~Nested, Inv, PrioInv, NEW t \in Threads, NEW m \in Mutexes, TakeFree(t, m)
    PROVE  PrioInv'
<1> USE DEF TakeFree, Running, Owns
<1>1. owner[m] = None /\ waitQ[m] = <<>>
  BY DEF Inv, TypeOK, FreeOrOwned
<1>2. /\ \A n \in Mutexes : owner[n] # t
      /\ current_priority[t] = init_priority[t]
  BY DEF PrioInv, MayTake, OwnPriority
<1>3. /\ owner'[m] = t /\ original_priority'[m] = init_priority[t]
      /\ \A n \in Mutexes \ {m} : owner'[n] = owner[n] /\ original_priority'[n] = original_priority[n]
  BY <1>2 DEF Inv, TypeOK
<1>4. OneMutexEach' /\ WaitersOwnNothing' /\ BackToOwn'
  BY <1>2, <1>3 DEF PrioInv, OneMutexEach, WaitersOwnNothing, BackToOwn
<1>5. OwnPriority'
  <2>1. ASSUME NEW u \in Threads, \A n \in Mutexes : owner'[n] # u
        PROVE  \A n \in Mutexes : owner[n] # u
    BY <1>1, <1>3, <2>1, MutexNoneAssumption
  <2> QED
    BY <2>1 DEF PrioInv, OwnPriority
<1>6. WaitersSorted'
  BY DEF PrioInv, WaitersSorted, SortedBy
<1>7. Inheritance'
  BY <1>1, <1>3 DEF PrioInv, Inheritance
<1> QED
  BY <1>4, <1>5, <1>6, <1>7 DEF PrioInv

\* A thread that owns nothing waits, and the owner inherits its urgency.
LEMMA TakeWaitPrio ==
    ASSUME ~Nested, Inv, PrioInv, NEW t \in Threads, NEW m \in Mutexes, TakeWait(t, m)
    PROVE  PrioInv'
<1> USE DEF TakeWait, Running, Owns
<1> DEFINE o == owner[m]
<1>1. o \in Threads \ {t} /\ \A n \in Mutexes : owner[n] # t
  BY MutexNoneAssumption DEF Inv, TypeOK, FreeOrOwned, PrioInv, MayTake
<1>2. current_priority \in [Threads -> Int]
  BY MutexPriorityAssumption DEF Inv, TypeOK
<1>3. /\ current_priority'[o] <= current_priority[o]
      /\ current_priority'[o] <= current_priority[t]
      /\ current_priority'[o] \in Int
      /\ \A u \in Threads \ {o} : current_priority'[u] = current_priority[u]
  BY <1>1, <1>2 DEF Inherit, ChangePriority
<1>4. PICK i \in 1 .. Len(waitQ[m]) + 1 :
        WaitPlace(m, t, i) /\ waitQ' = [waitQ EXCEPT ![m] = InsertAt(@, i, t)]
  OBVIOUS
<1>5. waitQ \in [Mutexes -> Seq(Threads)] /\ waitQ[m] \in Seq(Threads)
  BY DEF Inv, TypeOK
<1>6. waitQ'[m] = InsertAt(waitQ[m], i, t) /\ \A n \in Mutexes \ {m} : waitQ'[n] = waitQ[n]
  BY <1>4, <1>5
<1>7. \A u : Listed(waitQ'[m], u) <=> u = t \/ Listed(waitQ[m], u)
  BY <1>5, <1>6, InsertListed
<1>8. ASSUME NEW n \in Mutexes, NEW u, Listed(waitQ'[n], u)
      PROVE  /\ u \in Threads \ {o} /\ current_priority'[u] = current_priority[u]
             /\ u = t \/ Listed(waitQ[n], u)
  <2>1. u = t \/ Listed(waitQ[n], u)
    BY <1>6, <1>7, <1>8
  <2>2. u \in Threads \ {o}
    BY <1>1, <2>1, WaiterFacts
  <2> QED
    BY <1>3, <2>1, <2>2
<1>9. OneMutexEach' /\ BackToOwn'
  BY DEF PrioInv, OneMutexEach, BackToOwn
<1>10. WaitersOwnNothing'
  BY <1>1 DEF Inv, TypeOK, PrioInv, WaitersOwnNothing
<1>11. OwnPriority'
  BY <1>1, <1>3 DEF PrioInv, OwnPriority
<1>12. WaitersSorted'
  <2> SUFFICES ASSUME NEW n \in Mutexes, Flag[n] = "PRIO"
               PROVE  SortedBy(waitQ'[n], current_priority')
    BY DEF WaitersSorted
  <2>1. SortedBy(waitQ[n], current_priority)
    BY DEF PrioInv, WaitersSorted
  <2>2. SortedBy(waitQ'[n], current_priority)
    <3>1. CASE n # m
      BY <1>6, <2>1, <3>1
    <3>2. CASE n = m
      <4>1. Place(waitQ[m], i, t, current_priority)
        BY <1>4, <3>2 DEF WaitPlace, Place
      <4> QED
        BY <1>2, <1>5, <1>6, <2>1, <3>2, <4>1, InsertSorted
    <3> QED
      BY <3>1, <3>2
  <2> QED
    BY <1>8, <2>2, SortedKept
<1>13. Inheritance'
  <2>1. ASSUME NEW n \in Mutexes, Flag[n] = "PRIO", NEW u, Listed(waitQ'[n], u)
        PROVE  current_priority'[owner[n]] <= current_priority'[u]
    <3>1. CASE n = m
      <4>1. u = t \/ (u \in Threads /\ current_priority[o] <= current_priority[u])
        BY <1>8, <2>1, <3>1, InheritanceListed, WaiterFacts DEF PrioInv
      <4> QED
        BY <1>1, <1>2, <1>3, <1>8, <2>1, <3>1, <4>1
    <3>2. CASE n # m
      <4>1. Listed(waitQ[n], u)
        BY <1>6, <2>1, <3>2
      <4>2. owner[n] \in Threads \ {o}
        BY <1>1, <3>2, <4>1, WaiterFacts, MutexNoneAssumption DEF PrioInv, OneMutexEach
      <4>3. current_priority[owner[n]] <= current_priority[u]
        BY <2>1, <4>1, InheritanceListed DEF PrioInv
      <4> QED
        BY <1>3, <1>8, <2>1, <4>2, <4>3
    <3> QED
      BY <3>1, <3>2
  <2> QED
    BY <2>1 DEF Inheritance, Listed
<1> QED
  BY <1>9, <1>10, <1>11, <1>12, <1>13 DEF PrioInv

\* A timeout takes a thread from a list.
LEMMA TimerExpiresPrio ==
    ASSUME Inv, PrioInv, NEW t \in Threads, TimerExpires(t)
    PROVE  PrioInv'
<1> USE DEF TimerExpires, Owns
<1> DEFINE m == op[t]
<1>1. m \in Mutexes /\ waitQ \in [Mutexes -> Seq(Threads)] /\ waitQ[m] \in Seq(Threads)
  BY DEF Inv, TypeOK, SuspendedInCall
<1>2. NoDouble(waitQ[m]) /\ Listed(waitQ[m], t)
  BY <1>1, ListedThreads DEF Inv
<1>3. waitQ'[m] = RemoveFrom(waitQ[m], t) /\ \A n \in Mutexes \ {m} : waitQ'[n] = waitQ[n]
  BY <1>1
<1>4. /\ \A u : Listed(waitQ'[m], u) => Listed(waitQ[m], u)
      /\ SortedBy(waitQ[m], current_priority) => SortedBy(waitQ'[m], current_priority)
  BY <1>1, <1>2, <1>3, RemoveFromList
<1>5. OneMutexEach' /\ BackToOwn' /\ OwnPriority'
  BY DEF PrioInv, OneMutexEach, BackToOwn, OwnPriority
<1>6. WaitersOwnNothing'
  BY DEF Inv, TypeOK, PrioInv, WaitersOwnNothing
<1>7. WaitersSorted'
  <2>1. ASSUME NEW n \in Mutexes, Flag[n] = "PRIO"
        PROVE  SortedBy(waitQ'[n], current_priority)
    BY <1>3, <1>4, <2>1 DEF PrioInv, WaitersSorted
  <2> QED
    BY <2>1 DEF WaitersSorted
<1>8. Inheritance'
  <2>1. ASSUME NEW n \in Mutexes, Flag[n] = "PRIO", NEW u, Listed(waitQ'[n], u)
        PROVE  current_priority[owner[n]] <= current_priority[u]
    <3>1. Listed(waitQ[n], u)
      BY <1>3, <1>4, <2>1
    <3> QED
      BY <2>1, <3>1, InheritanceListed DEF PrioInv
  <2> QED
    BY <2>1 DEF Inheritance, Listed
<1> QED
  BY <1>5, <1>6, <1>7, <1>8 DEF PrioInv

\* The last release: the releasing thread falls back to its own priority, and
\* the first waiter, the most urgent of a sorted list, is the new owner.
LEMMA ReleaseHandOverPrio ==
    ASSUME Inv, PrioInv, NEW t \in Threads, NEW m \in Mutexes, ReleaseHandOver(t, m)
    PROVE  PrioInv'
<1> USE DEF ReleaseHandOver, Running, Owns
<1> DEFINE next == Head(waitQ[m])
<1>1. waitQ \in [Mutexes -> Seq(Threads)] /\ waitQ[m] \in Seq(Threads) /\ waitQ[m] # <<>>
  BY DEF Inv, TypeOK
<1>2. NoDouble(waitQ[m])
  BY ListedThreads DEF Inv
<1>3. waitQ'[m] = Tail(waitQ[m]) /\ \A n \in Mutexes \ {m} : waitQ'[n] = waitQ[n]
  BY <1>1
<1>4. /\ next \in Threads /\ Listed(waitQ[m], next)
      /\ \A u : Listed(waitQ'[m], u) <=> u # next /\ Listed(waitQ[m], u)
      /\ \A f : SortedBy(waitQ[m], f) =>
            /\ SortedBy(waitQ'[m], f)
            /\ \A u : Listed(waitQ'[m], u) => f[next] <= f[u]
  BY <1>1, <1>2, <1>3, TailListed
<1>5. /\ \A n \in Mutexes : owner[n] # next
      /\ current_priority[next] = init_priority[next]
      /\ next # t
  BY <1>4, WaiterFacts
<1> HIDE DEF next
<1>6. /\ owner' = [owner EXCEPT ![m] = next]
      /\ original_priority' = [original_priority EXCEPT ![m] = current_priority[next]]
      /\ stat' = [stat EXCEPT ![next] = "ready"]
  BY DEF next
<1>7. /\ owner'[m] = next /\ original_priority'[m] = init_priority[next]
      /\ \A n \in Mutexes \ {m} : owner'[n] = owner[n] /\ original_priority'[n] = original_priority[n]
  BY <1>5, <1>6 DEF Inv, TypeOK
<1>8. /\ current_priority'[t] = init_priority[t]
      /\ \A u \in Threads \ {t} : current_priority'[u] = current_priority[u]
  BY MutexNoneAssumption DEF Inv, TypeOK, PrioInv, BackToOwn, Restore, ChangePriority
<1>9. \A n \in Mutexes : owner'[n] # t
  BY <1>5, <1>7, MutexNoneAssumption DEF PrioInv, OneMutexEach
<1>10. ASSUME NEW n \in Mutexes, NEW u, Listed(waitQ'[n], u)
       PROVE  Listed(waitQ[n], u) /\ u \in Threads \ {t} /\ current_priority'[u] = current_priority[u]
  <2>1. Listed(waitQ[n], u)
    BY <1>3, <1>4, <1>10
  <2>2. u \in Threads \ {t}
    BY <2>1, WaiterFacts
  <2> QED
    BY <1>8, <2>1, <2>2
<1>11. OneMutexEach' /\ BackToOwn'
  BY <1>5, <1>7 DEF PrioInv, OneMutexEach, BackToOwn
<1>12. WaitersOwnNothing'
  <2>1. ASSUME NEW u \in Threads, stat'[u] = "suspend" PROVE stat[u] = "suspend" /\ u # next
    BY <1>4, <1>6, <2>1 DEF Inv, TypeOK
  <2> QED
    BY <1>7, <2>1 DEF PrioInv, WaitersOwnNothing
<1>13. OwnPriority'
  <2>1. ASSUME NEW u \in Threads \ {t}, \A n \in Mutexes : owner'[n] # u
        PROVE  \A n \in Mutexes : owner[n] # u
    BY <1>7, <2>1
  <2> QED
    BY <1>8, <2>1 DEF PrioInv, OwnPriority
<1>14. WaitersSorted'
  <2> SUFFICES ASSUME NEW n \in Mutexes, Flag[n] = "PRIO"
               PROVE  SortedBy(waitQ'[n], current_priority')
    BY DEF WaitersSorted
  <2>1. SortedBy(waitQ'[n], current_priority)
    BY <1>3, <1>4 DEF PrioInv, WaitersSorted
  <2> QED
    BY <1>10, <2>1, SortedKept
<1>15. Inheritance'
  <2>1. ASSUME NEW n \in Mutexes, Flag[n] = "PRIO", NEW u, Listed(waitQ'[n], u)
        PROVE  current_priority'[owner'[n]] <= current_priority'[u]
    <3>1. CASE n = m
      <4>1. SortedBy(waitQ[m], current_priority)
        BY <2>1, <3>1 DEF PrioInv, WaitersSorted
      <4>2. current_priority[next] <= current_priority[u]
        BY <1>4, <2>1, <3>1, <4>1
      <4> QED
        BY <1>4, <1>5, <1>7, <1>8, <1>10, <2>1, <3>1, <4>2
    <3>2. CASE n # m
      <4>1. owner[n] \in Threads \ {t} /\ current_priority[owner[n]] <= current_priority[u]
        BY <1>7, <1>9, <1>10, <2>1, <3>2, WaiterFacts, InheritanceListed DEF PrioInv
      <4> QED
        BY <1>7, <1>8, <1>10, <2>1, <3>2, <4>1
    <3> QED
      BY <3>1, <3>2
  <2> QED
    BY <2>1 DEF Inheritance, Listed
<1> QED
  BY <1>11, <1>12, <1>13, <1>14, <1>15 DEF PrioInv

\* The last release of a mutex nobody waits for.
LEMMA ReleaseFreePrio ==
    ASSUME Inv, PrioInv, NEW t \in Threads, NEW m \in Mutexes, ReleaseFree(t, m)
    PROVE  PrioInv'
<1> USE DEF ReleaseFree, Running, Owns
<1>1. /\ owner'[m] = None
      /\ \A n \in Mutexes \ {m} : owner'[n] = owner[n] /\ original_priority'[n] = original_priority[n]
  BY DEF Inv, TypeOK
<1>2. /\ current_priority'[t] = init_priority[t]
      /\ \A u \in Threads \ {t} : current_priority'[u] = current_priority[u]
  BY MutexNoneAssumption DEF Inv, TypeOK, PrioInv, BackToOwn, Restore, ChangePriority
<1>3. \A n \in Mutexes : owner'[n] # t
  BY <1>1, MutexNoneAssumption DEF PrioInv, OneMutexEach
<1>4. ASSUME NEW n \in Mutexes, NEW u, Listed(waitQ[n], u)
      PROVE  u \in Threads \ {t} /\ n # m
  <2>1. u \in Threads \ {t}
    BY <1>4, WaiterFacts
  <2> QED
    BY <1>4, <2>1 DEF Listed
<1>5. OneMutexEach' /\ BackToOwn' /\ WaitersOwnNothing'
  BY <1>1, MutexNoneAssumption DEF PrioInv, OneMutexEach, BackToOwn, WaitersOwnNothing
<1>6. OwnPriority'
  BY <1>1, <1>2 DEF PrioInv, OwnPriority
<1>7. WaitersSorted'
  <2> SUFFICES ASSUME NEW n \in Mutexes, Flag[n] = "PRIO"
               PROVE  SortedBy(waitQ[n], current_priority')
    BY DEF WaitersSorted
  <2>1. SortedBy(waitQ[n], current_priority)
    BY DEF PrioInv, WaitersSorted
  <2> QED
    BY <1>2, <1>4, <2>1, SortedKept
<1>8. Inheritance'
  <2>1. ASSUME NEW n \in Mutexes, Flag[n] = "PRIO", NEW u, Listed(waitQ[n], u)
        PROVE  current_priority'[owner'[n]] <= current_priority'[u]
    <3>1. owner[n] \in Threads /\ current_priority[owner[n]] <= current_priority[u]
      BY <2>1, WaiterFacts, InheritanceListed DEF PrioInv
    <3>2. owner'[n] = owner[n] /\ owner[n] # t
      BY <1>1, <1>3, <1>4, <2>1
    <3> QED
      BY <1>2, <1>4, <2>1, <3>1, <3>2
  <2> QED
    BY <2>1 DEF Inheritance, Listed
<1> QED
  BY <1>5, <1>6, <1>7, <1>8 DEF PrioInv

\* Without nesting every step keeps the priorities right.
LEMMA PriorityStep ==
    ASSUME ~Nested, Inv, PrioInv, [Next]_vars
    PROVE  PrioInv'
<1>1. ASSUME NEW t \in Threads, NEW m \in Mutexes, rt_mutex_take(t, m) PROVE PrioInv'
  <2>1. CASE TakeAgain(t, m) \/ TakeRefused(t, m)
    BY <2>1, PrioUnchanged DEF TakeAgain, TakeRefused, mutexVars
  <2> QED
    BY <1>1, <2>1, TakeFreePrio, TakeWaitPrio DEF rt_mutex_take
<1>2. ASSUME NEW t \in Threads, NEW m \in Mutexes, rt_mutex_release(t, m) PROVE PrioInv'
  <2>1. CASE ReleaseForeign(t, m) \/ ReleaseInner(t, m)
    BY <2>1, PrioUnchanged DEF ReleaseForeign, ReleaseInner, mutexVars, threadVars
  <2> QED
    BY <1>2, <2>1, ReleaseHandOverPrio, ReleaseFreePrio DEF rt_mutex_release
<1>3. ASSUME NEW t \in Threads, TimerExpires(t) PROVE PrioInv'
  BY <1>3, TimerExpiresPrio
<1>4. ASSUME NEW t \in Threads, TakeReturns(t) PROVE PrioInv'
  BY <1>4, PrioUnchanged DEF TakeReturns, mutexVars
<1>5. CASE UNCHANGED vars
  BY <1>5, PrioUnchanged DEF vars, mutexVars, threadVars
<1> QED
  BY <1>1, <1>2, <1>3, <1>4, <1>5 DEF Next

\* Free mutexes and threads at their own priorities.
LEMMA PriorityInit == Init => PrioInv
<1> SUFFICES ASSUME Init PROVE PrioInv
  OBVIOUS
<1>1. OneMutexEach /\ BackToOwn /\ OwnPriority
  BY DEF Init, OneMutexEach, BackToOwn, OwnPriority
<1>2. WaitersOwnNothing
  BY DEF Init, WaitersOwnNothing
<1>3. WaitersSorted /\ Inheritance
  BY DEF Init, WaitersSorted, Inheritance, SortedBy
<1> QED
  BY <1>1, <1>2, <1>3 DEF PrioInv

\* Without nesting the priorities are right in every reachable state.
LEMMA PriorityInvariant ==
    ASSUME ~Nested
    PROVE  Spec => []PrioInv
<1>1. Inv /\ PrioInv /\ [Next]_vars => PrioInv'
  BY PriorityStep
<1> QED
  BY <1>1, PriorityInit, OwnershipInvariant, PTL DEF Spec

\* Priority inheritance of rt_mutex_take, for threads that hold one mutex at
\* a time: the owner of a mutex with a sorted list is at least as urgent as
\* everybody who waits for it, after every hand-over and every timeout.
THEOREM MutexInheritance ==
    ASSUME ~Nested
    PROVE  Spec => []Inheritance
<1>1. PrioInv => Inheritance
  BY DEF PrioInv
<1> QED
  BY <1>1, PriorityInvariant, PTL

\* rt_mutex_release gives an inherited priority back, for threads that hold
\* one mutex at a time.
THEOREM MutexOwnPriority ==
    ASSUME ~Nested
    PROVE  Spec => []OwnPriority
<1>1. PrioInv => OwnPriority
  BY DEF PrioInv
<1> QED
  BY <1>1, PriorityInvariant, PTL
=============================================================================
