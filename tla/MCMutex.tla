------------------------------- MODULE MCMutex -------------------------------
(* Instances of Mutex for TLC.                                              *)
EXTENDS Mutex

CONSTANTS t1, t2, t3, a, b

\* Three priorities, so that a hand-over can go to the wrong waiter.
MCPriority == [t \in Threads |-> CASE t = t1 -> 1 [] t = t2 -> 2 [] t = t3 -> 3]

\* One mutex of each kind.
MCFlag == [m \in Mutexes |-> IF m = a THEN "PRIO" ELSE "FIFO"]

\* Polling, a finite wait, a wait without end.
MCTimeouts == {0, 1, -1}
==============================================================================
