------------------------------ MODULE MCMailbox ------------------------------
(* Instances of Mailbox for TLC.                                            *)
EXTENDS Mailbox

CONSTANTS t1, t2, t3, m1, m2

\* t1 and t2 share a priority, t3 is more urgent than both.
MCPriority == [t \in Threads |-> IF t = t3 THEN 1 ELSE 2]

\* Two mails and two slots make the offsets wrap; a timeout of two ticks can be
\* cut in half by an early wake-up, one of a single tick ends inside a detach.
MCTimeouts == [t \in Threads |-> IF t = t3 THEN {0, 2}
                                 ELSE IF t = t2 THEN {1}
                                 ELSE {WAITING_FOREVER}]

\* One thread waits with a timeout or without, the others, who take what it was
\* woken for, without.
MCWaits == [t \in Threads |-> IF t = t3 THEN {WAITING_FOREVER, 2}
                              ELSE {WAITING_FOREVER}]

\* The mails are interchangeable.
MCSymmetry == Permutations({m1, m2})
==============================================================================
