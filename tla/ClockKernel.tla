----------------------------- MODULE ClockKernel -----------------------------
(***************************************************************************)
(* What the application threads share: the preemptive scheduler of         *)
(* RT-Thread, the four mailboxes to the OLED thread and the records the    *)
(* mails point to (applications/main.h, main.c).                           *)
(*                                                                         *)
(* A mailbox is the bounded FIFO of module MailboxFifo, which module       *)
(* Mailbox shows rt_mb_send_wait and rt_mb_recv to implement.              *)
(***************************************************************************)
EXTENDS Integers, Sequences

CONSTANTS
    MbSize,     \* mails a mailbox holds: sizeof(mb_pool_oled_*) / 4, that is 32
    MaxTime,    \* the last second the clock counts to
    MaxBody     \* largest Content-Length of a weather answer

ASSUME MbSizeAssumption == MbSize \in Nat \ {0}
ASSUME TimeAssumption == MaxTime \in Nat
ASSUME BodyAssumption == MaxBody \in Nat

VARIABLES
    pc,         \* where each thread stands
    suspended,  \* threads in rt_thread_mdelay or waiting for a device
    mbType,     \* rt_object_get_type of each mailbox
    mbq,        \* the mails in each mailbox
    timeMes,    \* the struct mesg_time of the time thread
    dhtMes,     \* the struct mesg_dht of the DHT11 thread
    weaMes      \* the struct mesg_weather of each weather parse

kernelVars == <<pc, suspended, mbType, mbq, timeMes, dhtMes, weaMes>>

Threads == {"main", "time", "dht", "mpu", "oled", "wea"}
Boxes == {"weather", "time", "mpu", "dht"}

\* Mutants: main less urgent than the weather thread; the time thread less
\* urgent than the OLED thread.
PriorityMainLast ==
    [main |-> 31, time |-> 22, dht |-> 24, mpu |-> 27, oled |-> 28, wea |-> 30]
PriorityTimeLate ==
    [main |-> 10, time |-> 29, dht |-> 24, mpu |-> 27, oled |-> 28, wea |-> 30]

\* The priorities given to rt_thread_init, and RT_MAIN_THREAD_PRIORITY.
Priority ==
    [main |-> 10, time |-> 22, dht |-> 24, mpu |-> 27, oled |-> 28, wea |-> 30]

\* The mailbox the next step of t works on.
SendBox == [time |-> "time", dht |-> "dht", mpu |-> "mpu", wea |-> "weather"]
OledBox == [weaRecv |-> "weather", weaDetach |-> "weather", poll |-> "mpu",
            timeRecv |-> "time", dhtRecv |-> "dht"]

AtMailbox(t) ==
    \/ t \in DOMAIN SendBox /\ pc[t] = "send"
    \/ t = "oled" /\ pc[t] \in DOMAIN OledBox

BoxOf(t) == IF t = "oled" THEN OledBox[pc[t]] ELSE SendBox[t]

\* Mutant: the page mailbox is waited for as well.
WaitsForAnyMail(t) ==
    /\ t = "oled"
    /\ pc[t] \in {"weaRecv", "timeRecv", "dhtRecv", "poll"}
    /\ mbType[BoxOf(t)] = "MailBox"
    /\ mbq[BoxOf(t)] = <<>>

\* A receive with RT_WAITING_FOREVER on an empty mailbox.
WaitsForMail(t) ==
    /\ t = "oled"
    /\ pc[t] \in {"weaRecv", "timeRecv", "dhtRecv"}
    /\ mbType[BoxOf(t)] = "MailBox"
    /\ mbq[BoxOf(t)] = <<>>

\* A thread the scheduler may pick.  One stopped by a failed assertion spins
\* in rt_assert_handler and stays ready.
Ready(t) ==
    /\ pc[t] \notin {"new", "exit"}
    /\ t \notin suspended
    /\ ~WaitsForMail(t)

\* rt_schedule: the most urgent ready thread runs.
Runs(t) == Ready(t) /\ \A u \in Threads : Ready(u) => Priority[t] <= Priority[u]

At(t, point) == Runs(t) /\ pc[t] = point

Goto(t, point) == pc' = [pc EXCEPT ![t] = point]

\* The thread gives up the processor and goes on at point.
SleepThen(t, point) == Goto(t, point) /\ suspended' = suspended \cup {t}

\* rt_thread_timeout, or the device has answered.
Wake(t) ==
    /\ t \in suspended
    /\ suspended' = suspended \ {t}
    /\ UNCHANGED <<pc, mbType, mbq, timeMes, dhtMes, weaMes>>

\* RT_ASSERT(rt_object_get_type(&mb->parent.parent) == RT_Object_Class_MailBox)
AssertFails(t) ==
    /\ Runs(t)
    /\ AtMailbox(t)
    /\ mbType[BoxOf(t)] # "MailBox"
    /\ Goto(t, "halt")
    /\ UNCHANGED <<suspended, mbType, mbq, timeMes, dhtMes, weaMes>>

\* rt_mb_send: the mail is dropped when the mailbox is full; no caller looks
\* at the result.
FullLate(b) == Len(mbq[b]) > MbSize     \* Mutant: off by one.

Full(b) == Len(mbq[b]) = MbSize

Send(b, mail) ==
    /\ mbType[b] = "MailBox"
    /\ mbq' = IF Full(b) THEN mbq ELSE [mbq EXCEPT ![b] = Append(@, mail)]

\* Mutant: the newest mail comes first.
ReceiveNewest(b, mail) ==
    /\ mbType[b] = "MailBox"
    /\ mbq[b] # <<>>
    /\ mail = mbq[b][Len(mbq[b])]
    /\ mbq' = [mbq EXCEPT ![b] = SubSeq(@, 1, Len(@) - 1)]

\* rt_mb_recv that returns RT_EOK.
Receive(b, mail) ==
    /\ mbType[b] = "MailBox"
    /\ mbq[b] # <<>>
    /\ mail = Head(mbq[b])
    /\ mbq' = [mbq EXCEPT ![b] = Tail(@)]

Junk == -1      \* what rt_malloc leaves in a record
==============================================================================
