------------------------------ MODULE ClockSync -----------------------------
(***************************************************************************)
(* The real-time clock and the two threads that set it from the network.   *)
(*                                                                         *)
(*   - soft_rtc.c keeps the clock as a time and the tick it was set at;    *)
(*     the tick is a counter of TickWidth bits that wraps (32 bits in the  *)
(*     firmware, 49.7 days);                                               *)
(*   - the time thread (my_time.c) asks an NTP server once and sets the    *)
(*     clock to the answer, whatever it is;                                *)
(*   - the synchronisation thread (rtc.c, ntp.c) asks again and again and  *)
(*     sets the time of day and then the date.                             *)
(*                                                                         *)
(* Both ask with ntp_get_time, which keeps the packet it sends and the     *)
(* packet it receives in one static buffer.                                *)
(*                                                                         *)
(* The time thread is the more urgent one: the synchronisation thread runs *)
(* only while it is blocked.  An action of the synchronisation thread makes*)
(* one access to what they share; one of the time thread reaches to the    *)
(* next blocking call, except that ticks may pass between the receipt of   *)
(* an answer and its conversion (MayRun).                                  *)
(*                                                                         *)
(* A day is DayLength seconds.  Calendar.tla shows that set_time keeps the *)
(* day and set_date the time of day of a time that is not negative; for    *)
(* negative times the C operators / and % round towards zero.              *)
(***************************************************************************)
EXTENDS Integers

CONSTANTS
    TicksPerSecond,  \* RT_TICK_PER_SECOND
    TickWidth,       \* bits of rt_tick_t
    DayLength,       \* seconds of a day
    Zone,            \* NETUTILS_NTP_TIMEZONE * 3600
    NtpTimeout,      \* NTP_GET_TIMEOUT, in seconds
    FirstDelay,      \* RTC_NTP_FIRST_SYNC_DELAY, in seconds
    Period,          \* RTC_NTP_SYNC_PERIOD, in seconds
    DefaultTime,     \* SOFT_RTC_TIME_DEFAULT
    BootTimes,       \* UTC seconds at which the board may be switched on
    BootTicks,       \* ticks at which the clock may be initialised
    Garbage,         \* what a packet that is no answer may be converted to
    Horizon          \* bound: ticks until the model stops

ASSUME UnitsAssumption ==
    /\ TicksPerSecond \in Nat \ {0}
    /\ TickWidth \in Nat \ {0}
    /\ 2 ^ TickWidth \in Nat \ {0}
    /\ DayLength \in Nat \ {0}

ASSUME TimesAssumption ==
    /\ {Zone, NtpTimeout, FirstDelay, Period, DefaultTime, Horizon} \subseteq Nat
    /\ BootTimes \subseteq Nat \ {0}
    /\ BootTicks \subseteq Nat
    /\ Garbage \subseteq Int

VARIABLES
    now,        \* ticks since the tick counter started
    bootTime,   \* UTC seconds then
    init_tick,  \* soft_rtc.c: the tick of rt_soft_rtc_init
    init_time,  \* soft_rtc.c: the time the clock showed at init_tick
    packet,     \* ntp.c: the static packet
    pc,         \* thread -> what it does next
    start,      \* thread -> the tick its receive loop started at
    inbox,      \* thread -> the time stamp waiting in its socket, or
                \*           NoAnswer, or Asked while a server is at it
    answer,     \* thread -> what its call of ntp_get_time returned
    wake,       \* the tick the synchronisation thread sleeps until
    tm_new      \* the time set_time or set_date is about to write

\* For the properties only.
VARIABLES
    begun,      \* thread -> the tick it last called ntp_get_time at
    alone,      \* thread -> no other call overlapped its last one
    source,     \* where the time on the clock comes from: its kind, the time
                \* that was to be set, the tick at which it was set, and
                \* whether the date may be a day behind
    halfway     \* the same for a synchronisation under way, and whether it is
                \* torn: the time thread set the clock, or the tick wrapped,
                \* between set_time and set_date, or the clock that set_date
                \* reads stands before 1970

network == <<packet, start, inbox, answer>>
rtc == <<init_tick, init_time>>
ghosts == <<begun, alone, source, halfway>>
vars == <<now, bootTime, rtc, network, pc, wake, tm_new, ghosts>>

NoAnswer == 0
Asked == -1

Threads == {"time", "sync"}

Other(t) == IF t = "time" THEN "sync" ELSE "time"

-----------------------------------------------------------------------------
(***************************************************************************)
(* Time.                                                                   *)
(***************************************************************************)
TickMod == 2 ^ TickWidth

\* rt_tick_get() - from, in unsigned arithmetic.
TicksSince(from) == (now - from) % TickMod

\* How often the tick came back to init_tick (for the properties).
Laps(n) == (n - init_tick) \div TickMod

Seconds(n) == n \div TicksPerSecond

\* The true time, and the local time the clock is to show.
Utc == bootTime + Seconds(now)
Local == Utc + Zone

\* Mutant: the elapsed time is not taken into account.
SetValue_NoElapsed(t) == t

\* RT_DEVICE_CTRL_RTC_SET_TIME: what becomes of init_time.
SetValue(t) == t - Seconds(TicksSince(init_tick))

\* RT_DEVICE_CTRL_RTC_GET_TIME.
Shown == init_time + Seconds(TicksSince(init_tick))

\* C division and remainder.
TruncDiv(a, b) == IF a >= 0 THEN a \div b ELSE -((-a) \div b)
DayOf(t) == TruncDiv(t, DayLength)
TimeOfDay(t) == t - DayOf(t) * DayLength

-----------------------------------------------------------------------------
(***************************************************************************)
(* The packet: a request, or an answer whose time stamp is in network      *)
(* order or, after ntp_get_time converted it in place, in host order.      *)
(***************************************************************************)
Request == [kind |-> "request", stamp |-> 0]
NetPacket(stamp) == [kind |-> "net", stamp |-> stamp]
HostPacket == [kind |-> "host", stamp |-> 0]

\* The time a packet converted by ntohl stands for.  The stamp of a request is
\* zero, that of a packet converted before is in host order: swapped again, and
\* less NTP_TIMESTAMP_DELTA, it may be any number, also a negative one.
Converted(p) == IF p.kind = "net" THEN {p.stamp} ELSE Garbage

-----------------------------------------------------------------------------
Source(kind, time, dayLost) ==
    [kind |-> kind, time |-> time, at |-> now, dayLost |-> dayLost]

(***************************************************************************)
(* The initial state: the clock is initialised, the threads are not yet    *)
(* started.                                                                *)
(***************************************************************************)
Init ==
    /\ init_tick \in BootTicks
    /\ now = init_tick
    /\ bootTime \in BootTimes
    /\ init_time = DefaultTime
    /\ packet = Request
    /\ pc = [time |-> "begin", sync |-> "sleep"]
    /\ start = [t \in Threads |-> 0]
    /\ inbox = [t \in Threads |-> NoAnswer]
    /\ answer = [t \in Threads |-> 0]
    /\ wake = now + FirstDelay * TicksPerSecond
    /\ tm_new = 0
    /\ begun = [t \in Threads |-> 0]
    /\ alone = [t \in Threads |-> TRUE]
    /\ source = Source("default", DefaultTime, FALSE)
    /\ halfway = [torn |-> FALSE, dayLost |-> FALSE]

Goto(t, label) == pc' = [pc EXCEPT ![t] = label]

\* What follows the call of ntp_get_time: rt_device_control in the time
\* thread; in the synchronisation thread set_time, or sleep after a failure.
Return(t, time) ==
    /\ answer' = [answer EXCEPT ![t] = time]
    /\ inbox' = [inbox EXCEPT ![t] = NoAnswer]
    /\ start' = [start EXCEPT ![t] = 0]
    /\ IF t = "time" THEN Goto(t, "set") /\ UNCHANGED wake
       ELSE IF time = 0 \/ time + Zone = 0
       THEN Goto(t, "sleep") /\ wake' = now + Period * TicksPerSecond
       ELSE Goto(t, "set_time") /\ UNCHANGED wake

\* The local variables of a call are gone once its result has been used.
Forget(t) ==
    /\ answer' = [answer EXCEPT ![t] = 0]
    /\ begun' = [begun EXCEPT ![t] = 0]
    /\ alone' = [alone EXCEPT ![t] = TRUE]

InCall(t) == pc[t] \in {"send", "sent", "receive", "convert"}

\* The synchronisation thread does not run before the time thread has
\* converted what it received.
MayRun(t) == t = "sync" => pc["time"] # "convert"

-----------------------------------------------------------------------------
(***************************************************************************)
(* ntp_get_time.                                                           *)
(***************************************************************************)

\* Clear the packet and write a request into it, create the socket; without
\* a socket the call returns 0.
NtpBegin(t) ==
    /\ pc[t] = "begin"
    /\ packet' = Request
    /\ \/ /\ Goto(t, "send")
          /\ answer' = [answer EXCEPT ![t] = 0]
          /\ UNCHANGED <<inbox, start, wake>>
       \/ Return(t, 0)
    /\ begun' = [begun EXCEPT ![t] = now]
    /\ alone' = [u \in Threads |->
                   IF u = t THEN ~InCall(Other(t)) ELSE alone[u] /\ ~InCall(u)]
    /\ UNCHANGED <<now, bootTime, rtc, tm_new, source, halfway>>

\* Look up a server, which blocks, and send it the packet; there are up to
\* three.  A server answers only what is a request.
NtpSend(t) ==
    /\ pc[t] \in {"send", "sent"}
    /\ Goto(t, "sent")
    /\ inbox' = [inbox EXCEPT ![t] = IF @ = NoAnswer /\ packet = Request THEN Asked ELSE @]
    /\ UNCHANGED <<now, bootTime, rtc, packet, start, answer, wake, tm_new, ghosts>>

\* No server can be reached: return 0.
NtpGivesUp(t) ==
    /\ pc[t] = "send"
    /\ Return(t, 0)
    /\ UNCHANGED <<now, bootTime, rtc, packet, tm_new, ghosts>>

\* The last server has been asked, and an answer may already be there: the
\* receive loop starts.
NtpListen(t) ==
    /\ pc[t] = "sent"
    /\ Goto(t, "receive")
    /\ start' = [start EXCEPT ![t] = now]
    /\ UNCHANGED <<now, bootTime, rtc, packet, inbox, answer, wake, tm_new, ghosts>>

\* An answer arrives, stamped with the time at the server.
NtpAnswer(t) ==
    /\ pc[t] \in {"sent", "receive"}
    /\ inbox[t] = Asked
    /\ inbox' = [inbox EXCEPT ![t] = Utc]
    /\ UNCHANGED <<now, bootTime, rtc, packet, start, answer, pc, wake, tm_new,
                   ghosts>>

InTime(t) == TicksSince(start[t]) < NtpTimeout * TicksPerSecond

\* Mutant: n = 0 (nothing there) is taken for an answer.
NtpReceive_Nothing(t) ==
    /\ pc[t] = "receive"
    /\ InTime(t)
    /\ packet' = IF inbox[t] > 0 THEN NetPacket(inbox[t]) ELSE packet
    /\ Goto(t, "convert")
    /\ UNCHANGED <<now, bootTime, rtc, start, inbox, answer, wake, tm_new, ghosts>>

\* Mutant: an error of recvfrom is taken for an answer.
NtpReceive_Error(t) ==
    /\ pc[t] = "receive"
    /\ inbox[t] # NoAnswer
    /\ InTime(t)
    /\ packet' = NetPacket(inbox[t])
    /\ Goto(t, "convert")
    /\ UNCHANGED <<now, bootTime, rtc, start, inbox, answer, wake, tm_new, ghosts>>

\* recvfrom finds an answer in the socket and writes it over the packet.
NtpReceive(t) ==
    /\ pc[t] = "receive"
    /\ inbox[t] > 0
    /\ InTime(t)
    /\ packet' = NetPacket(inbox[t])
    /\ Goto(t, "convert")
    /\ UNCHANGED <<now, bootTime, rtc, start, inbox, answer, wake, tm_new, ghosts>>

\* The last part of ntp_get_time: convert the packet in place unless the time
\* is up by now, and return.
NtpConvert(t) ==
    /\ pc[t] = "convert"
    /\ \/ /\ InTime(t)
          /\ \E time \in Converted(packet) : Return(t, time)
          /\ packet' = HostPacket
       \/ /\ ~InTime(t)
          /\ Return(t, 0)
          /\ UNCHANGED packet
    /\ UNCHANGED <<now, bootTime, rtc, tm_new, ghosts>>

\* The receive loop ends without an answer.
NtpTimesOut(t) ==
    /\ pc[t] = "receive"
    /\ ~InTime(t)
    /\ Return(t, 0)
    /\ UNCHANGED <<now, bootTime, rtc, packet, tm_new, ghosts>>

-----------------------------------------------------------------------------
(***************************************************************************)
(* The time thread sets the clock to the answer, 0 included.               *)
(***************************************************************************)
TimeSet ==
    /\ pc["time"] = "set"
    /\ init_time' = SetValue(answer["time"])
    /\ Goto("time", "run")
    /\ source' = Source(IF answer["time"] = 0 THEN "zero" ELSE "utc",
                        answer["time"], FALSE)
    /\ halfway' = [halfway EXCEPT !.torn = @ \/ pc["sync"] = "set_date"]
    /\ Forget("time")
    /\ UNCHANGED <<now, bootTime, init_tick, packet, start, inbox, wake, tm_new>>

(***************************************************************************)
(* The synchronisation thread: ntp_sync_to_rtc, once per period.           *)
(***************************************************************************)
SyncWake ==
    /\ pc["sync"] = "sleep"
    /\ now >= wake
    /\ Goto("sync", "begin")
    /\ UNCHANGED <<now, bootTime, rtc, network, wake, tm_new, ghosts>>

\* ntp_get_local_time: the answer and the time zone.
LocalAnswer == answer["sync"] + Zone

\* set_time reads the clock and puts in the time of day ...
SetTimeRead ==
    /\ pc["sync"] = "set_time"
    /\ tm_new' = DayOf(Shown) * DayLength + TimeOfDay(LocalAnswer)
    /\ Goto("sync", "write_time")
    /\ UNCHANGED <<now, bootTime, rtc, network, wake, ghosts>>

\* ... and writes it back.
SetTimeWrite ==
    /\ pc["sync"] = "write_time"
    /\ init_time' = SetValue(tm_new)
    /\ tm_new' = 0
    /\ Goto("sync", "set_date")
    /\ source' = Source("half", LocalAnswer, FALSE)
    /\ halfway' = [halfway EXCEPT !.torn = FALSE]
    /\ UNCHANGED <<now, bootTime, init_tick, network, wake, begun, alone>>

\* Mutant: the date is taken before the time zone is added.
DateToSet_Utc == DayOf(answer["sync"])

DateToSet == DayOf(LocalAnswer)

\* set_date reads the clock and puts in the date ...
SetDateRead ==
    /\ pc["sync"] = "set_date"
    /\ tm_new' = DateToSet * DayLength + TimeOfDay(Shown)
    /\ Goto("sync", "write_date")
    /\ halfway' = [torn    |-> halfway.torn \/ Laps(now) # Laps(source.at) \/ Shown < 0,
                   dayLost |-> DayOf(Local + 1) # DayOf(LocalAnswer)]
    /\ UNCHANGED <<now, bootTime, rtc, network, wake, begun, alone, source>>

\* ... writes it back, and the thread sleeps.
SetDateWrite ==
    /\ pc["sync"] = "write_date"
    /\ init_time' = SetValue(tm_new)
    /\ tm_new' = 0
    /\ Goto("sync", "sleep")
    /\ wake' = now + Period * TicksPerSecond
    /\ source' = Source(IF halfway.torn \/ ~alone["sync"] THEN "torn" ELSE "local",
                        LocalAnswer, halfway.dayLost)
    /\ halfway' = [torn |-> FALSE, dayLost |-> FALSE]
    /\ Forget("sync")
    /\ UNCHANGED <<now, bootTime, init_tick, packet, start, inbox>>

-----------------------------------------------------------------------------
\* rt_tick_increase.
Tick ==
    /\ now < Horizon
    /\ now' = now + 1
    /\ UNCHANGED <<bootTime, rtc, network, pc, wake, tm_new, ghosts>>

NtpStep(t) ==
    \/ NtpBegin(t) \/ NtpSend(t) \/ NtpGivesUp(t) \/ NtpListen(t)
    \/ NtpReceive(t) \/ NtpConvert(t) \/ NtpTimesOut(t)

SyncStep == SyncWake \/ SetTimeRead \/ SetTimeWrite \/ SetDateRead \/ SetDateWrite

Next ==
    \/ \E t \in Threads : MayRun(t) /\ NtpStep(t)
    \/ \E t \in Threads : NtpAnswer(t)
    \/ TimeSet
    \/ MayRun("sync") /\ SyncStep
    \/ Tick

Spec == Init /\ [][Next]_vars

-----------------------------------------------------------------------------
(***************************************************************************)
(* Type invariant.                                                         *)
(***************************************************************************)
TypeOK ==
    /\ now \in Nat
    /\ bootTime \in BootTimes
    /\ init_tick \in BootTicks
    /\ init_time \in Int
    /\ packet \in [kind : {"request", "net", "host"}, stamp : Nat]
    /\ pc["time"] \in {"begin", "send", "sent", "receive", "convert", "set", "run"}
    /\ pc["sync"] \in {"sleep", "begin", "send", "sent", "receive", "convert",
                       "set_time", "write_time", "set_date", "write_date"}
    /\ DOMAIN pc = Threads
    /\ start \in [Threads -> Nat]
    /\ inbox \in [Threads -> Nat \cup {Asked}]
    /\ answer \in [Threads -> Int]
    /\ wake \in Nat
    /\ tm_new \in Int
    /\ begun \in [Threads -> Nat]
    /\ alone \in [Threads -> BOOLEAN]
    /\ source \in [kind : {"default", "zero", "utc", "half", "local", "torn"},
                   time : Int, at : Nat, dayLost : BOOLEAN]
    /\ halfway \in [torn : BOOLEAN, dayLost : BOOLEAN]

UtcAt(n) == bootTime + Seconds(n)

IsTimely(t) == answer[t] # 0 => answer[t] \in UtcAt(begun[t]) .. Utc

(***************************************************************************)
(* ntp_get_time returns 0 or a time a server stamped since the call, to    *)
(* the time thread always (the synchronisation thread cannot touch the     *)
(* static packet between its recvfrom and its conversion), to the          *)
(* synchronisation thread as long as the two calls do not overlap.         *)
(***************************************************************************)
AnswerIsRight ==
    /\ IsTimely("time")
    /\ alone["sync"] => IsTimely("sync")

\* Seconds the clock loses because the tick wrapped since it was set.
WrapLoss == Seconds((Laps(now) - Laps(source.at)) * TickMod)

\* How far the clock is behind the local time, wraps of the tick apart.
Lag == Local - Shown - WrapLoss

\* Seconds between a time stamp and the tick the clock was set at, and one
\* for each rounding.
Slack(zone) == -1 .. (UtcAt(source.at) + zone - source.time + 2)

(***************************************************************************)
(* How wrong the clock can be.  After a synchronisation from an answer of  *)
(* its own that was not torn in two (by the time thread setting the clock  *)
(* or by a wrap of the tick between set_time and set_date, or because the  *)
(* clock stood before 1970, where C's remainders are negative), it is      *)
(* behind the local time by no more than the synchronisation took, or by   *)
(* that and one day; after the time thread set it, by the time zone and no *)
(* more than the answer took.  Besides, it loses 2^32 ticks each time the  *)
(* tick wraps until it is set again.                                       *)
(***************************************************************************)
ClockLag ==
    /\ source.kind = "utc" => Lag - Zone \in Slack(0)
    /\ source.kind = "local" =>
          \/ Lag \in Slack(Zone)
          \/ Lag - DayLength \in Slack(Zone)

(***************************************************************************)
(* The date is a day behind after such a synchronisation only if midnight  *)
(* came between the server's answer and a second after set_date.           *)
(***************************************************************************)
DayLostAtMidnightOnly ==
    source.kind = "local" /\ ~source.dayLost => Lag \in Slack(Zone)
=============================================================================
