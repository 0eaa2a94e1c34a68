------------------------------ MODULE TimeThread ------------------------------
(* The time thread, applications/my_time.c.  The NTP query that sets the    *)
(* real-time clock is one wait; the clock then counts seconds up to MaxTime.*)
EXTENDS ClockKernel

VARIABLES
    rtc,    \* the real-time clock, counted from the moment it was set
    now     \* the local variable now

timeVars == <<rtc, now>>

Stamps == 0 .. MaxTime

\* Each field holds the second at which ctime was called for it.
TimeFields == {"hour", "year", "week", "mouth"}

\* rt_malloc, then ntp_get_time.
TimeStart ==
    /\ At("time", "start")
    /\ SleepThen("time", "setTime")
    /\ UNCHANGED <<mbType, mbq, timeMes, dhtMes, weaMes, rtc, now>>

\* RT_DEVICE_CTRL_RTC_SET_TIME, with whatever ntp_get_time returned.
TimeSet ==
    /\ At("time", "setTime")
    /\ rtc' = 0
    /\ Goto("time", "read")
    /\ UNCHANGED <<suspended, mbType, mbq, timeMes, dhtMes, weaMes, now>>

\* time(RT_NULL).
TimeRead ==
    /\ At("time", "read")
    /\ now' = rtc
    /\ Goto("time", "hour")
    /\ UNCHANGED <<suspended, mbType, mbq, timeMes, dhtMes, weaMes, rtc>>

\* The four copies out of the string of ctime, in the order of the code.
AfterField == [hour |-> "year", year |-> "week", week |-> "mouth", mouth |-> "send"]

TimeCopy(f) ==
    /\ At("time", f)
    /\ timeMes' = [timeMes EXCEPT ![f] = now]
    /\ Goto("time", AfterField[f])
    /\ UNCHANGED <<suspended, mbType, mbq, dhtMes, weaMes, rtc, now>>

\* Mutant: the loop is closed behind the copies.
TimeSendOld ==
    /\ At("time", "send")
    /\ Send("time", "mes")
    /\ SleepThen("time", "send")
    /\ UNCHANGED <<mbType, timeMes, dhtMes, weaMes, rtc, now>>

\* rt_mb_send of the one record, then rt_thread_mdelay(500).
TimeSend ==
    /\ At("time", "send")
    /\ Send("time", "mes")
    /\ SleepThen("time", "read")
    /\ UNCHANGED <<mbType, timeMes, dhtMes, weaMes, rtc, now>>

TimeStep ==
    \/ TimeStart
    \/ TimeSet
    \/ TimeRead
    \/ \E f \in TimeFields : TimeCopy(f)
    \/ TimeSend

\* The soft RTC counts on its own.
ClockTick ==
    /\ rtc < MaxTime
    /\ rtc' = rtc + 1
    /\ UNCHANGED <<kernelVars, now>>

TimeInit == rtc = 0 /\ now = 0

TimeTypeOK == rtc \in Stamps /\ now \in Stamps
==============================================================================
