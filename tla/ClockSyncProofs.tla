---------------------------- MODULE ClockSyncProofs ---------------------------
(***************************************************************************)
(* Proofs about the real-time clock and its synchronisation, for every     *)
(* tick rate, tick width, length of a day, time zone, timeout and horizon: *)
(* the types, what ntp_get_time returns, and how far the clock may be      *)
(* wrong.                                                                  *)
(***************************************************************************)
EXTENDS ClockSync, ListLemmas, TLAPS

-----------------------------------------------------------------------------
(***************************************************************************)
(* Arithmetic of seconds, ticks and days.                                  *)
(***************************************************************************)

\* The tick counter has at least one value.
LEMMA TickModType == TickMod \in Nat \ {0}
BY UnitsAssumption DEF TickMod

\* Seconds of a tick count.
LEMMA SecondsFloor ==
    ASSUME NEW n \in Int
    PROVE  /\ Seconds(n) \in Int
           /\ Seconds(n) * TicksPerSecond \in Int
           /\ Seconds(n) * TicksPerSecond <= n
           /\ n < Seconds(n) * TicksPerSecond + TicksPerSecond
BY Division, UnitsAssumption DEF Seconds

\* Seconds do not run backwards.
LEMMA SecondsMonotone ==
    ASSUME NEW m \in Int, NEW n \in Int, m <= n
    PROVE  Seconds(m) <= Seconds(n)
<1>1. Seconds(m) * TicksPerSecond < Seconds(n) * TicksPerSecond + TicksPerSecond
  BY SecondsFloor, UnitsAssumption
<1>2. Seconds(m) * TicksPerSecond < (Seconds(n) + 1) * TicksPerSecond
  BY <1>1, SecondsFloor, UnitsAssumption
<1>3. Seconds(m) < Seconds(n) + 1
  BY <1>2, TimesLess, SecondsFloor, UnitsAssumption
<1> QED
  BY <1>3, SecondsFloor

\* Seconds of a natural number of ticks.
LEMMA SecondsNat ==
    ASSUME NEW n \in Nat
    PROVE  Seconds(n) \in Nat
<1>1. Seconds(0) = 0
  BY UnitsAssumption DEF Seconds
<1> QED
  BY <1>1, SecondsMonotone, SecondsFloor

\* What rt_tick_get() - from is.
LEMMA TicksSinceType ==
    ASSUME NEW from \in Int, now \in Int
    PROVE  TicksSince(from) \in Nat
BY TickModType, Division DEF TicksSince

-----------------------------------------------------------------------------
(***************************************************************************)
(* Types.                                                                  *)
(***************************************************************************)
PcType ==
    /\ pc["time"] \in {"begin", "send", "sent", "receive", "convert", "set", "run"}
    /\ pc["sync"] \in {"sleep", "begin", "send", "sent", "receive", "convert",
                       "set_time", "write_time", "set_date", "write_date"}
    /\ DOMAIN pc = Threads

CallType ==
    /\ start \in [Threads -> Nat]
    /\ inbox \in [Threads -> Nat \cup {Asked}]
    /\ answer \in [Threads -> Int]
    /\ wake \in Nat

ClockType ==
    /\ now \in Nat
    /\ bootTime \in BootTimes
    /\ init_tick \in BootTicks
    /\ init_time \in Int
    /\ tm_new \in Int

PacketType == packet \in [kind : {"request", "net", "host"}, stamp : Nat]

GhostType ==
    /\ begun \in [Threads -> Nat]
    /\ alone \in [Threads -> BOOLEAN]
    /\ source \in [kind : {"default", "zero", "utc", "half", "local", "torn"},
                   time : Int, at : Nat, dayLost : BOOLEAN]
    /\ halfway \in [torn : BOOLEAN, dayLost : BOOLEAN]

\* The parts of the type invariant.
LEMMA TypeParts == TypeOK <=> PcType /\ CallType /\ ClockType /\ PacketType /\ GhostType
BY DEF TypeOK, PcType, CallType, ClockType, PacketType, GhostType

\* ... and of the next state.
LEMMA TypeNext == (PcType /\ CallType /\ ClockType /\ PacketType /\ GhostType)' => TypeOK'
BY DEF TypeOK, PcType, CallType, ClockType, PacketType, GhostType

\* What the clock and the true time are.
LEMMA TimesType ==
    ASSUME ClockType
    PROVE  /\ Utc \in Nat
           /\ Local \in Nat
           /\ Shown \in Int
           /\ \A t \in Int : SetValue(t) \in Int
           /\ now \in Int /\ init_tick \in Nat /\ bootTime \in Nat \ {0}
<1>1. now \in Nat /\ init_tick \in Nat /\ bootTime \in Nat \ {0} /\ init_time \in Int
  BY TimesAssumption DEF ClockType
<1>2. Seconds(now) \in Nat
  BY <1>1, SecondsNat
<1>3. TicksSince(init_tick) \in Nat
  BY <1>1, TicksSinceType
<1>4. Seconds(TicksSince(init_tick)) \in Nat
  BY <1>3, SecondsNat
<1> QED
  BY <1>1, <1>2, <1>4, TimesAssumption DEF Utc, Local, Shown, SetValue

\* A C quotient is an integer.
LEMMA DaysType ==
    ASSUME NEW t \in Int
    PROVE  DayOf(t) \in Int /\ DayOf(t) * DayLength \in Int /\ TimeOfDay(t) \in Int
<1>1. DayOf(t) \in Int
  <2>1. t \div DayLength \in Int /\ (-t) \div DayLength \in Int
    BY Division, UnitsAssumption
  <2> QED
    BY <2>1 DEF DayOf, TruncDiv
<1>2. DayLength \in Int
  BY UnitsAssumption
<1> QED
  BY <1>1, <1>2 DEF TimeOfDay

\* A return from ntp_get_time.
LEMMA ReturnType ==
    ASSUME PcType, CallType, now \in Nat, NEW t \in Threads, NEW time \in Int,
           Return(t, time)
    PROVE  PcType' /\ CallType'
<1>1. NoAnswer \in Nat /\ 0 \in Nat
  BY DEF NoAnswer
<1>2. start' \in [Threads -> Nat] /\ answer' \in [Threads -> Int]
      /\ inbox' \in [Threads -> Nat \cup {Asked}]
  BY <1>1 DEF CallType, Return
<1>3. now + Period * TicksPerSecond \in Nat
  BY TimesAssumption, UnitsAssumption
<1>4. wake' \in Nat
  BY <1>3 DEF CallType, Return
<1>5. PcType'
  BY DEF PcType, Return, Goto, Threads
<1> QED
  BY <1>2, <1>4, <1>5 DEF CallType

\* What a packet is converted to.
LEMMA ConvertedType ==
    ASSUME NEW p \in [kind : {"request", "net", "host"}, stamp : Nat]
    PROVE  Converted(p) \subseteq Int
<1>1. p.stamp \in Int
  OBVIOUS
<1> QED
  BY <1>1, TimesAssumption DEF Converted

\* Where the time on the clock comes from.
LEMMA SourceType ==
    ASSUME now \in Nat, NEW time \in Int, NEW b \in BOOLEAN,
           NEW k \in {"default", "zero", "utc", "half", "local", "torn"}
    PROVE  Source(k, time, b) \in
             [kind : {"default", "zero", "utc", "half", "local", "torn"},
              time : Int, at : Nat, dayLost : BOOLEAN]
BY DEF Source

\* The result of a call is forgotten.
LEMMA ForgetType ==
    ASSUME CallType, NEW t, Forget(t)
    PROVE  answer' \in [Threads -> Int]
<1>1. answer \in [Threads -> Int] /\ answer' = [answer EXCEPT ![t] = 0] /\ 0 \in Int
  BY DEF CallType, Forget
<1> QED
  BY <1>1, Zenon

\* The answer in local time.
LEMMA LocalAnswerType == CallType => LocalAnswer \in Int
BY TimesAssumption DEF CallType, LocalAnswer, Threads

\* The initial state has the types.
LEMMA InitTypes == Init => TypeOK
<1> SUFFICES ASSUME Init PROVE TypeOK
  OBVIOUS
<1>1. init_tick \in BootTicks /\ init_tick \in Nat /\ now = init_tick
  BY TimesAssumption DEF Init
<1>2. ClockType
  BY <1>1, TimesAssumption DEF Init, ClockType
<1>3. PcType
  BY DEF Init, PcType, Threads
<1>4. now + FirstDelay * TicksPerSecond \in Nat
  BY <1>1, TimesAssumption, UnitsAssumption
<1>5. CallType
  BY <1>4 DEF Init, CallType, NoAnswer
<1>6. PacketType
  BY DEF Init, PacketType, Request
<1>7. GhostType
  <2>1. source \in [kind : {"default", "zero", "utc", "half", "local", "torn"},
                    time : Int, at : Nat, dayLost : BOOLEAN]
    <3>1. DefaultTime \in Int /\ now \in Nat
      BY <1>1, TimesAssumption
    <3> QED
      BY <3>1, SourceType DEF Init
  <2>2. begun \in [Threads -> Nat] /\ alone \in [Threads -> BOOLEAN]
    BY DEF Init
  <2>3. halfway \in [torn : BOOLEAN, dayLost : BOOLEAN]
    BY DEF Init
  <2> QED
    BY <2>1, <2>2, <2>3 DEF GhostType
<1> QED
  BY <1>2, <1>3, <1>5, <1>6, <1>7, TypeParts

\* The steps of ntp_get_time up to the receipt of an answer keep the types.
LEMMA NtpTypes ==
    ASSUME TypeOK, NEW t \in Threads,
           \/ NtpBegin(t) \/ NtpSend(t) \/ NtpGivesUp(t) \/ NtpListen(t) \/ NtpAnswer(t)
           \/ NtpTimesOut(t)
    PROVE  TypeOK'
<1>1. PcType /\ CallType /\ ClockType /\ PacketType /\ GhostType
  BY TypeParts
<1>2. now \in Nat /\ Utc \in Nat
  BY <1>1, TimesType DEF ClockType
<1>3. ClockType'
  BY <1>1 DEF ClockType, NtpBegin, NtpSend, NtpGivesUp, NtpListen, NtpAnswer, NtpTimesOut,
              rtc
<1>4. PacketType'
  BY <1>1 DEF PacketType, NtpBegin, NtpSend, NtpGivesUp, NtpListen, NtpAnswer,
              NtpTimesOut, Request
<1>5. GhostType'
  <2>1. CASE NtpBegin(t)
    <3>1. source' = source /\ halfway' = halfway /\ begun' \in [Threads -> Nat]
      BY <1>1, <1>2, <2>1 DEF NtpBegin, GhostType
    <3>2. alone' = [u \in Threads |->
                 IF u = t THEN ~InCall(Other(t)) ELSE alone[u] /\ ~InCall(u)]
      BY <2>1 DEF NtpBegin
    <3>3. \A u \in Threads :
            (IF u = t THEN ~InCall(Other(t)) ELSE alone[u] /\ ~InCall(u)) \in BOOLEAN
      BY Zenon
    <3>4. alone' \in [Threads -> BOOLEAN]
      BY <3>2, <3>3
    <3> QED
      BY <1>1, <3>1, <3>4 DEF GhostType
  <2>2. CASE UNCHANGED ghosts
    BY <1>1, <2>2 DEF GhostType, ghosts
  <2> QED
    BY <2>1, <2>2 DEF NtpSend, NtpGivesUp, NtpListen, NtpAnswer, NtpTimesOut
<1>6. PcType' /\ CallType'
  <2>1. CASE \E time \in {0} : Return(t, time)
    BY <1>1, <1>2, <2>1, ReturnType
  <2>2. CASE NtpAnswer(t)
    BY <1>1, <1>2, <2>2 DEF NtpAnswer, PcType, CallType
  <2>3. CASE /\ NtpBegin(t)
             /\ Goto(t, "send")
             /\ answer' = [answer EXCEPT ![t] = 0]
             /\ UNCHANGED <<inbox, start, wake>>
    <3>1. PcType'
      BY <1>1, <2>3 DEF PcType, Goto, Threads
    <3>2. CallType'
      BY <1>1, <2>3 DEF CallType
    <3> QED
      BY <3>1, <3>2
  <2>4. CASE NtpSend(t)
    <3>1. PcType'
      BY <1>1, <2>4 DEF PcType, NtpSend, Goto, Threads
    <3>2. CallType'
      BY <1>1, <2>4 DEF CallType, NtpSend
    <3> QED
      BY <3>1, <3>2
  <2>5. CASE NtpListen(t)
    <3>1. PcType'
      BY <1>1, <2>5 DEF PcType, NtpListen, Goto, Threads
    <3>2. CallType'
      BY <1>1, <1>2, <2>5 DEF CallType, NtpListen
    <3> QED
      BY <3>1, <3>2
  <2> QED
    BY <2>1, <2>2, <2>3, <2>4, <2>5 DEF NtpBegin, NtpGivesUp, NtpTimesOut
<1> QED
  BY <1>3, <1>4, <1>5, <1>6, TypeNext

\* So do receiving and converting an answer.
LEMMA ReceiveTypes ==
    ASSUME TypeOK, NEW t \in Threads, NtpReceive(t) \/ NtpConvert(t)
    PROVE  TypeOK'
<1>1. PcType /\ CallType /\ ClockType /\ PacketType /\ GhostType
  BY TypeParts
<1>2. now \in Nat
  BY <1>1 DEF ClockType
<1>3. ClockType' /\ GhostType'
  BY <1>1 DEF ClockType, GhostType, NtpReceive, NtpConvert, rtc, ghosts
<1>4. PcType' /\ CallType' /\ PacketType'
  <2>1. CASE NtpReceive(t)
    <3>1. PcType'
      BY <1>1, <2>1 DEF PcType, NtpReceive, Goto, Threads
    <3>2. CallType'
      BY <1>1, <2>1 DEF CallType, NtpReceive
    <3>3. inbox[t] > 0 => inbox[t] \in Nat
      BY <1>1 DEF CallType, Asked
    <3>4. PacketType'
      BY <2>1, <3>3 DEF PacketType, NtpReceive, NetPacket
    <3> QED
      BY <3>1, <3>2, <3>4
  <2>2. CASE NtpConvert(t)
    <3>1. PICK time \in Int : Return(t, time)
      BY <1>1, <2>2, ConvertedType DEF NtpConvert, PacketType
    <3>2. PacketType'
      BY <1>1, <2>2 DEF NtpConvert, PacketType, HostPacket
    <3> QED
      BY <1>1, <1>2, <3>1, <3>2, ReturnType
  <2> QED
    BY <2>1, <2>2
<1> QED
  BY <1>3, <1>4, TypeNext

\* Setting the clock keeps the types.
LEMMA SetTypes ==
    ASSUME TypeOK,
           TimeSet \/ SetTimeRead \/ SetTimeWrite \/ SetDateRead \/ SetDateWrite
    PROVE  TypeOK'
<1>1. PcType /\ CallType /\ ClockType /\ PacketType /\ GhostType
  BY TypeParts
<1>2. /\ now \in Nat /\ Shown \in Int /\ LocalAnswer \in Int
      /\ \A t \in Int : SetValue(t) \in Int
      /\ answer["time"] \in Int /\ tm_new \in Int
  BY <1>1, TimesType, LocalAnswerType DEF ClockType, CallType, Threads
<1>3. PcType'
  BY <1>1 DEF PcType, TimeSet, SetTimeRead, SetTimeWrite, SetDateRead, SetDateWrite, Goto,
              Threads
<1>4. PacketType'
  BY <1>1 DEF PacketType, TimeSet, SetTimeRead, SetTimeWrite, SetDateRead, SetDateWrite,
              network
<1>5. now + Period * TicksPerSecond \in Nat
  BY <1>2, TimesAssumption, UnitsAssumption
<1>6. CallType'
  <2>1. CASE TimeSet
    <3>1. answer' \in [Threads -> Int]
      BY <1>1, <2>1, ForgetType DEF TimeSet
    <3> QED
      BY <1>1, <2>1, <3>1 DEF CallType, TimeSet
  <2>2. CASE SetDateWrite
    <3>1. answer' \in [Threads -> Int]
      BY <1>1, <2>2, ForgetType DEF SetDateWrite
    <3> QED
      BY <1>1, <1>5, <2>2, <3>1 DEF CallType, SetDateWrite
  <2>3. CASE SetTimeRead \/ SetTimeWrite \/ SetDateRead
    BY <1>1, <2>3 DEF CallType, SetTimeRead, SetTimeWrite, SetDateRead, network
  <2> QED
    BY <2>1, <2>2, <2>3
<1>7. ClockType'
  <2>1. now' = now /\ bootTime' = bootTime /\ init_tick' = init_tick
    BY DEF TimeSet, SetTimeRead, SetTimeWrite, SetDateRead, SetDateWrite, rtc
  <2>2. DayOf(Shown) * DayLength + TimeOfDay(LocalAnswer) \in Int
    BY <1>2, DaysType
  <2>3. DateToSet * DayLength + TimeOfDay(Shown) \in Int
    BY <1>2, DaysType DEF DateToSet
  <2>4. init_time' \in Int /\ tm_new' \in Int
    <3>1. CASE TimeSet
      BY <1>2, <3>1 DEF TimeSet
    <3>2. CASE SetTimeRead
      BY <1>1, <2>2, <3>2 DEF ClockType, SetTimeRead, rtc
    <3>3. CASE SetTimeWrite
      BY <1>2, <3>3 DEF SetTimeWrite
    <3>4. CASE SetDateRead
      BY <1>1, <2>3, <3>4 DEF ClockType, SetDateRead, rtc
    <3>5. CASE SetDateWrite
      BY <1>2, <3>5 DEF SetDateWrite
    <3> QED
      BY <3>1, <3>2, <3>3, <3>4, <3>5
  <2> QED
    BY <1>1, <2>1, <2>4 DEF ClockType
<1>8. GhostType'
  <2>1. begun' \in [Threads -> Nat] /\ alone' \in [Threads -> BOOLEAN]
    <3>1. CASE \E t \in Threads : Forget(t)
      BY <1>1, <3>1 DEF GhostType, Forget
    <3>2. CASE begun' = begun /\ alone' = alone
      BY <1>1, <3>2 DEF GhostType
    <3> QED
      BY <3>1, <3>2 DEF TimeSet, SetTimeRead, SetTimeWrite, SetDateRead, SetDateWrite, ghosts,
                        Threads
  <2>2. halfway' \in [torn : BOOLEAN, dayLost : BOOLEAN]
    <3>1. CASE TimeSet
      BY <1>1, <3>1 DEF GhostType, TimeSet
    <3>2. CASE SetTimeRead
      BY <1>1, <3>2 DEF GhostType, SetTimeRead, ghosts
    <3>3. CASE SetTimeWrite
      BY <1>1, <3>3 DEF GhostType, SetTimeWrite
    <3>4. CASE SetDateRead
      BY <1>1, <3>4 DEF GhostType, SetDateRead
    <3>5. CASE SetDateWrite
      BY <1>1, <3>5 DEF GhostType, SetDateWrite
    <3> QED
      BY <3>1, <3>2, <3>3, <3>4, <3>5
  <2>3. source' \in [kind : {"default", "zero", "utc", "half", "local", "torn"},
                     time : Int, at : Nat, dayLost : BOOLEAN]
    <3>1. halfway.dayLost \in BOOLEAN /\ FALSE \in BOOLEAN
      BY <1>1 DEF GhostType
    <3>2. CASE TimeSet
      BY <1>2, <3>1, <3>2, SourceType DEF TimeSet
    <3>3. CASE SetTimeWrite
      BY <1>2, <3>1, <3>3, SourceType DEF SetTimeWrite
    <3>4. CASE SetDateWrite
      BY <1>2, <3>1, <3>4, SourceType DEF SetDateWrite
    <3>5. CASE SetTimeRead \/ SetDateRead
      BY <1>1, <3>5 DEF GhostType, SetTimeRead, SetDateRead, ghosts
    <3> QED
      BY <3>2, <3>3, <3>4, <3>5
  <2> QED
    BY <2>1, <2>2, <2>3 DEF GhostType
<1> QED
  BY <1>3, <1>4, <1>6, <1>7, <1>8, TypeNext

\* Waking up, the tick and stuttering keep the types.
LEMMA TickTypes ==
    ASSUME TypeOK, SyncWake \/ Tick \/ UNCHANGED vars
    PROVE  TypeOK'
<1>1. PcType /\ CallType /\ ClockType /\ PacketType /\ GhostType
  BY TypeParts
<1>2. PcType'
  BY <1>1 DEF PcType, SyncWake, Tick, vars, Goto, Threads
<1>3. CallType' /\ PacketType' /\ GhostType'
  BY <1>1 DEF CallType, PacketType, GhostType, SyncWake, Tick, vars, network, ghosts
<1>4. ClockType'
  BY <1>1 DEF ClockType, SyncWake, Tick, vars, rtc
<1> QED
  BY <1>2, <1>3, <1>4, TypeNext

(***************************************************************************)
(* Type correctness, for every value of the constants: the states of the   *)
(* two threads stay apart, and what recvfrom writes into the static packet *)
(* is a time stamp, although ntp_get_time may convert the packet to any    *)
(* integer when calls overlap.                                             *)
(***************************************************************************)
THEOREM SyncTypeCorrect == Spec => []TypeOK
<1>1. Init => TypeOK
  BY InitTypes
<1>2. TypeOK /\ [Next]_vars => TypeOK'
  BY NtpTypes, ReceiveTypes, SetTypes, TickTypes DEF Next, NtpStep, SyncStep
<1> QED
  BY <1>1, <1>2, PTL DEF Spec

-----------------------------------------------------------------------------
(***************************************************************************)
(* What ntp_get_time returns.  An answer in the inbox was stamped since    *)
(* the call began.  Between its receipt and its conversion the packet      *)
(* stays as it was: for the time thread because the synchronisation thread *)
(* does not run, for the synchronisation thread as long as no call of the  *)
(* time thread overlaps, and an overlap is remembered in alone.            *)
(***************************************************************************)
Timely(t, n) == n \in UtcAt(begun[t]) .. Utc

BegunInv == \A t \in Threads : begun[t] <= now

InboxInv ==
    \A t \in Threads : inbox[t] > 0 =>
       pc[t] \in {"sent", "receive", "convert"} /\ Timely(t, inbox[t])

PacketInv ==
    \A t \in Threads : pc[t] = "convert" /\ (t = "sync" => alone[t]) =>
       packet.kind = "net" /\ Timely(t, packet.stamp)

OverlapInv == InCall("time") /\ InCall("sync") => ~alone["sync"]

AnswerInv ==
    /\ TypeOK
    /\ BegunInv
    /\ InboxInv
    /\ PacketInv
    /\ OverlapInv
    /\ AnswerIsRight

\* The answers of the two threads, one by one.
LEMMA AnswerParts ==
    /\ AnswerIsRight <=> \A t \in Threads :
          (t = "sync" => alone[t]) /\ answer[t] # 0 => Timely(t, answer[t])
    /\ "time" \in Threads /\ "sync" \in Threads
    /\ \A t \in Threads : t = "time" \/ t = "sync"
BY DEF AnswerIsRight, IsTimely, Timely, Threads

\* True times are natural numbers, and they grow.
LEMMA UtcAtType ==
    ASSUME ClockType
    PROVE  /\ \A n \in Nat : UtcAt(n) \in Nat
           /\ \A m, n \in Nat : m <= n => UtcAt(m) <= UtcAt(n)
           /\ Utc = UtcAt(now)
<1>1. bootTime \in Nat
  BY TimesAssumption DEF ClockType
<1>2. \A n \in Nat : Seconds(n) \in Nat
  BY SecondsNat
<1>3. \A m, n \in Nat : m <= n => Seconds(m) <= Seconds(n)
  <2> TAKE m, n \in Nat
  <2> HAVE m <= n
  <2> QED
    BY SecondsMonotone
<1> QED
  BY <1>1, <1>2, <1>3 DEF UtcAt, Utc

\* A step that is not a tick does not change the time.
LEMMA SameTimes ==
    ASSUME now' = now, bootTime' = bootTime
    PROVE  Utc' = Utc /\ \A n : UtcAt(n)' = UtcAt(n)
BY DEF Utc, UtcAt, Seconds

\* Time stamps stay timely.
LEMMA TimelyKept ==
    ASSUME TypeOK, TypeOK', bootTime' = bootTime, now' \in {now, now + 1},
           NEW t \in Threads, begun'[t] = begun[t], NEW n \in Int, Timely(t, n)
    PROVE  Timely(t, n)'
<1>1. ClockType /\ GhostType
  BY TypeParts
<1>2. ClockType'
  BY DEF TypeOK, ClockType
<1>3. begun[t] \in Nat /\ now \in Nat /\ now' \in Nat
  BY <1>1, <1>2 DEF ClockType, GhostType
<1>4. UtcAt(now) <= UtcAt(now') /\ UtcAt(now) \in Nat /\ UtcAt(now') \in Nat
      /\ Utc = UtcAt(now) /\ UtcAt(begun[t]) \in Nat
  BY <1>1, <1>3, UtcAtType
<1>5. Utc' = UtcAt(now') /\ UtcAt(begun[t])' = UtcAt(begun[t])
  BY DEF Utc, UtcAt, Seconds
<1> QED
  BY <1>3, <1>4, <1>5 DEF Timely

\* The initial state.
LEMMA InitAnswer == Init => AnswerInv
<1> SUFFICES ASSUME Init PROVE AnswerInv
  OBVIOUS
<1>1. TypeOK
  BY InitTypes
<1>2. now \in Nat
  BY <1>1 DEF TypeOK
<1>3. BegunInv
  BY <1>2 DEF Init, BegunInv
<1>4. InboxInv /\ PacketInv /\ OverlapInv
  BY DEF Init, InboxInv, PacketInv, OverlapInv, InCall, Threads, NoAnswer
<1>5. AnswerIsRight
  BY AnswerParts DEF Init
<1> QED
  BY <1>1, <1>3, <1>4, <1>5 DEF AnswerInv

\* A return from ntp_get_time leaves the call; the other thread's variables
\* are as they were.
LEMMA ReturnSteps ==
    ASSUME TypeOK, NEW t \in Threads, NEW time, Return(t, time)
    PROVE  /\ answer'[t] = time
           /\ ~InCall(t)'
           /\ pc'[t] # "convert"
           /\ inbox'[t] = NoAnswer
           /\ \A u \in Threads \ {t} :
                 answer'[u] = answer[u] /\ inbox'[u] = inbox[u] /\ pc'[u] = pc[u]
<1>1. DOMAIN pc = Threads /\ answer \in [Threads -> Int]
      /\ inbox \in [Threads -> Nat \cup {Asked}]
  BY DEF TypeOK
<1>2. pc'[t] \in {"set", "sleep", "set_time"} /\ \A u \in Threads \ {t} : pc'[u] = pc[u]
  BY <1>1 DEF Return, Goto
<1>3. answer'[t] = time /\ inbox'[t] = NoAnswer /\ \A u \in Threads \ {t} :
                 answer'[u] = answer[u] /\ inbox'[u] = inbox[u]
  BY <1>1 DEF Return
<1> QED
  BY <1>2, <1>3 DEF InCall

\* A return with 0 or a timely answer, or with anything when the call of the
\* synchronisation thread overlapped another, keeps the answers right.
LEMMA ReturnAnswer ==
    ASSUME AnswerInv, TypeOK', NEW t \in Threads, NEW time \in Int, Return(t, time),
           time = 0 \/ Timely(t, time) \/ (t = "sync" /\ ~alone["sync"]),
           UNCHANGED <<now, bootTime, begun, alone>>,
           packet' = packet \/ (InCall(t) /\ MayRun(t))
    PROVE  AnswerInv'
<1>1. TypeOK /\ BegunInv /\ InboxInv /\ PacketInv /\ OverlapInv /\ AnswerIsRight
  BY DEF AnswerInv
<1>2. /\ answer'[t] = time
      /\ ~InCall(t)'
      /\ pc'[t] # "convert"
      /\ inbox'[t] = NoAnswer
      /\ \A u \in Threads \ {t} :
             answer'[u] = answer[u] /\ inbox'[u] = inbox[u] /\ pc'[u] = pc[u]
  BY <1>1, ReturnSteps
<1>3. \A u, n : Timely(u, n)' <=> Timely(u, n)
  BY SameTimes DEF Timely
<1>4. BegunInv'
  BY <1>1 DEF BegunInv
<1>5. InboxInv'
  BY <1>1, <1>2, <1>3 DEF InboxInv, NoAnswer
<1>6. OverlapInv'
  BY <1>1, <1>2, AnswerParts DEF OverlapInv, InCall
<1>7. PacketInv'
  <2> SUFFICES ASSUME NEW u \in Threads, pc'[u] = "convert", (u = "sync" => alone[u])
               PROVE  packet'.kind = "net" /\ Timely(u, packet'.stamp)
    BY <1>3 DEF PacketInv
  <2>1. u # t /\ pc[u] = "convert"
    BY <1>2
  <2>2. ~(InCall(t) /\ MayRun(t))
    BY <1>1, <2>1, AnswerParts DEF OverlapInv, InCall, MayRun
  <2> QED
    BY <1>1, <2>1, <2>2 DEF PacketInv
<1>8. AnswerIsRight'
  <2> SUFFICES ASSUME NEW u \in Threads, (u = "sync" => alone[u]), answer'[u] # 0
               PROVE  Timely(u, answer'[u])
    BY <1>3, AnswerParts DEF AnswerIsRight, IsTimely, Timely
  <2>1. CASE u = t
    BY <1>2, <2>1
  <2>2. CASE u # t
    BY <1>1, <1>2, <2>2, AnswerParts
  <2> QED
    BY <2>1, <2>2
<1> QED
  BY <1>4, <1>5, <1>6, <1>7, <1>8 DEF AnswerInv

\* A call of ntp_get_time begins.
LEMMA BeginAnswer ==
    ASSUME AnswerInv, TypeOK', NEW t \in Threads, MayRun(t), NtpBegin(t)
    PROVE  AnswerInv'
<1>1. TypeOK /\ BegunInv /\ InboxInv /\ PacketInv /\ OverlapInv /\ AnswerIsRight
  BY DEF AnswerInv
<1>2. /\ now \in Nat /\ now' = now /\ bootTime' = bootTime
      /\ begun \in [Threads -> Nat] /\ alone \in [Threads -> BOOLEAN]
      /\ DOMAIN pc = Threads /\ answer \in [Threads -> Int]
      /\ inbox \in [Threads -> Nat \cup {Asked}]
  BY <1>1 DEF TypeOK, NtpBegin
<1>3. begun' = [begun EXCEPT ![t] = now]
  BY DEF NtpBegin
<1>4. /\ alone'[t] <=> ~InCall(Other(t))
      /\ \A u \in Threads \ {t} : alone'[u] <=> alone[u] /\ ~InCall(u)
  BY Zenon DEF NtpBegin
<1>5. /\ answer'[t] = 0
      /\ pc'[t] # "convert"
      /\ ~(inbox'[t] > 0)
      /\ \A u \in Threads \ {t} :
             answer'[u] = answer[u] /\ inbox'[u] = inbox[u] /\ pc'[u] = pc[u]
  <2>1. CASE Return(t, 0)
    BY <1>1, <2>1, ReturnSteps DEF NoAnswer
  <2>2. CASE Goto(t, "send") /\ answer' = [answer EXCEPT ![t] = 0] /\ inbox' = inbox
    <3>1. ~(inbox[t] > 0)
      BY <1>1 DEF InboxInv, NtpBegin
    <3> QED
      BY <1>2, <2>2, <3>1 DEF Goto
  <2> QED
    BY <2>1, <2>2 DEF NtpBegin
<1>6. \A u \in Threads \ {t} : \A n : Timely(u, n)' <=> Timely(u, n)
  <2>1. \A u \in Threads \ {t} : begun'[u] = begun[u]
    BY <1>2, <1>3
  <2> QED
    BY <1>2, <2>1, SameTimes DEF Timely
<1>7. BegunInv'
  BY <1>1, <1>2, <1>3 DEF BegunInv
<1>8. InboxInv'
  BY <1>1, <1>5, <1>6 DEF InboxInv
<1>9. PacketInv' /\ OverlapInv'
  <2>1. CASE t = "sync"
    <3>1. Other(t) = "time" /\ "time" \in Threads \ {t} /\ pc'["time"] = pc["time"]
      BY <1>5, <2>1, AnswerParts DEF Other
    <3>2. alone'["sync"] => ~InCall("time")
      BY <1>4, <2>1, <3>1
    <3>3. pc["time"] # "convert"
      BY <2>1 DEF MayRun
    <3> QED
      BY <1>5, <2>1, <3>1, <3>2, <3>3, AnswerParts DEF PacketInv, OverlapInv, InCall
  <2>2. CASE t = "time"
    <3>1. "sync" \in Threads \ {t} /\ pc'["sync"] = pc["sync"]
      BY <1>5, <2>2, AnswerParts
    <3>2. alone'["sync"] => ~InCall("sync")
      BY <1>4, <3>1
    <3> QED
      BY <1>5, <2>2, <3>1, <3>2, AnswerParts DEF PacketInv, OverlapInv, InCall
  <2> QED
    BY <2>1, <2>2, AnswerParts
<1>10. AnswerIsRight'
  <2> SUFFICES ASSUME NEW u \in Threads, (u = "sync" => alone'[u]), answer'[u] # 0
               PROVE  Timely(u, answer[u])'
    BY DEF AnswerIsRight, IsTimely, Timely, Threads
  <2>1. u # t /\ answer[u] # 0 /\ (u = "sync" => alone[u])
    BY <1>4, <1>5
  <2>2. Timely(u, answer[u])
    BY <1>1, <2>1, AnswerParts
  <2> QED
    BY <1>5, <1>6, <2>1, <2>2 DEF Timely
<1> QED
  BY <1>7, <1>8, <1>9, <1>10 DEF AnswerInv

\* A request is sent, an answer arrives, or the call gives up.
LEMMA AskAnswer ==
    ASSUME AnswerInv, TypeOK', NEW t \in Threads,
           NtpSend(t) \/ NtpGivesUp(t) \/ NtpListen(t) \/ NtpAnswer(t) \/ NtpTimesOut(t)
    PROVE  AnswerInv'
<1>1. TypeOK /\ BegunInv /\ InboxInv /\ PacketInv /\ OverlapInv /\ AnswerIsRight
  BY DEF AnswerInv
<1>2. /\ UNCHANGED <<now, bootTime, begun, alone, packet>>
      /\ DOMAIN pc = Threads /\ inbox \in [Threads -> Nat \cup {Asked}]
      /\ ClockType /\ begun \in [Threads -> Nat] /\ now \in Nat
  BY <1>1, TypeParts DEF TypeOK, NtpSend, NtpGivesUp, NtpListen, NtpAnswer, NtpTimesOut,
                         ghosts
<1>3. CASE Return(t, 0)
  BY <1>2, <1>3, ReturnAnswer
<1>4. CASE /\ answer' = answer
           /\ inbox'[t] > 0 => inbox'[t] = inbox[t] \/ inbox'[t] = Utc
           /\ \A u \in Threads \ {t} : inbox'[u] = inbox[u]
           /\ InCall(t) /\ pc[t] # "convert"
           /\ pc'[t] \in {"sent", "receive"} /\ \A u \in Threads \ {t} : pc'[u] = pc[u]
  <2>1. Timely(t, Utc)
    BY <1>1, <1>2, UtcAtType DEF Timely, BegunInv
  <2>2. \A u, n : Timely(u, n)' <=> Timely(u, n)
    BY <1>2, SameTimes DEF Timely
  <2>3. BegunInv'
    BY <1>1, <1>2 DEF BegunInv
  <2>4. InboxInv'
    <3> SUFFICES ASSUME NEW u \in Threads, inbox'[u] > 0
                 PROVE  pc'[u] \in {"sent", "receive", "convert"} /\ Timely(u, inbox'[u])
      BY <2>2 DEF InboxInv
    <3>1. CASE u = t
      BY <1>1, <1>4, <2>1, <3>1 DEF InboxInv
    <3>2. CASE u # t
      BY <1>1, <1>4, <3>2 DEF InboxInv
    <3> QED
      BY <3>1, <3>2
  <2>5. PacketInv' /\ OverlapInv'
    <3>1. \A u \in Threads : /\ InCall(u)' <=> InCall(u)
                             /\ pc'[u] = "convert" <=> pc[u] = "convert"
      BY <1>4 DEF InCall
    <3> QED
      BY <1>1, <1>2, <2>2, <3>1, AnswerParts DEF PacketInv, OverlapInv
  <2>6. AnswerIsRight'
    BY <1>1, <1>2, <1>4, <2>2 DEF AnswerIsRight, IsTimely, Timely
  <2> QED
    BY <2>3, <2>4, <2>5, <2>6 DEF AnswerInv
<1>5. \/ Return(t, 0)
      \/ /\ answer' = answer
         /\ inbox'[t] > 0 => inbox'[t] = inbox[t] \/ inbox'[t] = Utc
         /\ \A u \in Threads \ {t} : inbox'[u] = inbox[u]
         /\ InCall(t) /\ pc[t] # "convert"
         /\ pc'[t] \in {"sent", "receive"} /\ \A u \in Threads \ {t} : pc'[u] = pc[u]
  <2>1. CASE NtpSend(t)
    BY <1>2, <2>1 DEF NtpSend, Goto, InCall, Asked
  <2>2. CASE NtpAnswer(t)
    BY <1>2, <2>2 DEF NtpAnswer, InCall
  <2>3. CASE NtpListen(t)
    BY <1>2, <2>3 DEF NtpListen, Goto, InCall
  <2>4. CASE NtpTimesOut(t) \/ NtpGivesUp(t)
    BY <2>4 DEF NtpTimesOut, NtpGivesUp
  <2> QED
    BY <2>1, <2>2, <2>3, <2>4
<1> QED
  BY <1>3, <1>4, <1>5

\* An answer is received or converted.
LEMMA ReceiveAnswer ==
    ASSUME AnswerInv, TypeOK', NEW t \in Threads, MayRun(t), NtpReceive(t) \/ NtpConvert(t)
    PROVE  AnswerInv'
<1>1. TypeOK /\ BegunInv /\ InboxInv /\ PacketInv /\ OverlapInv /\ AnswerIsRight
  BY DEF AnswerInv
<1>2. /\ UNCHANGED <<now, bootTime, begun, alone>>
      /\ DOMAIN pc = Threads /\ inbox \in [Threads -> Nat \cup {Asked}]
      /\ packet \in [kind : {"request", "net", "host"}, stamp : Nat]
  BY <1>1 DEF TypeOK, NtpReceive, NtpConvert, ghosts
<1>3. CASE NtpConvert(t)
  <2>1. pc[t] = "convert" /\ InCall(t)
    BY <1>3 DEF NtpConvert, InCall
  <2>2. CASE Return(t, 0)
    BY <1>2, <2>1, <2>2, ReturnAnswer
  <2>3. CASE \E time \in Converted(packet) : Return(t, time)
    <3>1. PICK time \in Converted(packet) : Return(t, time)
      BY <2>3
    <3>2. time \in Int
      BY <1>2, ConvertedType
    <3>3. CASE t = "sync" => alone[t]
      <4>1. time = packet.stamp /\ Timely(t, packet.stamp)
        BY <1>1, <2>1, <3>3 DEF PacketInv, Converted
      <4> QED
        BY <1>2, <2>1, <3>1, <3>2, <4>1, ReturnAnswer
    <3> QED
      BY <1>2, <2>1, <3>1, <3>2, <3>3, ReturnAnswer
  <2> QED
    BY <1>3, <2>2, <2>3 DEF NtpConvert
<1>4. CASE NtpReceive(t)
  <2>1. /\ pc[t] = "receive" /\ inbox[t] > 0 /\ InCall(t)
        /\ packet' = NetPacket(inbox[t]) /\ answer' = answer /\ inbox' = inbox
        /\ pc'[t] = "convert" /\ \A u \in Threads \ {t} : pc'[u] = pc[u]
    BY <1>2, <1>4 DEF NtpReceive, Goto, InCall
  <2>2. \A u, n : Timely(u, n)' <=> Timely(u, n)
    BY <1>2, SameTimes DEF Timely
  <2>3. Timely(t, inbox[t])
    BY <1>1, <2>1 DEF InboxInv
  <2>4. BegunInv'
    BY <1>1, <1>2 DEF BegunInv
  <2>5. InboxInv'
    BY <1>1, <2>1, <2>2 DEF InboxInv
  <2>6. PacketInv'
    <3>1. packet'.kind = "net" /\ packet'.stamp = inbox[t]
      BY <2>1 DEF NetPacket
    <3>2. \A u \in Threads \ {t} : ~(pc[u] = "convert" /\ (u = "sync" => alone[u]))
      BY <1>1, <2>1, AnswerParts DEF OverlapInv, InCall, MayRun
    <3> QED
      BY <1>2, <2>1, <2>2, <2>3, <3>1, <3>2 DEF PacketInv
  <2>7. OverlapInv'
    BY <1>1, <1>2, <2>1, AnswerParts DEF OverlapInv, InCall
  <2>8. AnswerIsRight'
    BY <1>1, <1>2, <2>1, <2>2 DEF AnswerIsRight, IsTimely, Timely
  <2> QED
    BY <2>4, <2>5, <2>6, <2>7, <2>8 DEF AnswerInv
<1> QED
  BY <1>3, <1>4

\* The steps outside ntp_get_time: a thread that sets the clock forgets its
\* answer in the end.
LEMMA SetAnswer ==
    ASSUME AnswerInv, TypeOK',
           \/ TimeSet \/ SyncWake \/ SetTimeRead \/ SetTimeWrite \/ SetDateRead
           \/ SetDateWrite
    PROVE  AnswerInv'
<1>1. TypeOK /\ BegunInv /\ InboxInv /\ PacketInv /\ OverlapInv /\ AnswerIsRight
  BY DEF AnswerInv
<1>2. /\ UNCHANGED <<now, bootTime, packet, inbox>>
      /\ now \in Nat
      /\ DOMAIN pc = Threads /\ answer \in [Threads -> Int]
      /\ begun \in [Threads -> Nat] /\ alone \in [Threads -> BOOLEAN]
  BY <1>1 DEF TypeOK, TimeSet, SyncWake, SetTimeRead, SetTimeWrite, SetDateRead,
              SetDateWrite, network
<1>3. PICK t \in Threads :
         /\ ~InCall(t) /\ ~InCall(t)'
         /\ \A u \in Threads \ {t} : pc'[u] = pc[u]
         /\ Forget(t) \/ UNCHANGED <<answer, begun, alone>>
  <2>1. CASE TimeSet
    BY <1>2, <2>1, AnswerParts DEF TimeSet, Goto, InCall
  <2>2. CASE SetDateWrite
    BY <1>2, <2>2, AnswerParts DEF SetDateWrite, Goto, InCall
  <2>3. CASE SyncWake
    BY <1>2, <2>3, AnswerParts DEF SyncWake, Goto, InCall, network, ghosts
  <2>4. CASE SetTimeRead
    BY <1>2, <2>4, AnswerParts DEF SetTimeRead, Goto, InCall, network, ghosts
  <2>5. CASE SetTimeWrite
    BY <1>2, <2>5, AnswerParts DEF SetTimeWrite, Goto, InCall, network
  <2>6. CASE SetDateRead
    BY <1>2, <2>6, AnswerParts DEF SetDateRead, Goto, InCall, network
  <2> QED
    BY <2>1, <2>2, <2>3, <2>4, <2>5, <2>6
<1>4. \A u \in Threads \ {t} :
         answer'[u] = answer[u] /\ begun'[u] = begun[u] /\ (alone'[u] <=> alone[u])
  BY <1>2, <1>3 DEF Forget
<1>5. \/ answer'[t] = 0 /\ begun'[t] = 0
      \/ UNCHANGED <<answer, begun, alone>>
  BY <1>2, <1>3 DEF Forget
<1>6. \A u \in Threads : begun'[u] = begun[u] => \A n : Timely(u, n)' <=> Timely(u, n)
  BY <1>2, SameTimes DEF Timely
<1>7. BegunInv'
  BY <1>1, <1>2, <1>4, <1>5 DEF BegunInv
<1>8. InboxInv'
  <2> SUFFICES ASSUME NEW u \in Threads, inbox[u] > 0
               PROVE  pc'[u] \in {"sent", "receive", "convert"} /\ Timely(u, inbox[u])'
    BY <1>2 DEF InboxInv
  <2>1. pc[u] \in {"sent", "receive", "convert"} /\ Timely(u, inbox[u])
    BY <1>1 DEF InboxInv
  <2>2. u # t /\ begun'[u] = begun[u] /\ pc'[u] = pc[u]
    BY <1>3, <1>4, <2>1 DEF InCall
  <2> QED
    BY <1>2, <1>6, <2>1, <2>2 DEF Timely
<1>9. PacketInv'
  <2> SUFFICES ASSUME NEW u \in Threads, pc'[u] = "convert", (u = "sync" => alone'[u])
               PROVE  packet.kind = "net" /\ Timely(u, packet.stamp)'
    BY <1>2 DEF PacketInv
  <2>1. /\ u # t /\ pc[u] = "convert" /\ begun'[u] = begun[u]
        /\ (u = "sync" => alone[u])
    BY <1>3, <1>4 DEF InCall
  <2>2. packet.kind = "net" /\ Timely(u, packet.stamp)
    BY <1>1, <2>1 DEF PacketInv
  <2> QED
    BY <1>2, <1>6, <2>1, <2>2 DEF Timely
<1>11. OverlapInv'
  BY <1>1, <1>3, <1>4, AnswerParts DEF OverlapInv, InCall
<1>10. AnswerIsRight'
  <2> SUFFICES ASSUME NEW u \in Threads, (u = "sync" => alone'[u]), answer'[u] # 0
               PROVE  Timely(u, answer[u])'
    BY DEF AnswerIsRight, IsTimely, Timely, Threads
  <2>1. /\ answer'[u] = answer[u] /\ begun'[u] = begun[u]
        /\ (u = "sync" => alone[u])
    BY <1>4, <1>5
  <2>2. Timely(u, answer[u])
    BY <1>1, <2>1, AnswerParts
  <2> QED
    BY <1>6, <2>1, <2>2 DEF Timely
<1> QED
  BY <1>7, <1>8, <1>9, <1>10, <1>11 DEF AnswerInv

\* Time goes on.
LEMMA TickAnswer ==
    ASSUME AnswerInv, TypeOK', Tick \/ UNCHANGED vars
    PROVE  AnswerInv'
<1>1. TypeOK /\ BegunInv /\ InboxInv /\ PacketInv /\ OverlapInv /\ AnswerIsRight
  BY DEF AnswerInv
<1>2. UNCHANGED <<bootTime, packet, pc, inbox, answer, begun, alone>>
      /\ now' \in {now, now + 1}
  BY DEF Tick, vars, network, ghosts
<1>3. /\ now \in Nat /\ begun \in [Threads -> Nat] /\ inbox \in [Threads -> Nat \cup {Asked}]
      /\ answer \in [Threads -> Int]
      /\ packet \in [kind : {"request", "net", "host"}, stamp : Nat]
  BY <1>1 DEF TypeOK
<1>4. \A u \in Threads : \A n \in Int : Timely(u, n) => Timely(u, n)'
  BY <1>1, <1>2, TimelyKept
<1>5. BegunInv'
  BY <1>1, <1>2, <1>3 DEF BegunInv
<1>6. InboxInv'
  <2> SUFFICES ASSUME NEW u \in Threads, inbox[u] > 0
               PROVE  pc[u] \in {"sent", "receive", "convert"} /\ Timely(u, inbox[u])'
    BY <1>2 DEF InboxInv
  <2>1. /\ pc[u] \in {"sent", "receive", "convert"}
        /\ Timely(u, inbox[u]) /\ inbox[u] \in Int
    BY <1>1, <1>3 DEF InboxInv, Asked
  <2> QED
    BY <1>2, <1>4, <2>1 DEF Timely
<1>7. PacketInv'
  <2> SUFFICES ASSUME NEW u \in Threads, pc[u] = "convert", (u = "sync" => alone[u])
               PROVE  packet.kind = "net" /\ Timely(u, packet.stamp)'
    BY <1>2 DEF PacketInv
  <2>1. packet.kind = "net" /\ Timely(u, packet.stamp) /\ packet.stamp \in Int
    BY <1>1, <1>3 DEF PacketInv
  <2> QED
    BY <1>2, <1>4, <2>1 DEF Timely
<1>8. OverlapInv'
  BY <1>1, <1>2 DEF OverlapInv, InCall
<1>9. AnswerIsRight'
  <2> SUFFICES ASSUME NEW u \in Threads, (u = "sync" => alone'[u]), answer'[u] # 0
               PROVE  Timely(u, answer[u])'
    BY DEF AnswerIsRight, IsTimely, Timely, Threads
  <2>1. Timely(u, answer[u]) /\ answer[u] \in Int
    BY <1>1, <1>2, <1>3, AnswerParts
  <2> QED
    BY <1>2, <1>4, <2>1 DEF Timely
<1> QED
  BY <1>5, <1>6, <1>7, <1>8, <1>9 DEF AnswerInv

\* AnswerInv is inductive.
LEMMA AnswerStep == AnswerInv /\ [Next]_vars => AnswerInv'
<1> SUFFICES ASSUME AnswerInv, [Next]_vars PROVE AnswerInv'
  OBVIOUS
<1>1. TypeOK'
  BY NtpTypes, ReceiveTypes, SetTypes, TickTypes DEF Next, NtpStep, SyncStep, AnswerInv
<1> QED
  BY <1>1, BeginAnswer, AskAnswer, ReceiveAnswer, SetAnswer, TickAnswer
     DEF Next, NtpStep, SyncStep

(***************************************************************************)
(* ntp_get_time answers with 0 or with a time a server stamped since the   *)
(* call: the time thread always, the synchronisation thread unless the two *)
(* calls overlap and share the static packet.                              *)
(***************************************************************************)
THEOREM SyncAnswerIsRight == Spec => []AnswerIsRight
<1>1. AnswerInv => AnswerIsRight
  BY DEF AnswerInv
<1> QED
  BY <1>1, InitAnswer, AnswerStep, PTL DEF Spec

-----------------------------------------------------------------------------
(***************************************************************************)
(* How wrong the clock can be.  First the arithmetic: what rounding to     *)
(* seconds, the wrap of the tick and the parts of a day can add up to.     *)
(***************************************************************************)

\* rt_tick_get() - init_tick at tick n.
TicksAt(n) == (n - init_tick) % TickMod

\* Ticks and laps of the tick counter make up the time.
LEMMA LapsTicks ==
    ASSUME init_tick \in Nat, NEW n \in Int
    PROVE  /\ Laps(n) \in Int
           /\ TicksAt(n) \in Nat
           /\ TicksAt(n) < TickMod
           /\ n - init_tick = Laps(n) * TickMod + TicksAt(n)
           /\ Laps(n) * TickMod \in Int
<1>1. n - init_tick \in Int
  OBVIOUS
<1> QED
  BY <1>1, Division, TickModType DEF Laps, TicksAt

\* The ticks from m to n are whole laps and the difference of the counters.
LEMMA LapsBetween ==
    ASSUME init_tick \in Nat, NEW m \in Int, NEW n \in Int
    PROVE  /\ (Laps(n) - Laps(m)) * TickMod \in Int
           /\ n = m + (Laps(n) - Laps(m)) * TickMod + TicksAt(n) - TicksAt(m)
<1> DEFINE ln == Laps(n)
           lm == Laps(m)
<1>1. /\ ln \in Int /\ lm \in Int /\ TicksAt(n) \in Int /\ TicksAt(m) \in Int
      /\ n - init_tick = ln * TickMod + TicksAt(n)
      /\ m - init_tick = lm * TickMod + TicksAt(m)
  BY LapsTicks
<1>2. TickMod \in Int
  BY TickModType
<1> HIDE DEF ln, lm
<1>3. (ln - lm) * TickMod = ln * TickMod - lm * TickMod /\ (ln - lm) * TickMod \in Int
      /\ ln * TickMod \in Int /\ lm * TickMod \in Int
  BY <1>1, <1>2
<1> DEFINE pn == ln * TickMod
           pm == lm * TickMod
           p == (ln - lm) * TickMod
<1>4. /\ p = pn - pm /\ p \in Int /\ pn \in Int /\ pm \in Int
      /\ n - init_tick = pn + TicksAt(n) /\ m - init_tick = pm + TicksAt(m)
      /\ TicksAt(n) \in Int /\ TicksAt(m) \in Int /\ init_tick \in Int
  BY <1>1, <1>3
<1> HIDE DEF pn, pm, p
<1>5. n = m + p + TicksAt(n) - TicksAt(m)
  BY <1>4
<1> QED
  BY <1>3, <1>5 DEF ln, lm, p

\* Laps do not run backwards; two ticks of different laps are at least a lap
\* of the counter apart.
LEMMA LapsGrow ==
    ASSUME init_tick \in Nat, NEW m \in Int, NEW n \in Int, m <= n
    PROVE  \/ Laps(n) = Laps(m) /\ TicksAt(m) <= TicksAt(n)
           \/ (Laps(n) - Laps(m)) * TickMod >= TickMod
<1> DEFINE d == Laps(n) - Laps(m)
<1>1. /\ d \in Int /\ d * TickMod \in Int
      /\ TicksAt(n) \in Nat /\ TicksAt(m) \in Nat
      /\ TicksAt(n) < TickMod /\ TicksAt(m) < TickMod
      /\ Laps(n) \in Int /\ Laps(m) \in Int
  BY LapsTicks, LapsBetween
<1>2. n = m + d * TickMod + TicksAt(n) - TicksAt(m)
  BY LapsBetween
<1>3. Laps(n) = Laps(m) <=> d = 0
  BY <1>1
<1> HIDE DEF d
<1>4. d * TickMod > -TickMod
  BY <1>1, <1>2, TickModType
<1>5. (-1) * TickMod < d * TickMod
  BY <1>1, <1>4, TickModType
<1>6. -1 < d
  BY <1>1, <1>5, TimesLess, TickModType
<1>7. CASE d = 0
  BY <1>1, <1>2, <1>3, <1>7, TickModType
<1>8. CASE d >= 1
  <2>1. 1 * TickMod <= d * TickMod
    BY <1>1, <1>8, TimesMonotone, TickModType
  <2> QED
    BY <1>1, <2>1, TickModType DEF d
<1> QED
  BY <1>1, <1>6, <1>7, <1>8

\* A number of seconds between multiples of a second.
LEMMA SecondsBetween ==
    ASSUME NEW q \in Int, NEW x \in Int, x = q * TicksPerSecond,
           -2 * TicksPerSecond < x, x < 3 * TicksPerSecond
    PROVE  q \in -1 .. 2
<1>1. (-2) * TicksPerSecond < q * TicksPerSecond /\ q * TicksPerSecond < 3 * TicksPerSecond
  BY UnitsAssumption
<1>2. -2 < q
  BY <1>1, TimesLess, UnitsAssumption
<1>3. q < 3
  BY <1>1, TimesLess, UnitsAssumption
<1> QED
  BY <1>2, <1>3

\* Rounding the parts of a time, one by one and together, differs by a second
\* or two.
LEMMA Rounding ==
    ASSUME NEW a \in Int, NEW k \in Int, NEW s \in Int, NEW n \in Int
    PROVE  Seconds(a + k + n - s) - Seconds(a) + Seconds(s) - Seconds(n) - Seconds(k)
              \in -1 .. 2
<1> DEFINE b == a + k + n - s
           sb == Seconds(b)
           sa == Seconds(a)
           ss == Seconds(s)
           sn == Seconds(n)
           sk == Seconds(k)
           q == sb - sa + ss - sn - sk
           T == TicksPerSecond
<1>1. b \in Int /\ T \in Nat \ {0} /\ b = a + k + n - s
  BY UnitsAssumption
<1>2. /\ sb \in Int /\ sb * T \in Int /\ sb * T <= b /\ b < sb * T + T
      /\ sa \in Int /\ sa * T \in Int /\ sa * T <= a /\ a < sa * T + T
      /\ ss \in Int /\ ss * T \in Int /\ ss * T <= s /\ s < ss * T + T
      /\ sn \in Int /\ sn * T \in Int /\ sn * T <= n /\ n < sn * T + T
      /\ sk \in Int /\ sk * T \in Int /\ sk * T <= k /\ k < sk * T + T
  BY <1>1, SecondsFloor
<1>3. q = sb - sa + ss - sn - sk /\ q \in Int
  BY <1>2
<1> HIDE DEF b, sb, sa, ss, sn, sk, T, q
<1> DEFINE x == sb * T - sa * T + ss * T - sn * T - sk * T
<1>4. x \in Int /\ x = q * T
  BY <1>1, <1>2, <1>3
<1>5. -2 * T < x /\ x < 3 * T
  BY <1>1, <1>2
<1> HIDE DEF x
<1>6. q \in -1 .. 2
  BY <1>3, <1>4, <1>5, SecondsBetween DEF T
<1> QED
  BY <1>6 DEF q, b, sb, sa, ss, sn, sk

\* Rounding a sum down loses nothing the parts keep.
LEMMA SecondsOfSum ==
    ASSUME NEW m \in Int, NEW n \in Int
    PROVE  Seconds(m) + Seconds(n) <= Seconds(m + n)
<1> DEFINE sm == Seconds(m)
           sn == Seconds(n)
           s == Seconds(m + n)
           T == TicksPerSecond
<1>1. T \in Nat \ {0} /\ m + n \in Int
  BY UnitsAssumption
<1>2. /\ sm \in Int /\ sm * T \in Int /\ sm * T <= m
      /\ sn \in Int /\ sn * T \in Int /\ sn * T <= n
      /\ s \in Int /\ s * T \in Int /\ m + n < s * T + T
  BY <1>1, SecondsFloor
<1> HIDE DEF sm, sn, s, T
<1>3. (sm + sn) * T < (s + 1) * T
  <2>1. (sm + sn) * T = sm * T + sn * T /\ (s + 1) * T = s * T + T
    BY <1>1, <1>2
  <2> QED
    BY <1>1, <1>2, <2>1
<1>4. sm + sn < s + 1
  BY <1>1, <1>2, <1>3, TimesLess
<1> QED
  BY <1>2, <1>4 DEF sm, sn, s

\* The clock was set to v at tick a.  How far it is behind, wraps apart, is
\* what it was behind then, up to rounding.
LEMMA Drift ==
    ASSUME ClockType, NEW a \in Nat, NEW v \in Int, init_time = v - Seconds(TicksAt(a))
    PROVE  Utc - Shown - Seconds((Laps(now) - Laps(a)) * TickMod)
              \in (UtcAt(a) - v - 1) .. (UtcAt(a) - v + 2)
<1> DEFINE k == (Laps(now) - Laps(a)) * TickMod
           q == Seconds(now) - Seconds(a) + Seconds(TicksAt(a)) - Seconds(TicksAt(now))
                  - Seconds(k)
<1>1. now \in Int /\ init_tick \in Nat /\ bootTime \in Int /\ a \in Int
  BY TimesType
<1>2. k \in Int /\ now = a + k + TicksAt(now) - TicksAt(a)
  BY <1>1, LapsBetween
<1>3. TicksAt(now) \in Int /\ TicksAt(a) \in Int
  BY <1>1, LapsTicks
<1>4. Shown = init_time + Seconds(TicksAt(now))
  BY DEF Shown, TicksSince, TicksAt
<1> HIDE DEF k
<1>5. q \in -1 .. 2
  BY <1>2, <1>3, Rounding
<1>6. /\ Seconds(now) \in Int /\ Seconds(a) \in Int /\ Seconds(TicksAt(a)) \in Int
      /\ Seconds(TicksAt(now)) \in Int /\ Seconds(k) \in Int
  BY <1>1, <1>2, <1>3, SecondsFloor
<1>7. Utc - Shown - Seconds(k) = UtcAt(a) - v + q
  BY <1>1, <1>4, <1>6 DEF Utc, UtcAt
<1>8. UtcAt(a) \in Int
  BY <1>1, <1>6 DEF UtcAt
<1>9. Utc - Shown - Seconds(k) \in (UtcAt(a) - v - 1) .. (UtcAt(a) - v + 2)
  <2> HIDE DEF q
  <2> QED
    BY <1>5, <1>7, <1>8
<1> QED
  BY <1>9 DEF k

\* A time v that the clock may be set to at tick n: not before the time a of
\* the answer, and no later than an answer stamped at a tick w allows that
\* has been carried on by the clock from w to r.
Fits(a, v, n) ==
    /\ a <= v
    /\ \E r \in 0 .. n : \E w \in 0 .. r :
          /\ Laps(w) = Laps(r)
          /\ v <= UtcAt(w) + Zone + Seconds(TicksAt(r)) - Seconds(TicksAt(w))

\* Such a time does not run ahead: the seconds that the clock counted from w
\* to r are made up for by the rounding of the seconds from r on.
LEMMA NotAhead ==
    ASSUME init_tick \in Nat, NEW n \in Nat, NEW a \in 0 .. n, NEW r \in 0 .. a,
           NEW w \in 0 .. r, Laps(w) = Laps(r)
    PROVE  Seconds(n) - Seconds(w) - Seconds(TicksAt(r)) + Seconds(TicksAt(w))
             + Seconds(TicksAt(a)) - Seconds(TicksAt(n))
             - Seconds((Laps(n) - Laps(a)) * TickMod) >= -1
<1> DEFINE k == (Laps(n) - Laps(a)) * TickMod
           j == (Laps(a) - Laps(r)) * TickMod
           tn == TicksAt(n)
           ta == TicksAt(a)
           tr == TicksAt(r)
           tw == TicksAt(w)
           x == w + k + tn - tw
<1>1. /\ tn \in Nat /\ ta \in Nat /\ tr \in Nat /\ tw \in Nat /\ tr < TickMod
      /\ w \in Int /\ r \in Int /\ a \in Int /\ n \in Int /\ r <= a
  BY LapsTicks
<1>2. /\ k \in Int /\ n = a + k + tn - ta
      /\ j \in Int /\ a = r + j + ta - tr
  BY <1>1, LapsBetween
<1>3. r = w + tr - tw
  <2>1. r = w + (Laps(r) - Laps(w)) * TickMod + tr - tw
    BY <1>1, LapsBetween
  <2>2. Laps(r) - Laps(w) = 0
    BY <1>1, LapsTicks
  <2> QED
    BY <1>1, <2>1, <2>2, TickModType
<1>4. (j = 0 /\ tr <= ta) \/ j >= TickMod
  <2>1. (Laps(a) = Laps(r) /\ tr <= ta) \/ j >= TickMod
    BY <1>1, LapsGrow
  <2>2. Laps(a) = Laps(r) => j = 0
    <3>1. Laps(a) = Laps(r) => Laps(a) - Laps(r) = 0
      BY <1>1, LapsTicks
    <3> QED
      BY <3>1, TickModType
  <2> QED
    BY <2>1, <2>2
<1> HIDE DEF k, j, tn, ta, tr, tw
<1>5. x \in Int /\ n = x + j
  BY <1>1, <1>2, <1>3
<1>6. Seconds(x) - Seconds(w) + Seconds(tw) - Seconds(tn) - Seconds(k) \in -1 .. 2
  BY <1>1, <1>2, Rounding
<1> HIDE DEF x
<1>7. Seconds(x) + Seconds(tr) <= Seconds(n) + Seconds(ta)
  <2>1. CASE j = 0 /\ tr <= ta
    <3>1. Seconds(tr) <= Seconds(ta)
      BY <1>1, <2>1, SecondsMonotone
    <3>2. n = x
      BY <1>5, <2>1
    <3> QED
      BY <1>1, <1>5, <3>1, <3>2, SecondsFloor
  <2>2. CASE j >= TickMod
    <3>1. x + tr \in Int /\ x + tr <= n
      BY <1>1, <1>2, <1>5, <2>2, TickModType
    <3>2. Seconds(x + tr) <= Seconds(n) /\ Seconds(x) + Seconds(tr) <= Seconds(x + tr)
      BY <1>1, <1>5, <3>1, SecondsMonotone, SecondsOfSum
    <3>3. Seconds(ta) \in Nat
      BY <1>1, SecondsNat
    <3>4. /\ Seconds(x) \in Int /\ Seconds(tr) \in Int /\ Seconds(n) \in Int
          /\ Seconds(x + tr) \in Int
      BY <1>1, <1>5, <3>1, SecondsFloor
    <3> QED
      BY <3>2, <3>3, <3>4
  <2> QED
    BY <1>4, <2>1, <2>2
<1>8. /\ Seconds(n) \in Int /\ Seconds(w) \in Int /\ Seconds(tr) \in Int /\ Seconds(tw) \in Int
      /\ Seconds(ta) \in Int /\ Seconds(tn) \in Int /\ Seconds(k) \in Int /\ Seconds(x) \in Int
  BY <1>1, <1>2, <1>5, SecondsFloor
<1>9. Seconds(n) - Seconds(w) - Seconds(tr) + Seconds(tw) + Seconds(ta) - Seconds(tn)
        - Seconds(k) >= -1
  BY <1>6, <1>7, <1>8
<1> QED
  BY <1>9 DEF k, tn, ta, tr, tw

\* The clock was set to v - c at tick a, and v fits an answer t: with c added
\* to the clock, it is behind by no more than the time since the answer.
LEMMA FitsLag ==
    ASSUME ClockType, NEW a \in 0 .. now, NEW v \in Int, NEW c \in Int, NEW t \in Int,
           init_time = v - c - Seconds(TicksAt(a)), Fits(t, v, a)
    PROVE  Local - Shown - Seconds((Laps(now) - Laps(a)) * TickMod) - c
              \in -1 .. (UtcAt(a) + Zone - t + 2)
<1> DEFINE k == (Laps(now) - Laps(a)) * TickMod
           lag == Local - Shown - Seconds(k) - c
<1>1. /\ now \in Nat /\ init_tick \in Nat /\ bootTime \in Int /\ a \in Nat /\ Zone \in Int
      /\ now \in Int /\ a \in Int /\ Utc \in Int /\ Shown \in Int
      /\ UtcAt(a) \in Int /\ v - c \in Int
  BY TimesType, UtcAtType, TimesAssumption DEF ClockType
<1>2. k \in Int
  BY <1>1, LapsBetween
<1>3. Seconds(k) \in Int
  BY <1>2, SecondsFloor
<1>4. Utc - Shown - Seconds(k) \in (UtcAt(a) - (v - c) - 1) .. (UtcAt(a) - (v - c) + 2)
  BY <1>1, Drift
<1>5. lag = Utc + Zone - Shown - Seconds(k) - c /\ lag \in Int
  BY <1>1, <1>3 DEF Local
<1>6. lag <= UtcAt(a) + Zone - t + 2
  <2>1. t <= v
    BY DEF Fits
  <2> QED
    BY <1>1, <1>3, <1>4, <1>5, <2>1
<1>7. lag >= -1
  <2>1. PICK r \in 0 .. a : \E w \in 0 .. r :
          /\ Laps(w) = Laps(r)
          /\ v <= UtcAt(w) + Zone + Seconds(TicksAt(r)) - Seconds(TicksAt(w))
    BY DEF Fits
  <2>2. PICK w \in 0 .. r :
          /\ Laps(w) = Laps(r)
          /\ v <= UtcAt(w) + Zone + Seconds(TicksAt(r)) - Seconds(TicksAt(w))
    BY <2>1
  <2>3. Seconds(now) - Seconds(w) - Seconds(TicksAt(r)) + Seconds(TicksAt(w))
             + Seconds(TicksAt(a)) - Seconds(TicksAt(now)) - Seconds(k) >= -1
    BY <1>1, <2>2, NotAhead
  <2>4. Shown = v - c - Seconds(TicksAt(a)) + Seconds(TicksAt(now))
    BY DEF Shown, TicksSince, TicksAt
  <2>5. /\ r \in Int /\ w \in Int
        /\ TicksAt(r) \in Int /\ TicksAt(w) \in Int /\ TicksAt(a) \in Int
        /\ TicksAt(now) \in Int
    BY <1>1, LapsTicks
  <2>6. /\ Seconds(now) \in Int /\ Seconds(w) \in Int /\ Seconds(TicksAt(r)) \in Int
        /\ Seconds(TicksAt(w)) \in Int /\ Seconds(TicksAt(a)) \in Int
        /\ Seconds(TicksAt(now)) \in Int
    BY <1>1, <2>5, SecondsFloor
  <2>7. Utc = bootTime + Seconds(now) /\ UtcAt(w) = bootTime + Seconds(w)
    BY DEF Utc, UtcAt
  <2> HIDE DEF k, lag
  <2> QED
    BY <1>1, <1>3, <1>5, <2>2, <2>3, <2>4, <2>6, <2>7
<1>8. lag \in -1 .. (UtcAt(a) + Zone - t + 2)
  <2> HIDE DEF lag
  <2> QED
    BY <1>1, <1>5, <1>6, <1>7
<1> QED
  BY <1>8

\* The time of day of a time that is not negative.
LEMMA DayParts ==
    ASSUME NEW t \in Nat
    PROVE  /\ TimeOfDay(t) \in Nat
           /\ TimeOfDay(t) < DayLength
           /\ t = DayOf(t) * DayLength + TimeOfDay(t)
           /\ DayOf(t) \in Int /\ DayOf(t) * DayLength \in Int
<1>1. DayOf(t) = t \div DayLength
  BY DEF DayOf, TruncDiv
<1>2. t \in Int /\ DayLength \in Nat \ {0}
  BY UnitsAssumption
<1> DEFINE q == t \div DayLength
           m == t % DayLength
<1>3. q \in Int /\ q * DayLength \in Int /\ m \in Nat /\ m < DayLength /\ t = q * DayLength + m
  BY <1>2, Division
<1>4. TimeOfDay(t) = t - q * DayLength
  BY <1>1 DEF TimeOfDay
<1> HIDE DEF q, m
<1>5. TimeOfDay(t) = m
  BY <1>2, <1>3, <1>4
<1> QED
  BY <1>1, <1>3, <1>5 DEF q

\* set_time left the time of day of the answer t on the clock, which then went
\* on for e seconds to s; set_date puts the date of t to the time of day of s.
\* The result v, or a day more, lies between t and t + e; v itself does if
\* t + e is on the day of t.
LEMMA DaySet ==
    ASSUME NEW t \in Nat, NEW e \in Nat, NEW k \in Int, NEW s \in Nat,
           s = k * DayLength + TimeOfDay(t) + e,
           NEW v, v = DayOf(t) * DayLength + TimeOfDay(s)
    PROVE  /\ v \in Int
           /\ \/ t <= v /\ v <= t + e
              \/ t <= v + DayLength /\ v + DayLength <= t + e
           /\ t + e < DayOf(t) * DayLength + DayLength => t <= v /\ v <= t + e
<1> DEFINE D == DayLength
           a == TimeOfDay(t)
           x == TimeOfDay(s)
           j == DayOf(s) - k
           dt == DayOf(t) * D
           ds == DayOf(s) * D
           kd == k * D
           jd == j * D
<1>1. D \in Nat \ {0} /\ dt \in Int /\ a \in Nat /\ a < D /\ t = dt + a
  BY DayParts, UnitsAssumption
<1>2. x \in Nat /\ x < D /\ s = ds + x /\ ds \in Int /\ DayOf(s) \in Int
  BY DayParts
<1>3. j \in Int /\ jd = ds - kd /\ jd \in Int /\ kd \in Int
  BY <1>1, <1>2
<1>4. s = kd + a + e /\ v = dt + x
  BY DEF a, x
<1> HIDE DEF D, a, x, dt, ds, kd
<1>5. jd = a + e - x
  <2> HIDE DEF jd
  <2> QED
    BY <1>1, <1>2, <1>3, <1>4
<1> HIDE DEF j
<1>6. -1 < j
  <2>1. (-1) * D < jd
    BY <1>1, <1>2, <1>3, <1>5
  <2> QED
    BY <1>1, <1>3, <2>1, TimesLess
<1>7. j = 0 => jd = 0
  BY <1>1
<1>8. j >= 1 => jd >= D
  <2> SUFFICES ASSUME j >= 1 PROVE jd >= D
    OBVIOUS
  <2>1. 1 * D <= j * D
    BY <1>1, <1>3, TimesMonotone
  <2> QED
    BY <1>1, <1>3, <2>1
<1> HIDE DEF jd
<1>9. CASE j = 0
  BY <1>1, <1>2, <1>4, <1>5, <1>7, <1>9
<1>10. CASE j >= 1
  <2>1. x + D <= a + e
    BY <1>1, <1>2, <1>3, <1>5, <1>8, <1>10
  <2>2. v \in Int /\ t <= v + D /\ v + D <= t + e
    BY <1>1, <1>2, <1>4, <2>1
  <2>3. ~(t + e < dt + D)
    BY <1>1, <1>2, <2>1
  <2> QED
    BY <2>2, <2>3 DEF D, dt
<1> QED
  BY <1>3, <1>6, <1>9, <1>10 DEF D, dt

(***************************************************************************)
(* The invariant: what is on the clock, and what is about to be, by the    *)
(* step the synchronisation thread has come to.                            *)
(***************************************************************************)
WithTimeOfDay(v, a) == \E k \in Int : v = k * DayLength + TimeOfDay(a)

DayFits(a, v, n, lost) ==
    /\ Fits(a, v, n) \/ Fits(a, v + DayLength, n)
    /\ lost \/ Fits(a, v, n)

SourceInv == source.at <= now

UtcInv ==
    source.kind = "utc" =>
       /\ init_time = source.time - Seconds(TicksAt(source.at))
       /\ source.time <= UtcAt(source.at)

WriteTimeInv ==
    pc["sync"] = "write_time" => WithTimeOfDay(tm_new, LocalAnswer)

HalfInv ==
    pc["sync"] = "set_date" /\ ~halfway.torn =>
       /\ WithTimeOfDay(init_time + Seconds(TicksAt(source.at)), LocalAnswer)
       /\ alone["sync"] => LocalAnswer \in Nat /\ LocalAnswer <= UtcAt(source.at) + Zone

DateInv ==
    pc["sync"] = "write_date" /\ ~halfway.torn /\ alone["sync"] =>
       DayFits(LocalAnswer, tm_new, now, halfway.dayLost)

LocalInv ==
    source.kind = "local" =>
       DayFits(source.time, init_time + Seconds(TicksAt(source.at)), source.at, source.dayLost)

LagInv ==
    /\ AnswerInv
    /\ SourceInv
    /\ UtcInv
    /\ WriteTimeInv
    /\ HalfInv
    /\ DateInv
    /\ LocalInv

\* The types the arithmetic needs.
LEMMA LagTypes ==
    ASSUME TypeOK
    PROVE  /\ ClockType /\ now \in Nat /\ init_tick \in Nat /\ init_time \in Int
           /\ tm_new \in Int /\ LocalAnswer \in Int /\ Zone \in Nat
           /\ source.at \in Nat /\ source.time \in Int
           /\ DayLength \in Nat \ {0}
           /\ \A n \in Nat : TicksAt(n) \in Nat /\ Seconds(TicksAt(n)) \in Nat
           /\ \A n \in Nat : UtcAt(n) \in Nat
<1>1. /\ ClockType /\ now \in Nat /\ init_tick \in Nat /\ init_time \in Int
      /\ tm_new \in Int /\ source.at \in Nat /\ source.time \in Int
  BY TypeParts, TimesAssumption DEF ClockType, GhostType
<1>2. LocalAnswer \in Int /\ Zone \in Nat /\ DayLength \in Nat \ {0}
  BY TypeParts, LocalAnswerType, TimesAssumption, UnitsAssumption
<1>3. \A n \in Nat : TicksAt(n) \in Nat
  BY <1>1, LapsTicks
<1>4. \A n \in Nat : Seconds(TicksAt(n)) \in Nat
  BY <1>3, SecondsNat
<1>5. \A n \in Nat : UtcAt(n) \in Nat
  BY <1>1, UtcAtType
<1> QED
  BY <1>1, <1>2, <1>3, <1>4, <1>5

\* The invariant bounds the error of the clock.
LEMMA LagBound == LagInv => ClockLag /\ DayLostAtMidnightOnly
<1> SUFFICES ASSUME LagInv PROVE ClockLag /\ DayLostAtMidnightOnly
  OBVIOUS
<1>1. TypeOK
  BY DEF LagInv, AnswerInv
<1> DEFINE at == source.at
           k == Seconds((Laps(now) - Laps(at)) * TickMod)
           v == init_time + Seconds(TicksAt(at))
<1>2. /\ ClockType /\ now \in Nat /\ init_tick \in Nat /\ init_time \in Int /\ at \in Nat
      /\ source.time \in Int /\ Zone \in Int /\ UtcAt(at) \in Nat
      /\ Seconds(TicksAt(at)) \in Int /\ at \in 0 .. now /\ DayLength \in Int
  BY <1>1, LagTypes DEF LagInv, SourceInv
<1>3. Lag = Local - Shown - k
  BY DEF Lag, WrapLoss
<1>4. Local = Utc + Zone /\ Utc \in Int /\ Shown \in Int /\ k \in Int
  <2>1. now \in Int /\ at \in Int
    BY <1>2
  <2>2. (Laps(now) - Laps(at)) * TickMod \in Int
    BY <1>2, <2>1, LapsBetween
  <2> QED
    BY <1>2, <2>2, TimesType, SecondsFloor DEF Local
<1>5. ASSUME NEW c \in {0, DayLength}, Fits(source.time, v + c, at)
      PROVE  Lag - c \in Slack(Zone)
  <2>1. v + c \in Int /\ c \in Int /\ init_time = (v + c) - c - Seconds(TicksAt(at))
    BY <1>2
  <2>2. Local - Shown - k - c \in -1 .. (UtcAt(at) + Zone - source.time + 2)
    BY <1>2, <1>5, <2>1, FitsLag
  <2> QED
    BY <1>3, <2>2 DEF Slack
<1>6. source.kind = "local" => (Lag \in Slack(Zone) \/ Lag - DayLength \in Slack(Zone))
                               /\ (~source.dayLost => Lag \in Slack(Zone))
  <2> SUFFICES ASSUME source.kind = "local"
               PROVE  (Lag \in Slack(Zone) \/ Lag - DayLength \in Slack(Zone))
                      /\ (~source.dayLost => Lag \in Slack(Zone))
    OBVIOUS
  <2>1. v \in Int /\ v + 0 = v /\ Lag \in Int /\ Lag - 0 = Lag
    BY <1>2, <1>3, <1>4
  <2>2. Fits(source.time, v, at) => Lag \in Slack(Zone)
    <3>1. Fits(source.time, v + 0, at) => Lag - 0 \in Slack(Zone)
      BY <1>5
    <3> HIDE DEF v
    <3> QED
      BY <2>1, <3>1
  <2>3. Fits(source.time, v + DayLength, at) => Lag - DayLength \in Slack(Zone)
    BY <1>5
  <2>4. DayFits(source.time, v, at, source.dayLost)
    BY DEF LagInv, LocalInv
  <2> QED
    BY <2>2, <2>3, <2>4 DEF DayFits
<1>7. source.kind = "utc" => Lag - Zone \in Slack(0)
  <2> SUFFICES ASSUME source.kind = "utc" PROVE Lag - Zone \in Slack(0)
    OBVIOUS
  <2>1. init_time = source.time - Seconds(TicksAt(at)) /\ source.time <= UtcAt(at)
    BY DEF LagInv, UtcInv
  <2>2. Utc - Shown - k \in (UtcAt(at) - source.time - 1) .. (UtcAt(at) - source.time + 2)
    BY <1>2, <2>1, Drift
  <2>3. Lag - Zone = Utc - Shown - k
    BY <1>2, <1>3, <1>4
  <2> HIDE DEF k
  <2>4. Utc - Shown - k \in -1 .. (UtcAt(at) + 0 - source.time + 2)
    BY <1>2, <1>4, <2>1, <2>2
  <2> QED
    BY <2>3, <2>4 DEF Slack
<1> QED
  BY <1>6, <1>7 DEF ClockLag, DayLostAtMidnightOnly

\* The initial state.
LEMMA InitLag == Init => LagInv
<1> SUFFICES ASSUME Init PROVE LagInv
  OBVIOUS
<1>1. AnswerInv
  BY InitAnswer
<1>2. now \in Nat
  BY <1>1 DEF AnswerInv, TypeOK
<1>3. source.at = now /\ source.kind = "default"
  BY DEF Init, Source
<1>4. pc["sync"] = "sleep"
  BY DEF Init
<1> QED
  BY <1>1, <1>2, <1>3, <1>4 DEF LagInv, SourceInv, UtcInv, WriteTimeInv, HalfInv, DateInv,
                                LocalInv

\* What is read of a tick does not change.
LEMMA SameTicks ==
    ASSUME init_tick' = init_tick, bootTime' = bootTime
    PROVE  /\ \A n : TicksAt(n)' = TicksAt(n) /\ Laps(n)' = Laps(n)
                     /\ Seconds(n)' = Seconds(n) /\ UtcAt(n)' = UtcAt(n)
           /\ \A a, v, n : Fits(a, v, n)' <=> Fits(a, v, n)
           /\ \A a, v, n, b : DayFits(a, v, n, b)' <=> DayFits(a, v, n, b)
           /\ \A v, a : WithTimeOfDay(v, a)' <=> WithTimeOfDay(v, a)
<1>1. \A n : TicksAt(n)' = TicksAt(n) /\ Laps(n)' = Laps(n) /\ Seconds(n)' = Seconds(n)
             /\ UtcAt(n)' = UtcAt(n)
  BY DEF TicksAt, Laps, Seconds, UtcAt
<1>2. \A a, v, n : Fits(a, v, n)' <=> Fits(a, v, n)
  BY <1>1 DEF Fits
<1> QED
  BY <1>1, <1>2 DEF DayFits, WithTimeOfDay

\* A time that fits at a tick fits at a later one.
LEMMA FitsLater ==
    ASSUME NEW a, NEW v, NEW m \in Nat, NEW n \in Nat, m <= n, Fits(a, v, m)
    PROVE  Fits(a, v, n)
<1>1. 0 .. m \subseteq 0 .. n
  OBVIOUS
<1> QED
  BY <1>1 DEF Fits

\* A step that leaves the clock alone: the thread that synchronises stays where
\* it is or is not yet to set the clock, and time may go on.
LEMMA LagFrame ==
    ASSUME LagInv, AnswerInv',
           UNCHANGED <<bootTime, rtc, source, halfway, tm_new>>,
           now' \in {now, now + 1},
           pc'["sync"] \in {"write_time", "set_date", "write_date"} =>
              /\ pc'["sync"] = pc["sync"]
              /\ answer'["sync"] = answer["sync"]
              /\ alone'["sync"] => alone["sync"]
    PROVE  LagInv'
<1>1. /\ TypeOK /\ SourceInv /\ UtcInv /\ WriteTimeInv /\ HalfInv /\ DateInv /\ LocalInv
  BY DEF LagInv, AnswerInv
<1>2. now \in Nat /\ source.at \in Nat /\ now' \in Nat /\ now <= now'
  BY <1>1, LagTypes
<1>3. init_tick' = init_tick /\ init_time' = init_time
  BY DEF rtc
<1>4. /\ \A n : TicksAt(n)' = TicksAt(n) /\ Seconds(n)' = Seconds(n) /\ UtcAt(n)' = UtcAt(n)
      /\ \A a, v, n, b : DayFits(a, v, n, b)' <=> DayFits(a, v, n, b)
      /\ \A v, a : WithTimeOfDay(v, a)' <=> WithTimeOfDay(v, a)
  BY <1>3, SameTicks
<1>5. answer'["sync"] = answer["sync"] => LocalAnswer' = LocalAnswer
  BY DEF LocalAnswer
<1>6. SourceInv'
  BY <1>1, <1>2 DEF SourceInv
<1>7. UtcInv'
  BY <1>1, <1>3, <1>4 DEF UtcInv
<1>8. WriteTimeInv'
  BY <1>1, <1>4, <1>5 DEF WriteTimeInv
<1>9. HalfInv'
  BY <1>1, <1>3, <1>4, <1>5 DEF HalfInv
<1>10. DateInv'
  <2> SUFFICES ASSUME pc'["sync"] = "write_date", ~halfway.torn, alone'["sync"]
               PROVE  DayFits(LocalAnswer, tm_new, now', halfway.dayLost)
    BY <1>4, <1>5 DEF DateInv
  <2>1. DayFits(LocalAnswer, tm_new, now, halfway.dayLost)
    BY <1>1 DEF DateInv
  <2> QED
    BY <1>2, <2>1, FitsLater DEF DayFits
<1>11. LocalInv'
  BY <1>1, <1>3, <1>4 DEF LocalInv
<1> QED
  BY <1>6, <1>7, <1>8, <1>9, <1>10, <1>11 DEF LagInv

\* ntp_get_time, waking up and the tick leave the clock alone.
LEMMA CallLag ==
    ASSUME LagInv, AnswerInv',
           \/ \E t \in Threads : NtpStep(t) \/ NtpAnswer(t)
           \/ SyncWake \/ Tick \/ UNCHANGED vars
    PROVE  LagInv'
<1>1. TypeOK
  BY DEF LagInv, AnswerInv
<1>2. UNCHANGED <<bootTime, rtc, source, halfway, tm_new>> /\ now' \in {now, now + 1}
  <2>1. CASE \E t \in Threads : NtpStep(t) \/ NtpAnswer(t)
    BY <2>1 DEF NtpStep, NtpBegin, NtpSend, NtpGivesUp, NtpListen, NtpReceive, NtpConvert,
                NtpAnswer, NtpTimesOut, ghosts
  <2>2. CASE SyncWake \/ Tick \/ UNCHANGED vars
    BY <2>2 DEF SyncWake, Tick, vars, ghosts
  <2> QED
    BY <2>1, <2>2
<1>3. DOMAIN pc = Threads /\ answer \in [Threads -> Int] /\ alone \in [Threads -> BOOLEAN]
  BY <1>1 DEF TypeOK
<1> DEFINE Far == {"write_time", "set_date", "write_date"}
           Frame == pc'["sync"] \in Far => /\ pc'["sync"] = pc["sync"]
                                           /\ answer'["sync"] = answer["sync"]
                                           /\ alone'["sync"] => alone["sync"]
<1>4. ASSUME NEW t \in Threads, NtpStep(t) \/ NtpAnswer(t)
      PROVE  Frame
  <2>1. \/ \E time : Return(t, time)
        \/ /\ \E l \in {"send", "sent", "receive", "convert"} : Goto(t, l)
           /\ answer' = [answer EXCEPT ![t] = answer'[t]]
        \/ pc' = pc /\ answer' = answer
    BY <1>3, <1>4 DEF NtpStep, NtpBegin, NtpSend, NtpGivesUp, NtpListen, NtpReceive,
                      NtpConvert, NtpAnswer, NtpTimesOut
  <2>2. CASE t = "sync"
    <3>1. pc[t] \in {"begin", "send", "sent", "receive", "convert"}
      BY <1>4 DEF NtpStep, NtpBegin, NtpSend, NtpGivesUp, NtpListen, NtpReceive,
                  NtpConvert, NtpAnswer, NtpTimesOut
    <3>2. pc'["sync"] \notin Far
      BY <1>3, <2>1, <2>2, <3>1 DEF Return, Goto
    <3> QED
      BY <3>2
  <2>3. CASE t # "sync"
    <3>1. pc'["sync"] = pc["sync"] /\ answer'["sync"] = answer["sync"]
      BY <1>3, <2>1, <2>3, AnswerParts DEF Return, Goto
    <3>2. alone'["sync"] => alone["sync"]
      <4>1. CASE NtpBegin(t)
        BY <2>3, <4>1, AnswerParts, Zenon DEF NtpBegin
      <4>2. CASE UNCHANGED ghosts
        BY <4>2 DEF ghosts
      <4> QED
        BY <1>4, <4>1, <4>2 DEF NtpStep, NtpSend, NtpGivesUp, NtpListen, NtpReceive,
                                NtpConvert, NtpAnswer, NtpTimesOut
    <3> QED
      BY <3>1, <3>2
  <2> QED
    BY <2>2, <2>3
<1>5. Frame
  <2>1. CASE SyncWake
    <3>1. pc'["sync"] = "begin"
      BY <1>3, <2>1, AnswerParts DEF SyncWake, Goto
    <3> QED
      BY <3>1
  <2>2. CASE Tick \/ UNCHANGED vars
    BY <2>2 DEF Tick, vars, network, ghosts
  <2> QED
    BY <1>4, <2>1, <2>2
<1> QED
  BY <1>2, <1>5, LagFrame

\* The time thread sets the clock to UTC.
LEMMA TimeSetLag ==
    ASSUME LagInv, AnswerInv', TimeSet
    PROVE  LagInv'
<1>1. /\ TypeOK /\ AnswerIsRight /\ WriteTimeInv /\ HalfInv /\ DateInv
  BY DEF LagInv, AnswerInv
<1>2. /\ now' = now /\ bootTime' = bootTime /\ init_tick' = init_tick /\ tm_new' = tm_new
      /\ pc["time"] = "set"
      /\ init_time' = answer["time"] - Seconds(TicksAt(now))
      /\ source' = Source(IF answer["time"] = 0 THEN "zero" ELSE "utc", answer["time"], FALSE)
      /\ halfway' = [halfway EXCEPT !.torn = @ \/ pc["sync"] = "set_date"]
  BY DEF TimeSet, SetValue, TicksSince, TicksAt
<1>3. /\ pc'["sync"] = pc["sync"] /\ answer'["sync"] = answer["sync"]
      /\ alone'["sync"] <=> alone["sync"]
  <2>1. DOMAIN pc = Threads /\ answer \in [Threads -> Int] /\ alone \in [Threads -> BOOLEAN]
    BY <1>1 DEF TypeOK
  <2> QED
    BY <2>1, AnswerParts DEF TimeSet, Goto, Forget
<1>4. LocalAnswer' = LocalAnswer
  BY <1>3 DEF LocalAnswer
<1>5. /\ source'.at = now /\ source'.time = answer["time"]
      /\ source'.kind = IF answer["time"] = 0 THEN "zero" ELSE "utc"
  BY <1>2 DEF Source
<1>6. /\ \A n : TicksAt(n)' = TicksAt(n) /\ Seconds(n)' = Seconds(n) /\ UtcAt(n)' = UtcAt(n)
      /\ \A a, v, n, b : DayFits(a, v, n, b)' <=> DayFits(a, v, n, b)
      /\ \A v, a : WithTimeOfDay(v, a)' <=> WithTimeOfDay(v, a)
  BY <1>2, SameTicks
<1>7. /\ halfway'.dayLost = halfway.dayLost
      /\ halfway'.torn <=> halfway.torn \/ pc["sync"] = "set_date"
  <2>1. halfway \in [torn : BOOLEAN, dayLost : BOOLEAN]
    BY <1>1 DEF TypeOK
  <2> QED
    BY <1>2, <2>1
<1>8. SourceInv'
  <2>1. now \in Nat
    BY <1>1, LagTypes
  <2>2. source'.at = now /\ now' = now
    BY <1>2, <1>5
  <2> QED
    BY <2>1, <2>2 DEF SourceInv
<1>9. UtcInv'
  <2> SUFFICES ASSUME answer["time"] # 0
               PROVE  answer["time"] <= UtcAt(now)
    BY <1>2, <1>5, <1>6 DEF UtcInv
  <2>1. answer["time"] \in UtcAt(begun["time"]) .. Utc
    BY <1>1 DEF AnswerIsRight, IsTimely
  <2>2. ClockType /\ begun["time"] \in Nat /\ now \in Nat
    BY <1>1, LagTypes, AnswerParts DEF TypeOK
  <2>3. UtcAt(begun["time"]) \in Nat /\ UtcAt(now) \in Nat /\ Utc = UtcAt(now)
    BY <2>2, UtcAtType
  <2> QED
    BY <2>1, <2>3
<1>10. WriteTimeInv'
  BY <1>1, <1>2, <1>3, <1>4, <1>6 DEF WriteTimeInv
<1>11. HalfInv'
  BY <1>3, <1>7 DEF HalfInv
<1>12. DateInv'
  <2> SUFFICES ASSUME pc["sync"] = "write_date", ~halfway.torn, alone["sync"]
               PROVE  DayFits(LocalAnswer, tm_new, now, halfway.dayLost)
    BY <1>2, <1>3, <1>4, <1>6, <1>7 DEF DateInv
  <2> QED
    BY <1>1 DEF DateInv
<1>13. LocalInv'
  BY <1>5 DEF LocalInv
<1> QED
  BY <1>8, <1>9, <1>10, <1>11, <1>12, <1>13 DEF LagInv

\* set_time.
LEMMA SetTimeLag ==
    ASSUME LagInv, AnswerInv', SetTimeRead \/ SetTimeWrite
    PROVE  LagInv'
<1>1. /\ TypeOK /\ AnswerIsRight /\ WriteTimeInv /\ SourceInv /\ UtcInv /\ LocalInv
  BY DEF LagInv, AnswerInv
<1>2. /\ now' = now /\ bootTime' = bootTime /\ init_tick' = init_tick
      /\ answer' = answer /\ alone' = alone
  BY DEF SetTimeRead, SetTimeWrite, rtc, network, ghosts
<1>3. LocalAnswer' = LocalAnswer
  BY <1>2 DEF LocalAnswer
<1>4. /\ \A n : TicksAt(n)' = TicksAt(n) /\ Seconds(n)' = Seconds(n) /\ UtcAt(n)' = UtcAt(n)
      /\ \A a, v, n, b : DayFits(a, v, n, b)' <=> DayFits(a, v, n, b)
      /\ \A v, a : WithTimeOfDay(v, a)' <=> WithTimeOfDay(v, a)
  BY <1>2, SameTicks
<1>5. DOMAIN pc = Threads
  BY <1>1 DEF TypeOK
<1>6. CASE SetTimeRead
  <2>1. /\ pc'["sync"] = "write_time"
        /\ tm_new' = DayOf(Shown) * DayLength + TimeOfDay(LocalAnswer)
        /\ init_time' = init_time /\ source' = source
    BY <1>5, <1>6, AnswerParts DEF SetTimeRead, Goto, rtc, ghosts
  <2>2. DayOf(Shown) \in Int
    BY <1>1, LagTypes, TimesType, DaysType
  <2>3. WithTimeOfDay(tm_new', LocalAnswer)
    BY <2>1, <2>2 DEF WithTimeOfDay
  <2>4. WriteTimeInv'
    BY <1>3, <1>4, <2>3 DEF WriteTimeInv
  <2>5. SourceInv' /\ UtcInv' /\ LocalInv'
    BY <1>1, <1>2, <1>4, <2>1 DEF SourceInv, UtcInv, LocalInv
  <2>6. HalfInv' /\ DateInv'
    BY <2>1 DEF HalfInv, DateInv
  <2> QED
    BY <2>4, <2>5, <2>6 DEF LagInv
<1>7. CASE SetTimeWrite
  <2>1. /\ pc["sync"] = "write_time" /\ pc'["sync"] = "set_date"
        /\ init_time' = tm_new - Seconds(TicksAt(now))
        /\ source' = Source("half", LocalAnswer, FALSE)
    BY <1>5, <1>7, AnswerParts DEF SetTimeWrite, SetValue, TicksSince, TicksAt, Goto
  <2>2. source'.at = now /\ source'.kind = "half"
    BY <2>1 DEF Source
  <2>3. /\ now \in Nat /\ tm_new \in Int /\ Seconds(TicksAt(now)) \in Int
        /\ ClockType /\ Zone \in Nat /\ UtcAt(now) \in Nat
    BY <1>1, LagTypes
  <2>4. WithTimeOfDay(tm_new, LocalAnswer)
    BY <1>1, <2>1 DEF WriteTimeInv
  <2>5. init_time' + Seconds(TicksAt(now)) = tm_new
    BY <2>1, <2>3
  <2>6. alone["sync"] => LocalAnswer \in Nat /\ LocalAnswer <= UtcAt(now) + Zone
    <3> SUFFICES ASSUME alone["sync"]
                 PROVE  LocalAnswer \in Nat /\ LocalAnswer <= UtcAt(now) + Zone
      OBVIOUS
    <3>1. answer["sync"] # 0 => answer["sync"] \in UtcAt(begun["sync"]) .. Utc
      BY <1>1 DEF AnswerIsRight, IsTimely
    <3>2. begun["sync"] \in Nat
      BY <1>1, AnswerParts DEF TypeOK
    <3>3. UtcAt(begun["sync"]) \in Nat /\ Utc = UtcAt(now)
      BY <2>3, <3>2, UtcAtType
    <3>4. answer["sync"] \in Nat /\ answer["sync"] <= UtcAt(now)
      BY <2>3, <3>1, <3>3
    <3> QED
      BY <2>3, <3>4 DEF LocalAnswer
  <2>7. HalfInv'
    BY <1>2, <1>3, <1>4, <2>2, <2>4, <2>5, <2>6 DEF HalfInv
  <2>8. SourceInv'
    BY <1>2, <2>2, <2>3 DEF SourceInv
  <2>9. UtcInv' /\ LocalInv' /\ WriteTimeInv' /\ DateInv'
    BY <2>1, <2>2 DEF UtcInv, LocalInv, WriteTimeInv, DateInv
  <2> QED
    BY <2>7, <2>8, <2>9 DEF LagInv
<1> QED
  BY <1>6, <1>7

\* What set_date computes from a synchronisation that is not torn.
LEMMA DateFits ==
    ASSUME TypeOK, SourceInv, Laps(now) = Laps(source.at), Shown >= 0,
           WithTimeOfDay(init_time + Seconds(TicksAt(source.at)), LocalAnswer),
           LocalAnswer \in Nat, LocalAnswer <= UtcAt(source.at) + Zone,
           NEW v, v = DateToSet * DayLength + TimeOfDay(Shown)
    PROVE  DayFits(LocalAnswer, v, now, DayOf(Local + 1) # DayOf(LocalAnswer))
<1> DEFINE w == source.at
           t == LocalAnswer
           tn == TicksAt(now)
           tw == TicksAt(w)
           e == Seconds(tn) - Seconds(tw)
<1>1. /\ ClockType /\ now \in Nat /\ w \in Nat /\ w \in 0 .. now /\ init_tick \in Nat
      /\ init_time \in Int /\ t \in Nat /\ Zone \in Nat /\ DayLength \in Nat \ {0}
      /\ tn \in Nat /\ tw \in Nat /\ Seconds(tn) \in Nat /\ Seconds(tw) \in Nat
      /\ UtcAt(w) \in Nat /\ w <= now /\ now \in Int /\ w \in Int
  BY LagTypes DEF SourceInv
<1>2. Shown = init_time + Seconds(tn) /\ Shown \in Nat
  <2>1. Shown \in Int
    BY <1>1, TimesType
  <2> QED
    BY <2>1 DEF Shown, TicksSince, TicksAt
<1>3. (Laps(now) - Laps(w)) * TickMod = 0
  <2>1. Laps(now) \in Int /\ Laps(w) \in Int
    BY <1>1, LapsTicks
  <2>2. Laps(now) - Laps(w) = 0
    BY <2>1
  <2> QED
    BY <2>2, TickModType
<1>4. tw <= tn
  <2>1. (Laps(now) = Laps(w) /\ tw <= tn) \/ (Laps(now) - Laps(w)) * TickMod >= TickMod
    BY <1>1, LapsGrow
  <2> QED
    BY <1>3, <2>1, TickModType
<1>5. now = w + 0 + tn - tw
  <2>1. now = w + (Laps(now) - Laps(w)) * TickMod + tn - tw
    BY <1>1, LapsBetween
  <2> QED
    BY <1>3, <2>1
<1>6. e \in Nat
  BY <1>1, <1>4, SecondsMonotone
<1>7. PICK k \in Int : init_time + Seconds(tw) = k * DayLength + TimeOfDay(t)
  BY DEF WithTimeOfDay
<1>8. TimeOfDay(t) \in Nat /\ k * DayLength \in Int
  BY <1>1, DayParts
<1>9. Shown = k * DayLength + TimeOfDay(t) + e
  <2> DEFINE kd == k * DayLength
             td == TimeOfDay(t)
  <2>1. kd \in Int /\ td \in Int /\ init_time + Seconds(tw) = kd + td
    BY <1>7, <1>8
  <2> HIDE DEF kd, td
  <2>2. Shown = kd + td + e
    BY <1>1, <1>2, <2>1
  <2> QED
    BY <2>2 DEF kd, td
<1> HIDE DEF e
<1>10. v = DayOf(t) * DayLength + TimeOfDay(Shown)
  BY DEF DateToSet
<1>11. /\ v \in Int
       /\ \/ t <= v /\ v <= t + e
          \/ t <= v + DayLength /\ v + DayLength <= t + e
       /\ t + e < DayOf(t) * DayLength + DayLength => t <= v /\ v <= t + e
  BY <1>1, <1>2, <1>6, <1>9, <1>10, DaySet
<1>12. \A x \in Int : t <= x /\ x <= t + e => Fits(t, x, now)
  <2> TAKE x \in Int
  <2> HAVE t <= x /\ x <= t + e
  <2>1. x <= UtcAt(w) + Zone + Seconds(tn) - Seconds(tw)
    BY <1>1, <1>6 DEF e
  <2>2. now \in 0 .. now /\ Laps(w) = Laps(now)
    BY <1>1
  <2> QED
    BY <1>1, <2>1, <2>2 DEF Fits
<1>13. DayOf(Local + 1) = DayOf(t) => t + e < DayOf(t) * DayLength + DayLength
  <2>1. Local + 1 \in Nat /\ Local = UtcAt(now) + Zone /\ UtcAt(now) \in Nat
    BY <1>1, TimesType, UtcAtType DEF Local
  <2>2. Seconds(now) - Seconds(w) + Seconds(tw) - Seconds(tn) - Seconds(0) \in -1 .. 2
    <3>1. tn \in Int /\ tw \in Int /\ 0 \in Int
      BY <1>1
    <3>2. Seconds(w + 0 + tn - tw) - Seconds(w) + Seconds(tw) - Seconds(tn) - Seconds(0)
             \in -1 .. 2
      BY <1>1, <3>1, Rounding
    <3> HIDE DEF tn, tw
    <3> QED
      BY <1>5, <3>2
  <2>3. Seconds(0) = 0
    BY UnitsAssumption DEF Seconds
  <2>4. /\ UtcAt(now) = bootTime + Seconds(now) /\ UtcAt(w) = bootTime + Seconds(w)
        /\ bootTime \in Int /\ Seconds(now) \in Int /\ Seconds(w) \in Int
    BY <1>1, TimesType, SecondsFloor DEF UtcAt
  <2>5. t + e <= Local + 1
    BY <1>1, <2>1, <2>2, <2>3, <2>4 DEF e
  <2>6. Local + 1 < DayOf(Local + 1) * DayLength + DayLength
    <3> DEFINE l == Local + 1
               dl == DayOf(l) * DayLength
    <3>1. l \in Nat /\ dl \in Int /\ TimeOfDay(l) \in Nat /\ TimeOfDay(l) < DayLength
          /\ l = dl + TimeOfDay(l)
      BY <2>1, DayParts
    <3> HIDE DEF l, dl
    <3>2. l < dl + DayLength
      BY <1>1, <3>1
    <3> QED
      BY <3>2 DEF l, dl
  <2> SUFFICES ASSUME DayOf(Local + 1) = DayOf(t)
               PROVE  t + e < DayOf(t) * DayLength + DayLength
    OBVIOUS
  <2> DEFINE dt == DayOf(t) * DayLength
  <2>7. dt \in Int /\ Local + 1 < dt + DayLength
    BY <1>1, <2>6, DayParts
  <2> HIDE DEF dt
  <2>8. t + e < dt + DayLength
    BY <1>1, <1>6, <2>1, <2>5, <2>7
  <2> QED
    BY <2>8 DEF dt
<1>14. Fits(t, v, now) \/ Fits(t, v + DayLength, now)
  <2>1. v + DayLength \in Int
    BY <1>1, <1>11
  <2> QED
    BY <1>11, <1>12, <2>1
<1>15. DayOf(Local + 1) # DayOf(t) \/ Fits(t, v, now)
  BY <1>11, <1>12, <1>13
<1> QED
  BY <1>14, <1>15 DEF DayFits

\* set_date.
LEMMA SetDateLag ==
    ASSUME LagInv, AnswerInv', SetDateRead \/ SetDateWrite
    PROVE  LagInv'
<1>1. /\ TypeOK /\ SourceInv /\ UtcInv /\ LocalInv /\ HalfInv /\ DateInv
  BY DEF LagInv, AnswerInv
<1>2. now' = now /\ bootTime' = bootTime /\ init_tick' = init_tick
  BY DEF SetDateRead, SetDateWrite, rtc
<1>3. /\ \A n : TicksAt(n)' = TicksAt(n) /\ Seconds(n)' = Seconds(n) /\ UtcAt(n)' = UtcAt(n)
      /\ \A a, v, n, b : DayFits(a, v, n, b)' <=> DayFits(a, v, n, b)
  BY <1>2, SameTicks
<1>4. DOMAIN pc = Threads
  BY <1>1 DEF TypeOK
<1>5. CASE SetDateRead
  <2>1. /\ pc["sync"] = "set_date" /\ pc'["sync"] = "write_date"
        /\ tm_new' = DateToSet * DayLength + TimeOfDay(Shown)
        /\ init_time' = init_time /\ source' = source /\ answer' = answer /\ alone' = alone
        /\ halfway' = [torn |-> halfway.torn \/ Laps(now) # Laps(source.at) \/ Shown < 0,
                       dayLost |-> DayOf(Local + 1) # DayOf(LocalAnswer)]
    BY <1>4, <1>5, AnswerParts DEF SetDateRead, Goto, rtc, network
  <2>2. LocalAnswer' = LocalAnswer
    BY <2>1 DEF LocalAnswer
  <2>3. /\ halfway'.torn <=> halfway.torn \/ Laps(now) # Laps(source.at) \/ Shown < 0
        /\ halfway'.dayLost <=> DayOf(Local + 1) # DayOf(LocalAnswer)
    BY <2>1, Zenon
  <2>4. SourceInv' /\ UtcInv' /\ LocalInv'
    BY <1>1, <1>2, <1>3, <2>1 DEF SourceInv, UtcInv, LocalInv
  <2>5. WriteTimeInv' /\ HalfInv'
    BY <2>1 DEF WriteTimeInv, HalfInv
  <2>6. DateInv'
    <3> SUFFICES ASSUME ~halfway'.torn, alone["sync"]
                 PROVE  DayFits(LocalAnswer, tm_new', now, halfway'.dayLost)
      BY <1>2, <1>3, <2>1, <2>2 DEF DateInv
    <3>1. ~halfway.torn /\ Laps(now) = Laps(source.at) /\ ~(Shown < 0)
      BY <2>3, Zenon
    <3>2. Shown >= 0
      <4>1. Shown \in Int
        BY <1>1, LagTypes, TimesType
      <4> QED
        BY <3>1, <4>1
    <3>3. /\ WithTimeOfDay(init_time + Seconds(TicksAt(source.at)), LocalAnswer)
          /\ LocalAnswer \in Nat /\ LocalAnswer <= UtcAt(source.at) + Zone
      BY <1>1, <2>1, <3>1 DEF HalfInv
    <3>4. DayFits(LocalAnswer, tm_new', now, DayOf(Local + 1) # DayOf(LocalAnswer))
      BY <1>1, <2>1, <3>1, <3>2, <3>3, DateFits
    <3> QED
      BY <2>3, <3>4, Zenon DEF DayFits
  <2> QED
    BY <2>4, <2>5, <2>6 DEF LagInv
<1>6. CASE SetDateWrite
  <2>1. /\ pc["sync"] = "write_date" /\ pc'["sync"] = "sleep"
        /\ init_time' = tm_new - Seconds(TicksAt(now))
        /\ source' = Source(IF halfway.torn \/ ~alone["sync"] THEN "torn" ELSE "local",
                            LocalAnswer, halfway.dayLost)
    BY <1>4, <1>6, AnswerParts DEF SetDateWrite, SetValue, TicksSince, TicksAt, Goto
  <2>2. /\ source'.at = now /\ source'.time = LocalAnswer /\ source'.dayLost = halfway.dayLost
        /\ source'.kind = IF halfway.torn \/ ~alone["sync"] THEN "torn" ELSE "local"
    BY <2>1 DEF Source
  <2>3. now \in Nat /\ tm_new \in Int /\ Seconds(TicksAt(now)) \in Int
    BY <1>1, LagTypes
  <2>4. init_time' + Seconds(TicksAt(now)) = tm_new
    BY <2>1, <2>3
  <2>5. SourceInv'
    BY <1>2, <2>2, <2>3 DEF SourceInv
  <2>6. UtcInv' /\ WriteTimeInv' /\ HalfInv' /\ DateInv'
    BY <2>1, <2>2 DEF UtcInv, WriteTimeInv, HalfInv, DateInv
  <2>7. LocalInv'
    <3> SUFFICES ASSUME source'.kind = "local"
                 PROVE  DayFits(LocalAnswer, tm_new, now, halfway.dayLost)
      BY <1>3, <2>2, <2>4 DEF LocalInv
    <3>1. ~halfway.torn /\ alone["sync"]
      BY <2>2
    <3> QED
      BY <1>1, <2>1, <3>1 DEF DateInv
  <2> QED
    BY <2>5, <2>6, <2>7 DEF LagInv
<1> QED
  BY <1>5, <1>6

\* LagInv is inductive.
LEMMA LagStep == LagInv /\ [Next]_vars => LagInv'
<1> SUFFICES ASSUME LagInv, [Next]_vars PROVE LagInv'
  OBVIOUS
<1>1. AnswerInv'
  BY AnswerStep DEF LagInv
<1> QED
  BY <1>1, CallLag, TimeSetLag, SetTimeLag, SetDateLag DEF Next, SyncStep

(***************************************************************************)
(* How wrong the clock can be, for every tick rate, length of a day, zone  *)
(* and delay: after the time thread set it, it is behind by the zone and   *)
(* the time the answer took; after a synchronisation that was not torn, by *)
(* the time that took, or by a day more.                                   *)
(***************************************************************************)
THEOREM SyncClockLag == Spec => []ClockLag
BY InitLag, LagStep, LagBound, PTL DEF Spec

(***************************************************************************)
(* After such a synchronisation the date is a day behind only if midnight  *)
(* came between the answer and the second after set_date read the clock.   *)
(***************************************************************************)
THEOREM SyncDayLost == Spec => []DayLostAtMidnightOnly
BY InitLag, LagStep, LagBound, PTL DEF Spec
=============================================================================
