----------------------------- MODULE ClockProofs -----------------------------
(***************************************************************************)
(* What the priorities of the threads guarantee, for every size of the     *)
(* mailboxes, every clock and every sensor: no thread touches a mailbox    *)
(* before main has initialised it, and the OLED thread never draws from a  *)
(* record that its producer is halfway through.  Then the types, what the  *)
(* weather thread holds at each point of its way, and that the page that   *)
(* is counted and the page that is drawn agree.                            *)
(***************************************************************************)
EXTENDS ClockApp, SequenceTheorems, TLAPS

------------------------------------------------------------------------------
(* Start-up.                                                               *)

\* Until main has made its start-up calls it is ready, and the threads it has
\* started are still at their first instruction.
Booting ==
    /\ pc["main"] = "start"
    /\ suspended = {}
    /\ \A t \in Threads \ {"main"} : pc[t] \in {"new", "start"}

BootInv ==
    /\ boot \in 0 .. BootSteps
    /\ boot < BootSteps => Booting

\* main has nine start-up calls.
LEMMA StartUpCalls ==
    /\ BootSteps = 9 /\ Len(StartOrder) = 5 /\ Len(InitOrder) = 4
    /\ \A i \in 1 .. 5 : StartOrder[i] \in Threads \ {"main"}
    /\ \A i \in 1 .. 4 : InitOrder[i] \in Boxes
BY DEF BootSteps, StartOrder, InitOrder, Threads, Boxes

\* While main is ready nothing else runs: it is the most urgent thread.
LEMMA OnlyMainRuns ==
    ASSUME Booting, NEW t \in Threads, Runs(t)
    PROVE  t = "main"
<1>1. Ready("main")
  BY DEF Booting, Ready, WaitsForMail
<1>2. Priority[t] <= Priority["main"]
  BY <1>1 DEF Runs, Threads
<1> QED
  BY <1>2 DEF Priority, Threads

\* A thread that steps is the one that runs.
LEMMA StepRuns ==
    ASSUME NEW t \in Threads, ThreadStep(t)
    PROVE  Runs(t)
<1>1. CASE t = "main"
  BY <1>1 DEF ThreadStep, MainStep, StartThread, InitMailbox, MainLoop, At
<1>2. CASE t = "time"
  BY <1>2 DEF ThreadStep, TimeStep, TimeStart, TimeSet, TimeRead, TimeCopy, TimeSend, At
<1>3. CASE t = "dht"
  BY <1>3 DEF ThreadStep, DhtStep, DhtStart, DhtRead, DhtPrint, DhtSend, At
<1>4. CASE t = "mpu"
  BY <1>4 DEF ThreadStep, MpuStep, MpuStart, MpuDmpInit, MpuTilt, MpuRest, MpuSend, At
<1>5. CASE t = "wea"
  BY <1>5 DEF ThreadStep, WeaStep, WeaAllocate, WeaGet, WeaStatus, WeaRead,
              WeaResult, WeaParseFails, WeaParseWorks, WeaSend, WeaFree, WeaCheck,
              WeaCleanup, At
<1>6. CASE t = "oled"
  BY <1>6 DEF ThreadStep, OledStep, OledStart, OledLoading, OledRecvWeather,
              OledDetach, OledPollMail, OledPollEmpty, OledRecvTime, OledRecvDht,
              OledDraw, OledFlush, At
<1> QED
  BY <1>1, <1>2, <1>3, <1>4, <1>5, <1>6 DEF Threads

\* pc and mbq are functions on the threads and on the mailboxes.
Shape ==
    /\ pc = [t \in Threads |-> pc[t]]
    /\ mbq = [b \in Boxes |-> mbq[b]]

\* What the step of a thread leaves alone: where the others stand, the records
\* of the other producers and the page of the OLED thread; and only a producer
\* puts something into its mailbox.
Others(t) ==
    /\ \A u \in Threads \ {t} :
        pc'[u] = pc[u] /\ (u \in suspended' => u \in suspended)
    /\ t # "time" => /\ UNCHANGED <<timeMes, timeVars>>
                     /\ mbq["time"] = <<>> => mbq'["time"] = <<>>
    /\ t # "dht" => /\ UNCHANGED <<dhtMes, sample>>
                    /\ mbq["dht"] = <<>> => mbq'["dht"] = <<>>
    /\ t # "oled" => UNCHANGED oled_sign
    /\ t # "main" => UNCHANGED boot

\* A step of the time thread leaves the other threads where they are.
LEMMA TimeOthers ==
    ASSUME Shape, ThreadStep("time")
    PROVE  Shape' /\ Others("time")
<1> USE DEF Shape, Others, Local, Threads, Boxes, At, Goto, SleepThen, timeVars, oledVars
<1>0. TimeStep /\ Local("time")
  BY DEF ThreadStep
<1>1. CASE TimeStart
  BY <1>0, <1>1 DEF TimeStart
<1>2. CASE TimeSet
  BY <1>0, <1>2 DEF TimeSet
<1>3. CASE TimeRead
  BY <1>0, <1>3 DEF TimeRead
<1>4. ASSUME NEW f \in TimeFields, TimeCopy(f)
      PROVE  Shape' /\ Others("time")
  BY <1>0, <1>4 DEF TimeCopy
<1>5. CASE TimeSend
  BY <1>0, <1>5 DEF TimeSend, Send
<1> QED
  BY <1>0, <1>1, <1>2, <1>3, <1>4, <1>5 DEF TimeStep

\* A step of the DHT11 thread leaves the other threads where they are.
LEMMA DhtOthers ==
    ASSUME Shape, ThreadStep("dht")
    PROVE  Shape' /\ Others("dht")
<1> USE DEF Shape, Others, Local, Threads, Boxes, At, Goto, SleepThen, timeVars, oledVars
<1>0. DhtStep /\ Local("dht")
  BY DEF ThreadStep
<1>1. CASE DhtStart
  BY <1>0, <1>1 DEF DhtStart
<1>2. CASE DhtRead
  BY <1>0, <1>2 DEF DhtRead
<1>3. ASSUME NEW f \in {"temp", "humi"}, DhtPrint(f)
      PROVE  Shape' /\ Others("dht")
  BY <1>0, <1>3 DEF DhtPrint
<1>4. CASE DhtSend
  BY <1>0, <1>4 DEF DhtSend, Send
<1> QED
  BY <1>0, <1>1, <1>2, <1>3, <1>4 DEF DhtStep

\* A step of the MPU thread leaves the other threads where they are.
LEMMA MpuOthers ==
    ASSUME Shape, ThreadStep("mpu")
    PROVE  Shape' /\ Others("mpu")
<1> USE DEF Shape, Others, Local, Threads, Boxes, At, Goto, SleepThen, timeVars, oledVars
<1>0. MpuStep /\ Local("mpu")
  BY DEF ThreadStep
<1>1. CASE MpuStart
  BY <1>0, <1>1 DEF MpuStart
<1>2. CASE MpuDmpInit
  BY <1>0, <1>2 DEF MpuDmpInit
<1>3. CASE MpuTilt
  BY <1>0, <1>3 DEF MpuTilt
<1>4. CASE MpuRest
  BY <1>0, <1>4 DEF MpuRest
<1>5. CASE MpuSend
  BY <1>0, <1>5 DEF MpuSend, Send
<1> QED
  BY <1>0, <1>1, <1>2, <1>3, <1>4, <1>5 DEF MpuStep

\* A step of the weather thread leaves the other threads where they are.
LEMMA WeatherOthers ==
    ASSUME Shape, ThreadStep("wea")
    PROVE  Shape' /\ Others("wea")
<1> USE DEF Shape, Others, Local, Threads, Boxes, At, Goto, SleepThen, timeVars, oledVars
<1>0. WeaStep /\ Local("wea")
  BY DEF ThreadStep
<1>1. ASSUME NEW point, NEW what, NEW next, WeaAllocate(point, what, next)
      PROVE  Shape' /\ Others("wea")
  BY <1>0, <1>1 DEF WeaAllocate
<1>2. CASE WeaGet \/ WeaRead
  BY <1>0, <1>2 DEF WeaGet, WeaRead
<1>3. CASE WeaStatus
  BY <1>0, <1>3 DEF WeaStatus
<1>4. CASE WeaResult
  BY <1>0, <1>4 DEF WeaResult
<1>5. CASE WeaParseFails \/ WeaParseWorks
  BY <1>0, <1>5 DEF WeaParseFails, WeaParseWorks
<1>6. CASE WeaSend
  BY <1>0, <1>6 DEF WeaSend, Send
<1>7. CASE WeaFree \/ WeaCheck \/ WeaCleanup
  BY <1>0, <1>7 DEF WeaFree, WeaCheck, WeaCleanup
<1> QED
  BY <1>0, <1>1, <1>2, <1>3, <1>4, <1>5, <1>6, <1>7 DEF WeaStep

\* A step of the OLED thread leaves the other threads where they are.
LEMMA OledOthers ==
    ASSUME Shape, ThreadStep("oled")
    PROVE  Shape' /\ Others("oled")
<1> USE DEF Shape, Others, Local, Threads, Boxes, At, Goto, SleepThen, timeVars, oledVars
<1>0. OledStep /\ Local("oled")
  BY DEF ThreadStep
<1>1. CASE OledStart \/ OledLoading
  BY <1>0, <1>1 DEF OledStart, OledLoading
<1>2. CASE OledRecvWeather
  BY <1>0, <1>2 DEF OledRecvWeather, Receive
<1>3. CASE OledDetach \/ OledPollEmpty
  BY <1>0, <1>3 DEF OledDetach, OledPollEmpty
<1>4. CASE OledPollMail
  BY <1>0, <1>4 DEF OledPollMail, Receive
<1>5. CASE OledRecvTime \/ OledRecvDht
  BY <1>0, <1>5 DEF OledRecvTime, OledRecvDht, Receive
<1>6. CASE OledDraw
  BY <1>0, <1>6 DEF OledDraw, kernelVars
<1>7. CASE OledFlush
  BY <1>0, <1>7 DEF OledFlush
<1> QED
  BY <1>0, <1>1, <1>2, <1>3, <1>4, <1>5, <1>6, <1>7 DEF OledStep

\* The steps that are no thread's: the end of a delay, a failed assertion, the
\* clock, the heap.
KernelStep ==
    \/ \E t \in Threads \ {"main"} : Wake(t) /\ NoLocals
    \/ \E t \in Threads : AssertFails(t) /\ NoLocals
    \/ ClockTick /\ Local("time")
    \/ HeapReuse /\ Local("wea")

\* A step is one of a thread, of the kernel, or none.
LEMMA StepKinds ==
    ASSUME [Next]_vars
    PROVE  (\E t \in Threads : ThreadStep(t)) \/ KernelStep \/ UNCHANGED vars
BY DEF Next, KernelStep

\* main moves another thread only to its start, and only while it has start-up
\* calls left.
MainMoves ==
    /\ UNCHANGED <<timeMes, timeVars, dhtMes, sample, oled_sign>>
    /\ \A b \in Boxes : mbq[b] = <<>> => mbq'[b] = <<>>
    /\ \/ /\ boot < BootSteps
          /\ boot' = boot + 1
          /\ suspended' = suspended
          /\ pc'["main"] = pc["main"]
          /\ \A u \in Threads \ {"main"} : pc'[u] \in {pc[u], "start"}
       \/ /\ boot = BootSteps
          /\ boot' = boot
          /\ suspended' = suspended \cup {"main"}
          /\ \A u \in Threads : pc'[u] = pc[u]

\* A step of main starts a thread, initialises a mailbox or goes to sleep.
LEMMA MainOthers ==
    ASSUME Shape, BootInv, ThreadStep("main")
    PROVE  Shape' /\ MainMoves
<1>0. MainStep /\ UNCHANGED <<timeVars, sample, oled_sign>> /\ boot \in 0 .. 9
  BY StartUpCalls DEF ThreadStep, Local, oledVars, BootInv
<1>1. CASE StartThread
  <2>1. boot + 1 \in 1 .. 5 /\ boot' = boot + 1 /\ boot < BootSteps
    BY <1>0, <1>1, StartUpCalls DEF StartThread
  <2>2. PICK u \in Threads \ {"main"} : pc' = [pc EXCEPT ![u] = "start"]
    BY <1>1, <2>1, StartUpCalls DEF StartThread
  <2>3. UNCHANGED <<suspended, mbq, timeMes, dhtMes>>
    BY <1>1 DEF StartThread
  <2>4. Shape'
    BY <2>2, <2>3 DEF Shape
  <2>5. pc'["main"] = pc["main"] /\ \A t \in Threads \ {"main"} : pc'[t] \in {pc[t], "start"}
    BY <2>2 DEF Shape, Threads
  <2> QED
    BY <1>0, <2>1, <2>3, <2>4, <2>5 DEF MainMoves
<1>2. CASE InitMailbox
  <2>1. boot - 4 \in 1 .. 4 /\ boot' = boot + 1 /\ boot < BootSteps
    BY <1>0, <1>2, StartUpCalls DEF InitMailbox
  <2>2. mbq' = [mbq EXCEPT ![InitOrder[boot - 5 + 1]] = <<>>]
    BY <1>2, StartUpCalls DEF InitMailbox
  <2>3. boot - 5 + 1 = boot - 4
    BY <1>0
  <2>4. PICK b \in Boxes : mbq' = [mbq EXCEPT ![b] = <<>>]
    BY <2>1, <2>2, <2>3, StartUpCalls
  <2>5. UNCHANGED <<pc, suspended, timeMes, dhtMes>>
    BY <1>2 DEF InitMailbox
  <2>6. Shape' /\ \A c \in Boxes : mbq[c] = <<>> => mbq'[c] = <<>>
    BY <2>4, <2>5 DEF Shape
  <2> QED
    BY <1>0, <2>1, <2>5, <2>6 DEF MainMoves, Shape
<1>3. CASE MainLoop
  BY <1>0, <1>3, StartUpCalls
  DEF MainLoop, At, SleepThen, Goto, Shape, MainMoves, Threads
<1> QED
  BY <1>0, <1>1, <1>2, <1>3 DEF MainStep

\* The kernel wakes threads and stops those whose assertion fails.
LEMMA KernelOthers ==
    ASSUME Shape, KernelStep
    PROVE  /\ Shape'
           /\ UNCHANGED <<mbq, timeMes, dhtMes, sample, now, oled_sign, boot>>
           /\ suspended' \subseteq suspended
           /\ rtc \in Nat => rtc' \in Nat
           /\ \A t \in Threads :
                \/ pc'[t] = pc[t]
                \/ pc'[t] = "halt" /\ Runs(t) /\ AtMailbox(t)
<1> USE DEF Shape, Threads, Boxes, NoLocals, Local, timeVars, oledVars, kernelVars
<1>1. ASSUME NEW t \in Threads \ {"main"}, Wake(t), NoLocals
      PROVE  UNCHANGED <<pc, mbq, timeMes, dhtMes, sample, timeVars, oled_sign, boot>>
             /\ suspended' \subseteq suspended
  BY <1>1 DEF Wake
<1>2. ASSUME NEW t \in Threads, AssertFails(t), NoLocals
      PROVE  /\ UNCHANGED <<suspended, mbq, timeMes, dhtMes, sample, timeVars, oled_sign, boot>>
             /\ pc' = [pc EXCEPT ![t] = "halt"] /\ Runs(t) /\ AtMailbox(t)
  BY <1>2 DEF AssertFails, Goto
<1>3. ASSUME ClockTick, Local("time")
      PROVE  /\ UNCHANGED <<pc, suspended, mbq, timeMes, dhtMes, sample, now, oled_sign, boot>>
             /\ rtc' = rtc + 1
  BY <1>3 DEF ClockTick
<1>4. ASSUME HeapReuse, Local("wea")
      PROVE  UNCHANGED <<pc, suspended, mbq, timeMes, dhtMes, sample, timeVars, oled_sign, boot>>
  BY <1>4 DEF HeapReuse
<1>5. CASE \E t \in Threads \ {"main"} : Wake(t) /\ NoLocals
  BY <1>1, <1>5
<1>6. CASE \E t \in Threads : AssertFails(t) /\ NoLocals
  BY <1>2, <1>6
<1>7. CASE ClockTick /\ Local("time")
  BY <1>3, <1>7
<1>8. CASE HeapReuse /\ Local("wea")
  BY <1>4, <1>8
<1> QED
  BY <1>5, <1>6, <1>7, <1>8 DEF KernelStep

\* The frame of a thread's step, main excepted.
LEMMA ThreadOthers ==
    ASSUME Shape, NEW t \in Threads \ {"main"}, ThreadStep(t)
    PROVE  Shape' /\ Others(t)
BY TimeOthers, DhtOthers, MpuOthers, WeatherOthers, OledOthers DEF Threads

\* Every step keeps the start-up invariant.
LEMMA BootStep ==
    ASSUME Shape, BootInv, [Next]_vars
    PROVE  Shape' /\ BootInv'
<1>1. CASE UNCHANGED vars
  BY <1>1 DEF vars, kernelVars, Shape, BootInv, Booting
<1>2. CASE KernelStep
  <2>1. Shape' /\ boot' = boot
    BY <1>2, KernelOthers
  <2>2. ASSUME Booting PROVE Booting'
    <3>1. \A t \in Threads : pc'[t] = pc[t]
      BY <1>2, <2>2, KernelOthers, OnlyMainRuns DEF AtMailbox, SendBox
    <3>2. suspended' = {}
      BY <1>2, <2>2, KernelOthers DEF Booting
    <3> QED
      BY <2>2, <3>1, <3>2 DEF Booting, Threads
  <2> QED
    BY <2>1, <2>2 DEF BootInv
<1>3. ASSUME ThreadStep("main") PROVE Shape' /\ BootInv'
  BY <1>3, MainOthers, StartUpCalls DEF MainMoves, BootInv, Booting, Threads
<1>4. ASSUME NEW t \in Threads \ {"main"}, ThreadStep(t) PROVE Shape' /\ BootInv'
  <2>1. ~Booting
    BY <1>4, StepRuns, OnlyMainRuns
  <2>2. Shape' /\ boot' = boot
    BY <1>4, ThreadOthers DEF Others
  <2> QED
    BY <2>1, <2>2 DEF BootInv
<1> QED
  BY <1>1, <1>2, <1>3, <1>4, StepKinds

\* The start-up invariant holds when main begins to run.
LEMMA BootInit == Init => Shape /\ BootInv
BY StartUpCalls DEF Init, Shape, BootInv, Booting, Threads, Boxes

\* A thread that has not run yet is at no mailbox; once main is through, every
\* mailbox is initialised.
LEMMA BootSafe ==
    ASSUME BootInv
    PROVE  NoUseBeforeInit
<1> SUFFICES ASSUME NEW t \in Threads, AtMailbox(t)
             PROVE  Initialised(BoxOf(t))
  BY DEF NoUseBeforeInit
<1>1. boot = 9
  BY StartUpCalls DEF BootInv, Booting, AtMailbox, SendBox, OledBox, Threads
<1>2. BoxOf(t) \in {"weather", "time", "mpu", "dht"}
  BY DEF BoxOf, AtMailbox, SendBox, OledBox
<1> QED
  BY <1>1, <1>2, StartUpCalls DEF Initialised, InitOrder

\* main starts the threads before it initialises their mailboxes, but no thread
\* gets to a mailbox that main has not initialised, because none is as urgent
\* as main (main.c).
THEOREM NoEarlyUse == Spec => []NoUseBeforeInit
<1>1. Init => Shape /\ BootInv
  BY BootInit
<1>2. Shape /\ BootInv /\ [Next]_vars => (Shape /\ BootInv)'
  BY BootStep
<1>3. BootInv => NoUseBeforeInit
  BY BootSafe
<1> QED
  BY <1>1, <1>2, <1>3, PTL DEF Spec

------------------------------------------------------------------------------
(* Records.                                                                *)

\* Every field of the time record has been written.
TimeFilled == \A f \in TimeFields : timeMes[f] # Junk

DhtFilled == dhtMes["temp"] # Junk /\ dhtMes["humi"] # Junk

\* The time record is whole except between the first and the last copy into
\* it, and there the time thread does not sleep; a mail means that it has been
\* filled.
TimeInv ==
    /\ timeMes = [f \in TimeFields |-> timeMes[f]]
    /\ rtc \in Nat /\ now \in Nat
    /\ "time" \in suspended => pc["time"] \in {"setTime", "read"}
    /\ pc["time"] \notin {"year", "week", "mouth"} =>
        \A f, g \in TimeFields : timeMes[f] = timeMes[g]
    /\ pc["time"] \in {"year", "week", "mouth", "send"} => timeMes["hour"] = now
    /\ pc["time"] \in {"week", "mouth", "send"} => timeMes["year"] = now
    /\ pc["time"] \in {"mouth", "send"} => timeMes["week"] = now
    /\ mbq["time"] # <<>> => TimeFilled

\* The same for the DHT11 record.
DhtInv ==
    /\ dhtMes = [f \in {"temp", "humi"} |-> dhtMes[f]]
    /\ "dht" \in suspended => pc["dht"] = "read"
    /\ pc["dht"] # "humi" => dhtMes["temp"] = dhtMes["humi"]
    /\ pc["dht"] \in {"temp", "humi", "send"} => sample \in Nat
    /\ pc["dht"] \in {"humi", "send"} => dhtMes["temp"] = sample
    /\ mbq["dht"] # <<>> => DhtFilled

\* The OLED thread draws a record only after a mail of its producer.
OledInv ==
    /\ pc["oled"] = "timeRecv" => oled_sign = 0
    /\ pc["oled"] = "dhtRecv" => oled_sign = 1
    /\ pc["oled"] = "draw" /\ oled_sign = 0 => TimeFilled
    /\ pc["oled"] = "draw" /\ oled_sign = 1 => DhtFilled

\* A time stamp or a sample is not what rt_malloc leaves behind.
LEMMA JunkIsNone == \A n \in Nat : n # Junk
BY DEF Junk

\* The time thread keeps its record (my_time.c).
LEMMA TimeStepInv ==
    ASSUME Shape, TimeInv, ThreadStep("time")
    PROVE  TimeInv' /\ (TimeFilled => TimeFilled')
<1> USE DEF Shape, Threads, TimeFields, TimeFilled, At, Goto, SleepThen
<1>0. TimeStep /\ "time" \notin suspended
  BY StepRuns DEF ThreadStep, Runs, Ready
<1>1. CASE TimeStart
  BY <1>0, <1>1 DEF TimeStart, TimeInv
<1>2. CASE TimeSet
  BY <1>0, <1>2 DEF TimeSet, TimeInv
<1>3. CASE TimeRead
  BY <1>0, <1>3 DEF TimeRead, TimeInv
<1>4. ASSUME NEW f \in TimeFields, TimeCopy(f)
      PROVE  TimeInv' /\ (TimeFilled => TimeFilled')
  <2>1. now # Junk
    BY JunkIsNone DEF TimeInv
  <2>2. /\ pc["time"] = f /\ pc'["time"] = AfterField[f]
        /\ timeMes' = [timeMes EXCEPT ![f] = now]
        /\ UNCHANGED <<suspended, mbq, rtc, now>>
    BY <1>4 DEF TimeCopy
  <2>3. /\ timeMes' = [g \in TimeFields |-> timeMes'[g]]
        /\ timeMes'[f] = now
        /\ \A g \in TimeFields : g # f => timeMes'[g] = timeMes[g]
    BY <2>2 DEF TimeInv
  <2>4. TimeFilled => TimeFilled'
    BY <2>1, <2>3
  <2>5. mbq'["time"] # <<>> => TimeFilled'
    BY <2>2, <2>4 DEF TimeInv
  <2> HIDE DEF TimeFilled
  <2>6. rtc' \in Nat /\ now' \in Nat /\ now' = now /\ "time" \notin suspended'
    BY <1>0, <2>2 DEF TimeInv
  <2>7. CASE f = "hour"
    <3>1. pc'["time"] = "year" /\ timeMes'["hour"] = now
      BY <2>2, <2>3, <2>7 DEF AfterField
    <3> QED
      BY <2>3, <2>4, <2>5, <2>6, <3>1 DEF TimeInv
  <2>8. CASE f = "year"
    <3>1. pc'["time"] = "week" /\ timeMes'["hour"] = now /\ timeMes'["year"] = now
      BY <2>2, <2>3, <2>8 DEF AfterField, TimeInv
    <3> QED
      BY <2>3, <2>4, <2>5, <2>6, <3>1 DEF TimeInv
  <2>9. CASE f = "week"
    <3>1. pc'["time"] = "mouth" /\ \A g \in TimeFields \ {"mouth"} : timeMes'[g] = now
      BY <2>2, <2>3, <2>9 DEF AfterField, TimeInv
    <3> QED
      BY <2>3, <2>4, <2>5, <2>6, <3>1 DEF TimeInv
  <2>10. CASE f = "mouth"
    <3>1. pc'["time"] = "send" /\ \A g \in TimeFields : timeMes'[g] = now
      BY <2>2, <2>3, <2>10 DEF AfterField, TimeInv
    <3> QED
      BY <2>3, <2>4, <2>5, <2>6, <3>1 DEF TimeInv
  <2> QED
    BY <2>7, <2>8, <2>9, <2>10
<1>5. CASE TimeSend
  <2>1. timeMes' = timeMes /\ pc["time"] = "send" /\ now' = now /\ rtc' = rtc
        /\ pc'["time"] = "read"
    BY <1>5 DEF TimeSend
  <2>2. TimeFilled
    BY <2>1, JunkIsNone DEF TimeInv
  <2> QED
    BY <2>1, <2>2 DEF TimeInv
<1> QED
  BY <1>0, <1>1, <1>2, <1>3, <1>4, <1>5 DEF TimeStep

\* The DHT11 thread keeps its record (my_dht11.c).
LEMMA DhtStepInv ==
    ASSUME Shape, DhtInv, ThreadStep("dht")
    PROVE  DhtInv' /\ (DhtFilled => DhtFilled')
<1> USE DEF Shape, Threads, DhtFilled, At, Goto, SleepThen
<1>0. DhtStep /\ "dht" \notin suspended
  BY StepRuns DEF ThreadStep, Runs, Ready
<1>1. CASE DhtStart
  BY <1>0, <1>1 DEF DhtStart, DhtInv
<1>2. CASE DhtRead
  BY <1>0, <1>2, SamplesAssumption DEF DhtRead, DhtInv
<1>3. ASSUME NEW f \in {"temp", "humi"}, DhtPrint(f)
      PROVE  DhtInv' /\ (DhtFilled => DhtFilled')
  <2>1. sample # Junk
    BY <1>3, JunkIsNone DEF DhtInv, DhtPrint
  <2> QED
    BY <1>0, <1>3, <2>1 DEF DhtPrint, DhtInv
<1>4. CASE DhtSend
  <2>1. dhtMes' = dhtMes /\ pc["dht"] = "send" /\ sample' = sample /\ pc'["dht"] = "read"
    BY <1>4 DEF DhtSend
  <2>2. DhtFilled
    BY <2>1, JunkIsNone DEF DhtInv
  <2> QED
    BY <2>1, <2>2 DEF DhtInv
<1> QED
  BY <1>0, <1>1, <1>2, <1>3, <1>4 DEF DhtStep

\* The OLED thread goes on to draw a record only behind a mail (oled.c).
LEMMA OledStepInv ==
    ASSUME Shape, TimeInv, DhtInv, OledInv, ThreadStep("oled")
    PROVE  OledInv'
<1> USE DEF Shape, Threads, TimeFilled, DhtFilled, At, Goto, SleepThen, oledVars
<1>0. OledStep /\ UNCHANGED <<timeMes, dhtMes>>
  BY OledOthers DEF ThreadStep, Others
<1>1. CASE OledStart \/ OledLoading
  BY <1>0, <1>1 DEF OledStart, OledLoading, OledInv
<1>2. CASE OledRecvWeather \/ OledDetach
  BY <1>0, <1>2 DEF OledRecvWeather, OledDetach, OledInv
<1>3. CASE OledPollMail \/ OledPollEmpty
  <2>1. pc'["oled"] = PagePoint(oled_sign')
    BY <1>3 DEF OledPollMail, OledPollEmpty
  <2> QED
    BY <1>0, <2>1 DEF PagePoint, OledInv
<1>4. CASE OledRecvTime
  BY <1>0, <1>4 DEF OledRecvTime, Receive, OledInv, TimeInv
<1>5. CASE OledRecvDht
  BY <1>0, <1>5 DEF OledRecvDht, Receive, OledInv, DhtInv
<1>6. CASE OledDraw
  BY <1>0, <1>6 DEF OledDraw, kernelVars, OledInv
<1>7. CASE OledFlush
  BY <1>0, <1>7 DEF OledFlush, OledInv
<1> QED
  BY <1>0, <1>1, <1>2, <1>3, <1>4, <1>5, <1>6, <1>7 DEF OledStep

RecordInv == Shape /\ BootInv /\ TimeInv /\ DhtInv /\ OledInv

\* Every step keeps the records.
LEMMA RecordStep ==
    ASSUME RecordInv, [Next]_vars
    PROVE  RecordInv'
<1> USE DEF RecordInv
<1>0. Shape' /\ BootInv'
  BY BootStep
<1>1. CASE UNCHANGED vars
  BY <1>1, <1>0 DEF vars, kernelVars, timeVars, oledVars, TimeInv, DhtInv, OledInv,
                    TimeFilled, DhtFilled
<1>2. CASE KernelStep
  <2>1. /\ UNCHANGED <<mbq, timeMes, dhtMes, sample, now, oled_sign>>
        /\ suspended' \subseteq suspended
        /\ rtc \in Nat => rtc' \in Nat
        /\ \A t \in Threads : \/ pc'[t] = pc[t]
                              \/ pc'[t] = "halt" /\ Runs(t) /\ AtMailbox(t)
    BY <1>2, KernelOthers
  <2> USE DEF Threads, TimeFilled, DhtFilled
  <2>2. TimeInv'
    <3>1. CASE pc'["time"] = pc["time"]
      BY <2>1, <3>1 DEF TimeInv
    <3>2. CASE pc'["time"] = "halt" /\ Runs("time") /\ AtMailbox("time")
      BY <2>1, <3>2 DEF TimeInv, Runs, Ready, AtMailbox
    <3> QED
      BY <2>1, <3>1, <3>2
  <2>3. DhtInv'
    <3>1. CASE pc'["dht"] = pc["dht"]
      BY <2>1, <3>1 DEF DhtInv
    <3>2. CASE pc'["dht"] = "halt" /\ Runs("dht") /\ AtMailbox("dht")
      BY <2>1, <3>2 DEF DhtInv, Runs, Ready, AtMailbox
    <3> QED
      BY <2>1, <3>1, <3>2
  <2>4. OledInv'
    BY <2>1 DEF OledInv
  <2> QED
    BY <1>0, <2>2, <2>3, <2>4
<1>3. ASSUME ThreadStep("main") PROVE RecordInv'
  <2> USE DEF Threads, Boxes, TimeFilled, DhtFilled
  <2>1. MainMoves
    BY <1>3, MainOthers
  <2>2. /\ UNCHANGED <<timeMes, rtc, now, dhtMes, sample, oled_sign>>
        /\ \A b \in Boxes : mbq[b] = <<>> => mbq'[b] = <<>>
    BY <2>1 DEF MainMoves, timeVars
  <2>3. CASE boot < BootSteps
    <3>1. Booting /\ suspended' = {}
          /\ \A t \in Threads \ {"main"} : pc'[t] \in {pc[t], "start"}
      BY <2>1, <2>3, StartUpCalls DEF MainMoves, BootInv, Booting
    <3>2. \A t \in Threads \ {"main"} : {pc[t], pc'[t]} \subseteq {"new", "start"}
      BY <3>1 DEF Booting
    <3> QED
      BY <1>0, <2>2, <3>1, <3>2 DEF TimeInv, DhtInv, OledInv
  <2>4. CASE boot = BootSteps
    <3>1. suspended' = suspended \cup {"main"} /\ \A t \in Threads : pc'[t] = pc[t]
      BY <2>1, <2>4, StartUpCalls DEF MainMoves
    <3> QED
      BY <1>0, <2>2, <3>1 DEF TimeInv, DhtInv, OledInv
  <2> QED
    BY <2>3, <2>4, StartUpCalls DEF BootInv
<1>4. ASSUME NEW t \in Threads \ {"main"}, ThreadStep(t) PROVE RecordInv'
  <2> USE DEF Threads, TimeFilled, DhtFilled
  <2>1. Others(t)
    BY <1>4, ThreadOthers
  <2>2. TimeInv' /\ (TimeFilled => TimeFilled')
    <3>1. CASE t = "time"
      BY <1>4, <3>1, TimeStepInv
    <3>2. CASE t # "time"
      BY <2>1, <3>2 DEF Others, TimeInv, timeVars
    <3> QED
      BY <3>1, <3>2
  <2>3. DhtInv' /\ (DhtFilled => DhtFilled')
    <3>1. CASE t = "dht"
      BY <1>4, <3>1, DhtStepInv
    <3>2. CASE t # "dht"
      BY <2>1, <3>2 DEF Others, DhtInv
    <3> QED
      BY <3>1, <3>2
  <2>4. OledInv'
    <3>1. CASE t = "oled"
      BY <1>4, <3>1, OledStepInv
    <3>2. CASE t # "oled"
      BY <2>1, <2>2, <2>3, <3>2 DEF Others, OledInv
    <3> QED
      BY <3>1, <3>2
  <2> QED
    BY <1>0, <2>2, <2>3, <2>4
<1> QED
  BY <1>1, <1>2, <1>3, <1>4, StepKinds

\* Before main runs no record has been touched.
LEMMA RecordInit == Init => RecordInv
<1> SUFFICES ASSUME Init PROVE RecordInv
  OBVIOUS
<1>1. Shape /\ BootInv
  BY BootInit
<1>2. TimeInv
  BY DEF Init, TimeInit, TimeInv, Threads, Boxes, TimeFields
<1>3. DhtInv
  BY DEF Init, DhtInv, Threads, Boxes
<1>4. OledInv
  BY DEF Init, OledInv, Threads
<1> QED
  BY <1>1, <1>2, <1>3, <1>4 DEF RecordInv

\* When the OLED thread runs, its producers sleep, wait or have ended, so their
\* records are whole.
LEMMA RecordSafe ==
    ASSUME RecordInv
    PROVE  DrawsWholeRecords
<1> SUFFICES ASSUME Runs("oled"), pc["oled"] = "draw"
             PROVE  /\ oled_sign = 0 =>
                        \A f, g \in TimeFields : timeMes[f] = timeMes[g] /\ timeMes[f] # Junk
                    /\ oled_sign = 1 =>
                        dhtMes["temp"] = dhtMes["humi"] /\ dhtMes["temp"] # Junk
  BY DEF DrawsWholeRecords, At
<1>1. ~Ready("time") /\ ~Ready("dht")
  BY DEF Runs, Priority, Threads
<1>2. pc["time"] \notin {"year", "week", "mouth"}
  BY <1>1 DEF Ready, WaitsForMail, RecordInv, TimeInv
<1>3. pc["dht"] # "humi"
  BY <1>1 DEF Ready, WaitsForMail, RecordInv, DhtInv
<1> QED
  BY <1>2, <1>3 DEF RecordInv, TimeInv, DhtInv, OledInv, TimeFilled, DhtFilled

\* The OLED thread holds the address of a record its producer goes on writing,
\* yet it never draws from one that is half written or was never filled,
\* because both producers are more urgent and do not sleep while they write
\* (my_time.c, my_dht11.c, oled.c).
THEOREM WholeRecords == Spec => []DrawsWholeRecords
<1>1. Init => RecordInv
  BY RecordInit
<1>2. RecordInv /\ [Next]_vars => RecordInv'
  BY RecordStep
<1>3. RecordInv => DrawsWholeRecords
  BY RecordSafe
<1> QED
  BY <1>1, <1>2, <1>3, PTL DEF Spec

------------------------------------------------------------------------------
(* Types.                                                                  *)

\* Where a thread may stand.
Stands(t) == pc[t] \in Points[t] \cup {"new", "start", "exit", "halt"}

\* A mailbox holds mails that name something, and no more than it has room for.
QueueOK(b) == mbq[b] \in Seq(Mail[b]) /\ Len(mbq[b]) <= MbSize

\* What the types of the next state rest on: the weather thread has a record
\* while it sends and frees one, and has read no more than was left; the OLED
\* thread has drawn something only while it draws.
LinkInv ==
    /\ pc["wea"] \in {"parse", "send", "free", "check"} => got <= left
    /\ pc["wea"] \in {"send", "free"} => weaMes # <<>>
    /\ frame # <<>> => pc["oled"] = "draw"

\* The points of each thread, and the mails of each mailbox.
LEMMA PointsOf ==
    /\ Points["main"] = {"start"}
    /\ Points["time"] = {"setTime", "read", "send"} \cup TimeFields
    /\ Points["dht"] = {"read", "temp", "humi", "send"}
    /\ Points["mpu"] = {"dmp", "read", "send"}
    /\ Points["wea"] = {"buffer", "session", "get", "status", "read", "result", "parse",
                        "send", "free", "check", "cleanup"}
    /\ Points["oled"] = {"loading", "draw", "weaRecv", "weaDetach", "poll", "timeRecv", "dhtRecv"}
<1>1. DOMAIN OledBox = {"weaRecv", "weaDetach", "poll", "timeRecv", "dhtRecv"}
  BY DEF OledBox
<1> QED
  BY <1>1 DEF Points

\* What a mail of each mailbox names.
LEMMA MailOf ==
    /\ Mail["weather"] = 1 .. Len(weaMes) /\ Mail["time"] = {"mes"}
    /\ Mail["dht"] = {"msg"} /\ Mail["mpu"] = 0 .. 2
BY DEF Mail, Page_Max

\* rt_mb_send of a mail that names something keeps every mailbox.
LEMMA SendType ==
    ASSUME Shape, \A c \in Boxes : QueueOK(c), NEW b \in Boxes, NEW mail \in Mail[b],
           Send(b, mail), weaMes' = weaMes
    PROVE  \A c \in Boxes : QueueOK(c)'
<1>1. Mail' = Mail
  BY DEF Mail
<1> HIDE DEF Mail
<1> DEFINE q == mbq[b]
           r == Append(q, mail)
<1>2. q \in Seq(Mail[b]) /\ Len(q) <= MbSize
  BY DEF QueueOK
<1>3. CASE Full(b)
  BY <1>1, <1>3 DEF Send, QueueOK
<1>4. CASE ~Full(b)
  <2>1. mbq' = [mbq EXCEPT ![b] = r] /\ Len(q) # MbSize
    BY <1>4 DEF Send, Full
  <2> HIDE DEF q
  <2>2. r \in Seq(Mail[b]) /\ Len(r) = Len(q) + 1 /\ Len(q) \in Nat
    <3>1. Len(q) \in Nat
      BY <1>2, LenProperties
    <3>2. r \in Seq(Mail[b]) /\ Len(r) = Len(q) + 1
      BY <1>2, AppendProperties
    <3> QED
      BY <3>1, <3>2
  <2> HIDE DEF r
  <2>3. Len(r) <= MbSize
    BY <1>2, <2>1, <2>2, MbSizeAssumption
  <2>4. mbq'[b] = r /\ \A c \in Boxes \ {b} : mbq'[c] = mbq[c]
    BY <2>1 DEF Shape
  <2> QED
    BY <1>1, <2>2, <2>3, <2>4 DEF QueueOK
<1> QED
  BY <1>3, <1>4

\* rt_mb_recv takes a mail that names something and keeps every mailbox.
LEMMA ReceiveType ==
    ASSUME Shape, \A c \in Boxes : QueueOK(c), NEW b \in Boxes, NEW mail,
           Receive(b, mail), weaMes' = weaMes
    PROVE  mail \in Mail[b] /\ \A c \in Boxes : QueueOK(c)'
<1>1. Mail' = Mail
  BY DEF Mail
<1> HIDE DEF Mail
<1> DEFINE q == mbq[b]
           r == Tail(q)
<1>2. q \in Seq(Mail[b]) /\ Len(q) <= MbSize /\ q # <<>>
  BY DEF QueueOK, Receive
<1>3. mbq' = [mbq EXCEPT ![b] = r] /\ mail = Head(q)
  BY DEF Receive
<1>4. /\ r \in Seq(Mail[b]) /\ Len(r) = Len(q) - 1 /\ Len(q) \in Nat /\ Len(r) \in Nat
      /\ mail \in Mail[b]
  BY <1>2, <1>3, HeadTailProperties, LenProperties
<1> HIDE DEF q, r
<1>5. Len(r) <= MbSize
  BY <1>2, <1>4, MbSizeAssumption
<1>6. mbq'[b] = r /\ \A c \in Boxes \ {b} : mbq'[c] = mbq[c]
  BY <1>3 DEF Shape
<1> QED
  BY <1>1, <1>4, <1>5, <1>6 DEF QueueOK

\* The parts of TypeOK.
LEMMA TypeParts ==
    TypeOK <=> /\ \A t \in Threads : Stands(t)
               /\ suspended \subseteq Threads
               /\ mbType \in [Boxes -> {"Null", "MailBox"}]
               /\ \A b \in Boxes : QueueOK(b)
               /\ timeMes \in [TimeFields -> Stamps \cup {Junk}]
               /\ dhtMes \in [{"temp", "humi"} -> Samples \cup {Junk}]
               /\ weaMes \in Seq({"unset", "weather", "freed", "foreign"})
               /\ boot \in 0 .. BootSteps
               /\ TimeTypeOK /\ DhtTypeOK /\ MpuTypeOK /\ WeaTypeOK
               /\ oled_sign \in 0 .. 2
               /\ str_wea \in 0 .. Len(weaMes)
               /\ frame \in Seq(Texts(oled_sign)) /\ Len(frame) <= Len(Fields[oled_sign])
               /\ screen \in {Off, Loading} \cup 0 .. 2
BY DEF TypeOK, Stands, QueueOK, Texts, Page_Max

\* The step of one thread moves no other.
LEMMA OneStands ==
    ASSUME NEW t \in Threads, \A u \in Threads : Stands(u), Others(t),
           pc'[t] \in Points[t] \cup {"new", "start", "exit", "halt"}
    PROVE  \A u \in Threads : Stands(u)'
<1>1. Points' = Points
  BY DEF Points, TimeFields, OledBox
<1>2. \A u \in Threads \ {t} : pc'[u] = pc[u]
  BY DEF Others
<1> QED
  BY <1>1, <1>2 DEF Stands

\* The time thread keeps the types.
LEMMA TimeTypes ==
    ASSUME Shape, TypeOK, ThreadStep("time")
    PROVE  TypeOK'
<1>0. /\ TimeStep /\ UNCHANGED <<sample, mpuVars, weaVars, oledVars, boot>>
      /\ Others("time") /\ "time" \in Threads /\ "time" \in Boxes
  BY TimeOthers DEF ThreadStep, Local, Threads, Boxes
<1>1. /\ \A t \in Threads : Stands(t)
      /\ suspended \subseteq Threads /\ \A b \in Boxes : QueueOK(b)
      /\ timeMes \in [TimeFields -> Stamps \cup {Junk}] /\ rtc \in Stamps /\ now \in Stamps
  BY TypeParts DEF TimeTypeOK
<1>2. UNCHANGED <<mbType, dhtMes, weaMes>>
  BY <1>0 DEF TimeStep, TimeStart, TimeSet, TimeRead, TimeCopy, TimeSend
<1>3. pc'["time"] \in {"setTime", "read", "send"} \cup TimeFields
  BY <1>0 DEF TimeStep, TimeStart, TimeSet, TimeRead, TimeCopy, TimeSend, Goto, SleepThen,
              Shape, TimeFields, AfterField
<1>4. \A t \in Threads : Stands(t)'
  BY <1>0, <1>1, <1>3, PointsOf, OneStands
<1>5. suspended' \subseteq Threads
  BY <1>0, <1>1 DEF TimeStep, TimeStart, TimeSet, TimeRead, TimeCopy, TimeSend, SleepThen
<1>6. rtc' \in Stamps /\ now' \in Stamps
  BY <1>0, <1>1, TimeAssumption
  DEF TimeStep, TimeStart, TimeSet, TimeRead, TimeCopy, TimeSend, Stamps
<1>7. timeMes' \in [TimeFields -> Stamps \cup {Junk}]
  BY <1>0, <1>1 DEF TimeStep, TimeStart, TimeSet, TimeRead, TimeCopy, TimeSend
<1>8. \A b \in Boxes : QueueOK(b)'
  <2>1. CASE TimeSend
    <3>1. Send("time", "mes") /\ "mes" \in Mail["time"]
      BY <2>1, MailOf DEF TimeSend
    <3> QED
      BY <1>0, <1>1, <1>2, <3>1, SendType
  <2>2. CASE ~TimeSend
    <3>1. mbq' = mbq
      BY <1>0, <2>2 DEF TimeStep, TimeStart, TimeSet, TimeRead, TimeCopy
    <3> QED
      BY <1>1, <1>2, <3>1 DEF QueueOK, Mail
  <2> QED
    BY <2>1, <2>2
<1>9. UNCHANGED <<sample, page, page_buff, lost, owned, buf, left, got, oled_sign, str_wea,
                  frame, screen, boot, mbType, dhtMes, weaMes>>
  BY <1>0, <1>2 DEF mpuVars, weaVars, oledVars
<1> QED
  BY <1>4, <1>5, <1>6, <1>7, <1>8, <1>9, TypeParts
  DEF TypeOK, Stands, QueueOK, TimeTypeOK, DhtTypeOK, MpuTypeOK, WeaTypeOK, Texts

\* The DHT11 thread keeps the types.
LEMMA DhtTypes ==
    ASSUME Shape, TypeOK, ThreadStep("dht")
    PROVE  TypeOK'
<1>0. /\ DhtStep /\ UNCHANGED <<timeVars, mpuVars, weaVars, oledVars, boot>>
      /\ Others("dht") /\ "dht" \in Threads /\ "dht" \in Boxes
  BY DhtOthers DEF ThreadStep, Local, Threads, Boxes
<1>1. /\ \A t \in Threads : Stands(t)
      /\ suspended \subseteq Threads /\ \A b \in Boxes : QueueOK(b)
      /\ dhtMes \in [{"temp", "humi"} -> Samples \cup {Junk}] /\ sample \in Samples \cup {Junk}
  BY TypeParts DEF DhtTypeOK
<1>2. UNCHANGED <<mbType, timeMes, weaMes>>
  BY <1>0 DEF DhtStep, DhtStart, DhtRead, DhtPrint, DhtSend
<1>3. pc'["dht"] \in {"read", "temp", "humi", "send", "exit"}
  BY <1>0 DEF DhtStep, DhtStart, DhtRead, DhtPrint, DhtSend, Goto, SleepThen, Shape
<1>4. \A t \in Threads : Stands(t)'
  BY <1>0, <1>1, <1>3, PointsOf, OneStands
<1>5. suspended' \subseteq Threads
  BY <1>0, <1>1 DEF DhtStep, DhtStart, DhtRead, DhtPrint, DhtSend, SleepThen
<1>6. sample' \in Samples \cup {Junk}
  BY <1>0, <1>1 DEF DhtStep, DhtStart, DhtRead, DhtPrint, DhtSend
<1>7. dhtMes' \in [{"temp", "humi"} -> Samples \cup {Junk}]
  BY <1>0, <1>1 DEF DhtStep, DhtStart, DhtRead, DhtPrint, DhtSend
<1>8. \A b \in Boxes : QueueOK(b)'
  <2>1. CASE DhtSend
    <3>1. Send("dht", "msg") /\ "msg" \in Mail["dht"]
      BY <2>1, MailOf DEF DhtSend
    <3> QED
      BY <1>0, <1>1, <1>2, <3>1, SendType
  <2>2. CASE ~DhtSend
    <3>1. mbq' = mbq
      BY <1>0, <2>2 DEF DhtStep, DhtStart, DhtRead, DhtPrint
    <3> QED
      BY <1>1, <1>2, <3>1 DEF QueueOK, Mail
  <2> QED
    BY <2>1, <2>2
<1>9. UNCHANGED <<rtc, now, page, page_buff, lost, owned, buf, left, got, oled_sign, str_wea,
                  frame, screen, boot, mbType, timeMes, weaMes>>
  BY <1>0, <1>2 DEF timeVars, mpuVars, weaVars, oledVars
<1> QED
  BY <1>4, <1>5, <1>6, <1>7, <1>8, <1>9, TypeParts
  DEF TypeOK, Stands, QueueOK, TimeTypeOK, DhtTypeOK, MpuTypeOK, WeaTypeOK, Texts

\* The page selector keeps the types: a page turned is again a page.
LEMMA MpuTypes ==
    ASSUME Shape, TypeOK, ThreadStep("mpu")
    PROVE  TypeOK'
<1>0. /\ MpuStep /\ UNCHANGED <<timeVars, sample, weaVars, oledVars, boot>>
      /\ Others("mpu") /\ "mpu" \in Threads /\ "mpu" \in Boxes
  BY MpuOthers DEF ThreadStep, Local, Threads, Boxes
<1>1. /\ \A t \in Threads : Stands(t)
      /\ suspended \subseteq Threads /\ \A b \in Boxes : QueueOK(b)
      /\ page \in 0 .. 2 /\ page_buff \in {0, 1} /\ lost \in BOOLEAN
  BY TypeParts DEF MpuTypeOK, Page_Max
<1>2. UNCHANGED <<mbType, timeMes, dhtMes, weaMes>>
  BY <1>0 DEF MpuStep, MpuStart, MpuDmpInit, MpuTilt, MpuRest, MpuSend
<1>3. pc'["mpu"] \in {"dmp", "read", "send", "exit"}
  BY <1>0 DEF MpuStep, MpuStart, MpuDmpInit, MpuTilt, MpuRest, MpuSend, Goto, SleepThen, Shape
<1>4. \A t \in Threads : Stands(t)'
  BY <1>0, <1>1, <1>3, PointsOf, OneStands
<1>5. suspended' \subseteq Threads
  BY <1>0, <1>1 DEF MpuStep, MpuStart, MpuDmpInit, MpuTilt, MpuRest, MpuSend, SleepThen
<1>6. page' \in 0 .. 2
  BY <1>0, <1>1 DEF MpuStep, MpuStart, MpuDmpInit, MpuTilt, MpuRest, MpuSend, mpuVars, Turned,
                    Page_Max
<1>7. page_buff' \in {0, 1}
  BY <1>0, <1>1 DEF MpuStep, MpuStart, MpuDmpInit, MpuTilt, MpuRest, MpuSend, mpuVars
<1>8. lost' \in BOOLEAN
  BY <1>0, <1>1 DEF MpuStep, MpuStart, MpuDmpInit, MpuTilt, MpuRest, MpuSend, mpuVars, Full
<1>9. \A b \in Boxes : QueueOK(b)'
  <2>1. CASE MpuSend
    <3>1. Send("mpu", page) /\ page \in Mail["mpu"]
      BY <1>1, <2>1, MailOf DEF MpuSend
    <3> QED
      BY <1>0, <1>1, <1>2, <3>1, SendType
  <2>2. CASE ~MpuSend
    <3>1. mbq' = mbq
      BY <1>0, <2>2 DEF MpuStep, MpuStart, MpuDmpInit, MpuTilt, MpuRest
    <3> QED
      BY <1>1, <1>2, <3>1 DEF QueueOK, Mail
  <2> QED
    BY <2>1, <2>2
<1>10. UNCHANGED <<rtc, now, sample, owned, buf, left, got, oled_sign, str_wea,
                   frame, screen, boot, mbType, timeMes, dhtMes, weaMes>>
  BY <1>0, <1>2 DEF timeVars, weaVars, oledVars
<1> QED
  BY <1>4, <1>5, <1>6, <1>7, <1>8, <1>9, <1>10, TypeParts
  DEF TypeOK, Stands, QueueOK, TimeTypeOK, DhtTypeOK, MpuTypeOK, WeaTypeOK, Texts, Page_Max

\* Texts and the fields of the three pages.
LEMMA PagesOf ==
    /\ Texts(0) = Stamps \cup {Junk} /\ Texts(1) = Samples \cup {Junk}
    /\ Texts(2) = {"unset", "weather", "freed", "foreign"}
    /\ Len(Fields[0]) = 4 /\ Len(Fields[1]) = 2 /\ Len(Fields[2]) = 3
    /\ \A i \in 1 .. 4 : Fields[0][i] \in TimeFields
    /\ \A i \in 1 .. 2 : Fields[1][i] \in {"temp", "humi"}
BY DEF Texts, Fields, TimeFields

\* A field drawn on a page is a text of that page.
LEMMA DrawnText ==
    ASSUME TypeOK, NEW i \in 1 .. Len(Fields[oled_sign])
    PROVE  FieldNow(oled_sign, Fields[oled_sign][i]) \in Texts(oled_sign)
<1>1. /\ oled_sign \in 0 .. 2 /\ str_wea \in 0 .. Len(weaMes)
      /\ weaMes \in Seq({"unset", "weather", "freed", "foreign"})
      /\ timeMes \in [TimeFields -> Stamps \cup {Junk}]
      /\ dhtMes \in [{"temp", "humi"} -> Samples \cup {Junk}]
  BY TypeParts
<1>2. CASE oled_sign = 0
  BY <1>1, <1>2, PagesOf DEF FieldNow
<1>3. CASE oled_sign = 1
  BY <1>1, <1>3, PagesOf DEF FieldNow
<1>4. CASE oled_sign = 2
  <2>1. str_wea # 0 => weaMes[str_wea] \in Texts(2)
    BY <1>1, PagesOf, ElementOfSeq
  <2> QED
    BY <1>4, <2>1, PagesOf DEF FieldNow
<1> QED
  BY <1>1, <1>2, <1>3, <1>4

\* The OLED thread keeps the types: it draws only what its page has, and the
\* page changes only while nothing is drawn.
LEMMA OledTypes ==
    ASSUME Shape, TypeOK, LinkInv, ThreadStep("oled")
    PROVE  TypeOK'
<1>0. /\ OledStep /\ UNCHANGED <<timeVars, sample, mpuVars, weaVars, boot>>
      /\ Others("oled") /\ "oled" \in Threads
      /\ {"weather", "time", "dht", "mpu"} \subseteq Boxes
  BY OledOthers DEF ThreadStep, Local, Threads, Boxes
<1>1. /\ \A t \in Threads : Stands(t)
      /\ suspended \subseteq Threads /\ \A b \in Boxes : QueueOK(b)
      /\ mbType \in [Boxes -> {"Null", "MailBox"}]
      /\ oled_sign \in 0 .. 2 /\ str_wea \in 0 .. Len(weaMes)
      /\ frame \in Seq(Texts(oled_sign)) /\ Len(frame) <= Len(Fields[oled_sign])
      /\ screen \in {Off, Loading} \cup 0 .. 2
      /\ weaMes \in Seq({"unset", "weather", "freed", "foreign"})
  BY TypeParts
<1>2. UNCHANGED <<timeMes, dhtMes, weaMes>>
  BY <1>0 DEF OledStep, OledStart, OledLoading, OledRecvWeather, OledDetach, OledPollMail,
              OledPollEmpty, OledRecvTime, OledRecvDht, OledDraw, OledFlush, kernelVars
<1>3. pc'["oled"] \in {"loading", "draw", "weaRecv", "weaDetach", "poll", "timeRecv", "dhtRecv"}
  BY <1>0 DEF OledStep, OledStart, OledLoading, OledRecvWeather, OledDetach, OledPollMail,
              OledPollEmpty, OledRecvTime, OledRecvDht, OledDraw, OledFlush, kernelVars,
              Goto, SleepThen, Shape, PagePoint, At
<1>4. \A t \in Threads : Stands(t)'
  BY <1>0, <1>1, <1>3, PointsOf, OneStands
<1>5. suspended' \subseteq Threads
  BY <1>0, <1>1 DEF OledStep, OledStart, OledLoading, OledRecvWeather, OledDetach, OledPollMail,
              OledPollEmpty, OledRecvTime, OledRecvDht, OledDraw, OledFlush, kernelVars, SleepThen
<1>6. mbType' \in [Boxes -> {"Null", "MailBox"}]
  BY <1>0, <1>1 DEF OledStep, OledStart, OledLoading, OledRecvWeather, OledDetach, OledPollMail,
              OledPollEmpty, OledRecvTime, OledRecvDht, OledDraw, OledFlush, kernelVars
<1>7. ASSUME NEW b \in Boxes, NEW mail, Receive(b, mail)
      PROVE  mail \in Mail[b] /\ \A c \in Boxes : QueueOK(c)'
  BY <1>1, <1>2, <1>7, ReceiveType
<1>8. /\ \A b \in Boxes : QueueOK(b)'
      /\ str_wea' \in 0 .. Len(weaMes)
      /\ oled_sign' \in 0 .. 2
      /\ oled_sign' = oled_sign \/ pc["oled"] # "draw"
  <2>1. CASE OledRecvWeather
    <3>1. Receive("weather", str_wea') /\ oled_sign' = oled_sign
      BY <2>1 DEF OledRecvWeather
    <3>2. str_wea' \in 1 .. Len(weaMes) /\ \A c \in Boxes : QueueOK(c)'
      BY <1>0, <1>7, <3>1, MailOf
    <3>3. Len(weaMes) \in Nat
      BY <1>1, LenProperties
    <3> QED
      BY <1>1, <3>1, <3>2, <3>3
  <2>2. CASE OledPollMail
    <3>1. Receive("mpu", oled_sign') /\ str_wea' = str_wea /\ pc["oled"] = "poll"
      BY <2>2 DEF OledPollMail, At
    <3>2. oled_sign' \in 0 .. 2 /\ \A c \in Boxes : QueueOK(c)'
      BY <1>0, <1>7, <3>1, MailOf
    <3> QED
      BY <1>1, <3>1, <3>2
  <2>3. CASE OledRecvTime \/ OledRecvDht
    <3>1. (\E b \in Boxes : \E m : Receive(b, m)) /\ UNCHANGED <<str_wea, oled_sign>>
      BY <1>0, <2>3 DEF OledRecvTime, OledRecvDht, oledVars
    <3> QED
      BY <1>1, <1>7, <3>1
  <2>4. CASE OledStart \/ OledLoading \/ OledDetach \/ OledPollEmpty \/ OledDraw \/ OledFlush
    <3>1. mbq' = mbq /\ str_wea' = str_wea
      BY <2>4 DEF OledStart, OledLoading, OledDetach, OledPollEmpty, OledDraw, OledFlush,
                  kernelVars, oledVars
    <3>2. oled_sign' \in {0, oled_sign} /\ (oled_sign' = oled_sign \/ pc["oled"] # "draw")
      BY <2>4 DEF OledStart, OledLoading, OledDetach, OledPollEmpty, OledDraw, OledFlush,
                  oledVars, At
    <3>3. \A b \in Boxes : QueueOK(b)'
      BY <1>1, <1>2, <3>1 DEF QueueOK, Mail
    <3> QED
      BY <1>1, <3>1, <3>2, <3>3
  <2> QED
    BY <1>0, <2>1, <2>2, <2>3, <2>4 DEF OledStep
<1>9. screen' \in {Off, Loading} \cup 0 .. 2
  BY <1>0, <1>1 DEF OledStep, OledStart, OledLoading, OledRecvWeather, OledDetach, OledPollMail,
              OledPollEmpty, OledRecvTime, OledRecvDht, OledDraw, OledFlush, oledVars
<1>10. frame' \in Seq(Texts(oled_sign')) /\ Len(frame') <= Len(Fields[oled_sign'])
  <2>1. CASE OledDraw
    <3> DEFINE n == Len(Fields[oled_sign])
               x == FieldNow(oled_sign, Fields[oled_sign][Len(frame) + 1])
    <3>1. frame' = Append(frame, x) /\ Len(frame) < n /\ oled_sign' = oled_sign
      BY <2>1 DEF OledDraw
    <3>2. n \in Nat /\ Len(frame) \in Nat
      BY <1>1, PagesOf, LenProperties
    <3>3. Len(frame) + 1 \in 1 .. n
      BY <3>1, <3>2
    <3>4. x \in Texts(oled_sign)
      BY <3>3, DrawnText
    <3> HIDE DEF x
    <3>5. frame' \in Seq(Texts(oled_sign)) /\ Len(frame') = Len(frame) + 1
      BY <1>1, <3>1, <3>4, AppendProperties
    <3>6. Len(frame') <= n
      BY <3>1, <3>2, <3>5
    <3> QED
      BY <3>1, <3>5, <3>6
  <2>2. CASE frame' = frame /\ oled_sign' = oled_sign
    BY <1>1, <2>2
  <2>3. CASE frame' = <<>>
    <3>1. frame' \in Seq(Texts(oled_sign')) /\ Len(frame') = 0
      BY <2>3, EmptySeq
    <3>2. Len(Fields[oled_sign']) \in Nat
      BY <1>8, PagesOf
    <3> QED
      BY <3>1, <3>2
  <2>4. OledDraw \/ frame' = <<>> \/ frame' = frame
    BY <1>0 DEF OledStep, OledStart, OledLoading, OledRecvWeather, OledDetach, OledPollMail,
              OledPollEmpty, OledRecvTime, OledRecvDht, OledFlush, oledVars
  <2>5. CASE frame' = frame /\ oled_sign' # oled_sign
    BY <1>8, <2>3, <2>5 DEF LinkInv
  <2> QED
    BY <2>1, <2>2, <2>3, <2>4, <2>5
<1>11. UNCHANGED <<rtc, now, sample, page, page_buff, lost, owned, buf, left, got,
                   boot, timeMes, dhtMes, weaMes>>
  BY <1>0, <1>2 DEF timeVars, mpuVars, weaVars
<1> QED
  BY <1>1, <1>4, <1>5, <1>6, <1>8, <1>9, <1>10, <1>11, TypeParts
  DEF TypeOK, Stands, QueueOK, TimeTypeOK, DhtTypeOK, MpuTypeOK, WeaTypeOK, Texts, Page_Max

\* A record more, or one rewritten, keeps what the mails and the OLED thread
\* name.
LEMMA GrowQueues ==
    ASSUME \A b \in Boxes : QueueOK(b), mbq' = mbq,
           weaMes \in Seq({"unset", "weather", "freed", "foreign"}),
           weaMes' \in Seq({"unset", "weather", "freed", "foreign"}),
           Len(weaMes) <= Len(weaMes'), str_wea \in 0 .. Len(weaMes), str_wea' = str_wea
    PROVE  (\A b \in Boxes : QueueOK(b)') /\ str_wea' \in 0 .. Len(weaMes')
<1>1. Len(weaMes) \in Nat /\ Len(weaMes') \in Nat
  BY LenProperties
<1>2. 1 .. Len(weaMes) \subseteq 1 .. Len(weaMes')
  BY <1>1
<1>3. \A b \in Boxes : Mail[b] \subseteq Mail'[b]
  BY <1>2 DEF Mail, Boxes
<1>4. ASSUME NEW b \in Boxes PROVE QueueOK(b)'
  <2>1. mbq[b] \in Seq(Mail[b]) /\ Len(mbq[b]) <= MbSize
    BY DEF QueueOK
  <2> DEFINE S == Mail[b]
             T == Mail'[b]
             q == mbq[b]
  <2>2. q \in Seq(S) /\ S \subseteq T
    BY <1>3, <2>1
  <2> HIDE DEF S, T, q
  <2>3. q \in Seq(T)
    BY <2>2, SeqMonotonic
  <2> QED
    BY <2>1, <2>3 DEF QueueOK, T, q
<1> QED
  BY <1>1, <1>4

\* The weather thread keeps the types and what they rest on.
LEMMA WeatherTypes ==
    ASSUME Shape, TypeOK, LinkInv, ThreadStep("wea")
    PROVE  TypeOK' /\ LinkInv'
<1> DEFINE W == {"unset", "weather", "freed", "foreign"}
<1>0. /\ WeaStep /\ UNCHANGED <<timeVars, sample, mpuVars, oledVars, boot>>
      /\ Others("wea") /\ "wea" \in Threads /\ "oled" \in Threads /\ "weather" \in Boxes
  BY WeatherOthers DEF ThreadStep, Local, Threads, Boxes
<1>1. /\ \A t \in Threads : Stands(t)
      /\ suspended \subseteq Threads /\ \A b \in Boxes : QueueOK(b)
      /\ weaMes \in Seq(W) /\ str_wea \in 0 .. Len(weaMes) /\ Len(weaMes) \in Nat
      /\ owned \subseteq {"uri", "buffer", "session", "json"} /\ buf \in Contents
      /\ left \in 0 .. MaxBody /\ got \in 0 .. MaxBody
  BY TypeParts, LenProperties DEF WeaTypeOK
<1>2. UNCHANGED <<mbType, timeMes, dhtMes>>
  BY <1>0 DEF WeaStep, WeaAllocate, WeaGet, WeaStatus, WeaRead, WeaResult, WeaParseFails,
              WeaParseWorks, WeaSend, WeaFree, WeaCheck, WeaCleanup
<1>3. pc'["wea"] \in {"buffer", "session", "get", "status", "read", "result", "parse",
                      "send", "free", "check", "cleanup", "exit"}
  BY <1>0 DEF WeaStep, WeaAllocate, WeaGet, WeaStatus, WeaRead, WeaResult, WeaParseFails,
              WeaParseWorks, WeaSend, WeaFree, WeaCheck, WeaCleanup, Goto, SleepThen, Shape
<1>4. \A t \in Threads : Stands(t)'
  BY <1>0, <1>1, <1>3, PointsOf, OneStands
<1>5. suspended' \subseteq Threads
  BY <1>0, <1>1 DEF WeaStep, WeaAllocate, WeaGet, WeaStatus, WeaRead, WeaResult, WeaParseFails,
              WeaParseWorks, WeaSend, WeaFree, WeaCheck, WeaCleanup, SleepThen
<1>6. owned' \subseteq {"uri", "buffer", "session", "json"}
  BY <1>0, <1>1 DEF WeaStep, WeaAllocate, WeaGet, WeaStatus, WeaRead, WeaResult, WeaParseFails,
              WeaParseWorks, WeaSend, WeaFree, WeaCheck, WeaCleanup, weaVars
<1>7. buf' \in Contents
  BY <1>0, <1>1, BodyKindsAssumption
  DEF WeaStep, WeaAllocate, WeaGet, WeaStatus, WeaRead, WeaResult, WeaParseFails,
      WeaParseWorks, WeaSend, WeaFree, WeaCheck, WeaCleanup, weaVars, Contents
<1>8. /\ left' \in 0 .. MaxBody /\ got' \in 0 .. MaxBody
      /\ pc'["wea"] \in {"parse", "send", "free", "check"} => got' <= left'
  <2>1. CASE WeaResult
    <3>1. got' \in 0 .. Asked /\ left' = left
      BY <2>1, <1>1, RespAssumption DEF WeaResult, Asked
    <3>2. Asked <= left /\ Asked \in Nat
      BY <1>1, RespAssumption DEF Asked
    <3> QED
      BY <1>1, <3>1, <3>2, BodyAssumption
  <2>2. CASE WeaCheck
    <3>1. left' = left - got /\ got' = got /\ got <= left /\ pc'["wea"] \in {"cleanup", "read"}
      BY <2>2 DEF WeaCheck, LinkInv, At, Goto, Shape, Threads
    <3>2. \A l, g \in 0 .. MaxBody : g <= l => l - g \in 0 .. MaxBody
      BY BodyAssumption
    <3> QED
      BY <1>1, <3>1, <3>2
  <2>3. CASE WeaStatus
    <3>1. got' = got /\ left' \in 0 .. MaxBody /\ pc'["wea"] \in {"cleanup", "read"}
      BY <2>3, <1>1, BodyAssumption DEF WeaStatus, Goto, SleepThen, Shape, Threads
    <3> QED
      BY <1>1, <3>1
  <2>4. CASE WeaCleanup
    BY <1>1, <2>4, BodyAssumption DEF WeaCleanup
  <2>5. ASSUME NEW point, NEW what, NEW next, next \in {"buffer", "session", "get"},
               WeaAllocate(point, what, next)
        PROVE  left' = left /\ got' = got /\ pc'["wea"] \in {"buffer", "session", "get", "cleanup"}
    BY <2>5 DEF WeaAllocate, Goto, Shape, Threads
  <2>6. CASE WeaGet \/ WeaRead
    <3>1. left' = left /\ got' = got /\ pc'["wea"] \in {"status", "result"}
      BY <2>6 DEF WeaGet, WeaRead, weaVars, SleepThen, Goto, Shape, Threads
    <3> QED
      BY <1>1, <3>1
  <2>7. CASE WeaParseFails \/ WeaParseWorks \/ WeaSend \/ WeaFree
    <3>1. left' = left /\ got' = got /\ pc["wea"] \in {"parse", "send", "free"}
      BY <2>7 DEF WeaParseFails, WeaParseWorks, WeaSend, WeaFree, weaVars, At
    <3> QED
      BY <1>1, <3>1 DEF LinkInv
  <2> QED
    BY <1>0, <1>1, <2>1, <2>2, <2>3, <2>4, <2>5, <2>6, <2>7 DEF WeaStep
<1>9. /\ weaMes' \in Seq(W) /\ \A b \in Boxes : QueueOK(b)'
      /\ str_wea' \in 0 .. Len(weaMes')
      /\ pc'["wea"] \in {"send", "free"} => weaMes' # <<>>
  <2>0. str_wea' = str_wea
    BY <1>0 DEF oledVars
  <2>1. CASE WeaParseFails \/ WeaParseWorks
    <3>1. mbq' = mbq /\ \E x \in W : weaMes' = Append(weaMes, x)
      BY <2>1 DEF WeaParseFails, WeaParseWorks
    <3>2. PICK x \in W : weaMes' = Append(weaMes, x)
      BY <3>1
    <3> HIDE DEF W
    <3>3. weaMes' \in Seq(W) /\ weaMes' # <<>> /\ Len(weaMes') = Len(weaMes) + 1
      BY <1>1, <3>2, AppendProperties
    <3>4. Len(weaMes) <= Len(weaMes')
      BY <1>1, <3>3
    <3> QED
      BY <1>1, <2>0, <3>1, <3>3, <3>4, GrowQueues DEF W
  <2>2. CASE WeaFree
    <3> DEFINE n == Len(weaMes)
               x == IF weaMes[n] = "weather" THEN "freed" ELSE "foreign"
    <3>1. weaMes # <<>> /\ mbq' = mbq /\ pc'["wea"] = "check"
      BY <2>2 DEF WeaFree, At, LinkInv, Goto, Shape, Threads
    <3>2. n \in 1 .. Len(weaMes) /\ x \in W
      BY <1>1, <3>1, EmptySeq
    <3>3. weaMes' = [weaMes EXCEPT ![n] = x]
      BY <2>2 DEF WeaFree
    <3> HIDE DEF n, x, W
    <3>4. weaMes' \in Seq(W) /\ Len(weaMes') = Len(weaMes)
      BY <1>1, <3>2, <3>3, ExceptSeq
    <3>5. Len(weaMes) <= Len(weaMes')
      BY <1>1, <3>4
    <3> QED
      BY <1>1, <2>0, <3>1, <3>4, <3>5, GrowQueues DEF W
  <2>3. CASE WeaSend
    <3>1. weaMes # <<>> /\ weaMes' = weaMes /\ Send("weather", Len(weaMes))
      BY <2>3 DEF WeaSend, At, LinkInv
    <3>2. Len(weaMes) \in 1 .. Len(weaMes)
      BY <1>1, <3>1, EmptySeq
    <3>3. Len(weaMes) \in Mail["weather"]
      BY <3>2, MailOf
    <3>4. \A b \in Boxes : QueueOK(b)'
      BY <1>0, <1>1, <3>1, <3>3, SendType
    <3> QED
      BY <1>1, <2>0, <3>1, <3>4
  <2>4. ASSUME NEW point, NEW what, NEW next, next \in {"buffer", "session", "get"},
               WeaAllocate(point, what, next)
        PROVE  mbq' = mbq /\ weaMes' = weaMes
               /\ pc'["wea"] \in {"buffer", "session", "get", "cleanup"}
    BY <2>4 DEF WeaAllocate, Goto, Shape, Threads
  <2>5. CASE WeaGet \/ WeaStatus \/ WeaRead \/ WeaResult \/ WeaCheck \/ WeaCleanup
    <3>1. mbq' = mbq /\ weaMes' = weaMes
      BY <2>5 DEF WeaGet, WeaStatus, WeaRead, WeaResult, WeaCheck, WeaCleanup
    <3>2. pc'["wea"] \notin {"send", "free"}
      BY <2>5 DEF WeaGet, WeaStatus, WeaRead, WeaResult, WeaCheck, WeaCleanup,
                  Goto, SleepThen, Shape, Threads
    <3>3. \A b \in Boxes : QueueOK(b)'
      BY <1>1, <3>1 DEF QueueOK, Mail
    <3> QED
      BY <1>1, <2>0, <3>1, <3>2, <3>3
  <2>6. CASE mbq' = mbq /\ weaMes' = weaMes
             /\ pc'["wea"] \in {"buffer", "session", "get", "cleanup"}
    <3>1. \A b \in Boxes : QueueOK(b)'
      BY <1>1, <2>6 DEF QueueOK, Mail
    <3> QED
      BY <1>1, <2>0, <2>6, <3>1
  <2> QED
    BY <1>0, <2>1, <2>2, <2>3, <2>4, <2>5, <2>6 DEF WeaStep
<1>10. UNCHANGED <<rtc, now, sample, page, page_buff, lost, oled_sign,
                   frame, screen, boot, mbType, timeMes, dhtMes>>
  BY <1>0, <1>2 DEF timeVars, mpuVars, oledVars
<1>11. TypeOK'
  BY <1>4, <1>5, <1>6, <1>7, <1>8, <1>9, <1>10, TypeParts
  DEF TypeOK, Stands, QueueOK, TimeTypeOK, DhtTypeOK, MpuTypeOK, WeaTypeOK, Texts, Page_Max
<1>12. LinkInv'
  <2>1. pc'["oled"] = pc["oled"]
    BY <1>0 DEF Others
  <2> QED
    BY <1>8, <1>9, <1>10, <2>1 DEF LinkInv
<1> QED
  BY <1>11, <1>12

\* Starting the threads and initialising the mailboxes keeps the types.
LEMMA MainTypes ==
    ASSUME Shape, BootInv, TypeOK, LinkInv, ThreadStep("main")
    PROVE  TypeOK' /\ LinkInv'
<1>0. /\ MainStep /\ UNCHANGED <<timeVars, sample, mpuVars, weaVars, oledVars>>
      /\ boot \in 0 .. 9 /\ MainMoves /\ "main" \in Threads
  BY MainOthers, StartUpCalls DEF ThreadStep, Local, BootInv, Threads
<1>1. /\ \A t \in Threads : Stands(t)
      /\ suspended \subseteq Threads /\ \A b \in Boxes : QueueOK(b)
      /\ mbType \in [Boxes -> {"Null", "MailBox"}]
  BY TypeParts
<1>2. UNCHANGED <<timeMes, dhtMes, weaMes>>
  BY <1>0 DEF MainStep, StartThread, InitMailbox, MainLoop
<1>3. boot' \in 0 .. BootSteps /\ suspended' \subseteq Threads
  BY <1>0, <1>1, StartUpCalls DEF MainMoves
<1>4. \A t \in Threads : pc'[t] \in {pc[t], "start"}
  BY <1>0 DEF MainMoves
<1>5. \A t \in Threads : Stands(t)'
  <2>1. Points' = Points
    BY DEF Points, TimeFields, OledBox
  <2> QED
    BY <1>1, <1>4, <2>1 DEF Stands
<1>6. mbType' \in [Boxes -> {"Null", "MailBox"}] /\ \A b \in Boxes : QueueOK(b)'
  <2>0. Mail' = Mail
    BY <1>2 DEF Mail
  <2>1. CASE InitMailbox
    <3>1. PICK b \in Boxes : /\ mbq' = [mbq EXCEPT ![b] = <<>>]
                             /\ mbType' = [mbType EXCEPT ![b] = "MailBox"]
      <4>1. boot - 4 \in 1 .. 4 /\ boot - 5 + 1 = boot - 4
        BY <1>0, <2>1, StartUpCalls DEF InitMailbox
      <4>2. /\ mbq' = [mbq EXCEPT ![InitOrder[boot - 5 + 1]] = <<>>]
            /\ mbType' = [mbType EXCEPT ![InitOrder[boot - 5 + 1]] = "MailBox"]
        BY <2>1, StartUpCalls DEF InitMailbox
      <4> QED
        BY <4>1, <4>2, StartUpCalls
    <3>2. mbq'[b] = <<>> /\ \A c \in Boxes \ {b} : mbq'[c] = mbq[c]
      BY <3>1 DEF Shape
    <3>3. <<>> \in Seq(Mail[b]) /\ Len(<<>>) <= MbSize
      BY EmptySeq, MbSizeAssumption
    <3> QED
      BY <1>1, <2>0, <3>1, <3>2, <3>3 DEF QueueOK
  <2>2. CASE ~InitMailbox
    <3>1. mbq' = mbq /\ mbType' = mbType
      BY <1>0, <2>2 DEF MainStep, StartThread, MainLoop
    <3> QED
      BY <1>1, <2>0, <3>1 DEF QueueOK
  <2> QED
    BY <2>1, <2>2
<1>7. UNCHANGED <<rtc, now, sample, page, page_buff, lost, owned, buf, left, got, oled_sign,
                  str_wea, frame, screen, timeMes, dhtMes, weaMes>>
  BY <1>0, <1>2 DEF timeVars, mpuVars, weaVars, oledVars
<1>8. TypeOK'
  BY <1>3, <1>5, <1>6, <1>7, TypeParts
  DEF TypeOK, Stands, QueueOK, TimeTypeOK, DhtTypeOK, MpuTypeOK, WeaTypeOK, Texts, Page_Max
<1>9. /\ pc'["wea"] \in {"parse", "send", "free", "check"} => pc["wea"] = pc'["wea"]
      /\ pc["oled"] = "draw" => pc'["oled"] = "draw"
  BY <1>0, <1>4, StartUpCalls DEF MainMoves, BootInv, Booting, Threads
<1>10. LinkInv'
  BY <1>7, <1>9 DEF LinkInv
<1> QED
  BY <1>8, <1>10

\* So do the clock, the heap, the end of a delay and a failed assertion.
LEMMA KernelTypes ==
    ASSUME Shape, TypeOK, LinkInv, KernelStep
    PROVE  TypeOK' /\ LinkInv'
<1>0. /\ \A t \in Threads : Stands(t)
      /\ \A b \in Boxes : QueueOK(b)
      /\ suspended \subseteq Threads /\ str_wea \in 0 .. Len(weaMes)
      /\ weaMes \in Seq({"unset", "weather", "freed", "foreign"}) /\ Len(weaMes) \in Nat
      /\ rtc \in Stamps
  BY TypeParts, LenProperties DEF TimeTypeOK
<1>1. /\ suspended' \subseteq suspended
      /\ \A t \in Threads : \/ pc'[t] = pc[t]
                            \/ pc'[t] = "halt" /\ Runs(t) /\ AtMailbox(t)
  BY KernelOthers
<1>2. \A t \in Threads : Stands(t)'
  <2>1. Points' = Points
    BY DEF Points, TimeFields, OledBox
  <2> QED
    BY <1>0, <1>1, <2>1 DEF Stands
<1>3. UNCHANGED <<mbType, mbq, timeMes, dhtMes, now, sample, page, page_buff, lost, owned, buf,
                  left, got, oled_sign, str_wea, frame, screen, boot>>
  BY DEF KernelStep, Wake, AssertFails, ClockTick, HeapReuse, NoLocals, Local, kernelVars,
         timeVars, mpuVars, weaVars, oledVars
<1>4. rtc' \in Stamps
  BY <1>0, TimeAssumption
  DEF KernelStep, Wake, AssertFails, ClockTick, HeapReuse, NoLocals, Local, Stamps, timeVars
<1>5. /\ weaMes' \in Seq({"unset", "weather", "freed", "foreign"})
      /\ Len(weaMes') = Len(weaMes)
  <2>1. CASE HeapReuse
    <3>1. PICK i \in 1 .. Len(weaMes) : weaMes' = [weaMes EXCEPT ![i] = "foreign"]
      BY <2>1 DEF HeapReuse
    <3> QED
      BY <1>0, <3>1, ExceptSeq
  <2>2. CASE ~HeapReuse
    <3>1. weaMes' = weaMes
      BY <2>2 DEF KernelStep, Wake, AssertFails, ClockTick, kernelVars
    <3> QED
      BY <1>0, <3>1
  <2> QED
    BY <2>1, <2>2
<1>6. (\A b \in Boxes : QueueOK(b)') /\ str_wea' \in 0 .. Len(weaMes')
  <2>1. Len(weaMes) <= Len(weaMes')
    BY <1>0, <1>5
  <2> QED
    BY <1>0, <1>3, <1>5, <2>1, GrowQueues
<1>7. TypeOK'
  BY <1>0, <1>1, <1>2, <1>3, <1>4, <1>5, <1>6, TypeParts
  DEF TypeOK, Stands, QueueOK, TimeTypeOK, DhtTypeOK, MpuTypeOK, WeaTypeOK, Texts, Page_Max
<1>8. /\ pc'["wea"] \in {"parse", "send", "free", "check"} => pc["wea"] = pc'["wea"]
      /\ pc["oled"] = "draw" => pc'["oled"] = "draw"
  BY <1>1 DEF Threads, AtMailbox, SendBox, OledBox
<1>9. weaMes # <<>> => weaMes' # <<>>
  <2>1. weaMes # <<>> => Len(weaMes) # 0
    BY <1>0, EmptySeq
  <2>2. Len(weaMes') # 0 => weaMes' # <<>>
    BY EmptySeq
  <2> QED
    BY <1>5, <2>1, <2>2
<1>10. LinkInv'
  BY <1>3, <1>8, <1>9 DEF LinkInv
<1> QED
  BY <1>7, <1>10

\* The steps of the other threads keep what the types rest on.
LEMMA LinkStep ==
    ASSUME Shape, LinkInv, NEW t \in {"time", "dht", "mpu", "oled"}, ThreadStep(t)
    PROVE  LinkInv'
<1> USE DEF Threads
<1>0. Others(t) /\ UNCHANGED weaVars
  BY TimeOthers, DhtOthers, MpuOthers, OledOthers DEF ThreadStep, Local
<1>1. weaMes' = weaMes
  <2>1. CASE t = "time"
    BY <2>1 DEF ThreadStep, TimeStep, TimeStart, TimeSet, TimeRead, TimeCopy, TimeSend
  <2>2. CASE t = "dht"
    BY <2>2 DEF ThreadStep, DhtStep, DhtStart, DhtRead, DhtPrint, DhtSend
  <2>3. CASE t = "mpu"
    BY <2>3 DEF ThreadStep, MpuStep, MpuStart, MpuDmpInit, MpuTilt, MpuRest, MpuSend
  <2>4. CASE t = "oled"
    BY <2>4 DEF ThreadStep, OledStep, OledStart, OledLoading, OledRecvWeather, OledDetach,
                OledPollMail, OledPollEmpty, OledRecvTime, OledRecvDht, OledDraw, OledFlush,
                kernelVars
  <2> QED
    BY <2>1, <2>2, <2>3, <2>4
<1>2. pc'["wea"] = pc["wea"]
  BY <1>0 DEF Others
<1>3. frame' # <<>> => pc'["oled"] = "draw"
  <2>1. CASE t # "oled"
    BY <1>0, <2>1 DEF Others, LinkInv, ThreadStep, Local, oledVars
  <2>2. CASE t = "oled"
    <3>0. OledStep
      BY <2>2 DEF ThreadStep
    <3>1. CASE OledDraw
      BY <3>1 DEF OledDraw, At, kernelVars
    <3>2. CASE OledFlush
      BY <3>2 DEF OledFlush
    <3>3. CASE ~OledDraw /\ ~OledFlush
      <4>1. frame' = frame /\ pc["oled"] # "draw"
        BY <3>0, <3>3 DEF OledStep, OledStart, OledLoading, OledRecvWeather, OledDetach,
                OledPollMail, OledPollEmpty, OledRecvTime, OledRecvDht, oledVars, At
      <4> QED
        BY <4>1 DEF LinkInv
    <3> QED
      BY <3>1, <3>2, <3>3
  <2> QED
    BY <2>1, <2>2
<1> QED
  BY <1>0, <1>1, <1>2, <1>3 DEF LinkInv, weaVars

AppInv == Shape /\ BootInv /\ TypeOK /\ LinkInv

\* Every step keeps the types.
LEMMA AppStep ==
    ASSUME AppInv, [Next]_vars
    PROVE  AppInv'
<1> USE DEF AppInv
<1>0. Shape' /\ BootInv'
  BY BootStep
<1>1. CASE UNCHANGED vars
  <2>1. UNCHANGED <<pc, suspended, mbType, mbq, timeMes, dhtMes, weaMes, rtc, now, sample, page,
                    page_buff, lost, owned, buf, left, got, oled_sign, str_wea, frame, screen, boot>>
    BY <1>1 DEF vars, kernelVars, timeVars, mpuVars, weaVars, oledVars
  <2>2. LinkInv'
    BY <2>1 DEF LinkInv
  <2>3. TypeOK'
    BY <2>1 DEF TypeOK, Mail, Points, OledBox, TimeFields, TimeTypeOK, DhtTypeOK, MpuTypeOK,
                WeaTypeOK
  <2> QED
    BY <1>0, <2>2, <2>3
<1>2. CASE KernelStep
  BY <1>0, <1>2, KernelTypes
<1>3. ASSUME NEW t \in Threads, ThreadStep(t)
      PROVE  AppInv'
  <2>1. CASE t = "main"
    BY <1>0, <1>3, <2>1, MainTypes
  <2>2. CASE t = "wea"
    BY <1>0, <1>3, <2>2, WeatherTypes
  <2>3. CASE t = "time"
    BY <1>0, <1>3, <2>3, TimeTypes, LinkStep
  <2>4. CASE t = "dht"
    BY <1>0, <1>3, <2>4, DhtTypes, LinkStep
  <2>5. CASE t = "mpu"
    BY <1>0, <1>3, <2>5, MpuTypes, LinkStep
  <2>6. CASE t = "oled"
    BY <1>0, <1>3, <2>6, OledTypes, LinkStep
  <2> QED
    BY <2>1, <2>2, <2>3, <2>4, <2>5, <2>6 DEF Threads
<1> QED
  BY <1>1, <1>2, <1>3, StepKinds

\* The types hold before main runs.
LEMMA AppInit == Init => AppInv
<1> SUFFICES ASSUME Init PROVE AppInv
  OBVIOUS
<1>1. Shape /\ BootInv
  BY BootInit
<1>2. LinkInv
  BY DEF Init, OledInit, LinkInv, Threads
<1>3. \A t \in Threads : Stands(t)
  BY DEF Init, Stands
<1>4. \A b \in Boxes : QueueOK(b)
  BY EmptySeq, MbSizeAssumption DEF Init, QueueOK
<1>5. /\ str_wea \in 0 .. Len(weaMes) /\ Len(frame) <= Len(Fields[oled_sign])
      /\ frame \in Seq(Texts(oled_sign))
      /\ weaMes \in Seq({"unset", "weather", "freed", "foreign"})
  BY EmptySeq, PagesOf DEF Init, OledInit
<1>6. /\ timeMes \in [TimeFields -> Stamps \cup {Junk}]
      /\ dhtMes \in [{"temp", "humi"} -> Samples \cup {Junk}]
      /\ mbType \in [Boxes -> {"Null", "MailBox"}]
      /\ boot \in 0 .. BootSteps
      /\ suspended \subseteq Threads
  BY StartUpCalls DEF Init
<1>7. TimeTypeOK /\ DhtTypeOK /\ MpuTypeOK /\ WeaTypeOK
  <2>1. TimeTypeOK /\ DhtTypeOK
    BY TimeAssumption DEF Init, TimeInit, DhtInit, TimeTypeOK, DhtTypeOK, Stamps
  <2>2. MpuTypeOK
    <3>1. page = 0 /\ page_buff = 1
      BY DEF Init, MpuInit
    <3>2. lost = FALSE
      BY Zenon DEF Init, MpuInit
    <3>3. lost \in BOOLEAN
      BY <3>2, Zenon
    <3> QED
      BY <3>1, <3>3 DEF MpuTypeOK, Page_Max
  <2>3. WeaTypeOK
    BY BodyAssumption DEF Init, WeaInit, WeaTypeOK, Contents
  <2> QED
    BY <2>1, <2>2, <2>3
<1>8. oled_sign \in 0 .. 2 /\ screen \in {Off, Loading} \cup 0 .. 2
  BY DEF Init, OledInit
<1> QED
  BY <1>1, <1>2, <1>3, <1>4, <1>5, <1>6, <1>7, <1>8, TypeParts DEF AppInv

\* The application keeps its types in all five threads: no mailbox of main.c
\* overflows, every mail names a record or a page that exists, no page number
\* leaves the range of the pages, and no frame of oled.c has more fields than
\* its page.
THEOREM ClockTypeCorrect == Spec => []TypeOK
<1>1. Init => AppInv
  BY AppInit
<1>2. AppInv /\ [Next]_vars => AppInv'
  BY AppStep
<1>3. AppInv => TypeOK
  BY DEF AppInv
<1> QED
  BY <1>1, <1>2, <1>3, PTL DEF Spec

------------------------------------------------------------------------------
(* What the weather thread holds.                                          *)

\* The JSON tree lives only from the parse to cJSON_Delete, or for ever when
\* the send in between fails its assertion; __exit releases the rest.
HoldInv ==
    /\ "json" \in owned => pc["wea"] \in {"send", "free", "halt"}
    /\ pc["wea"] = "exit" => owned = {}

\* Every step keeps HoldInv.
LEMMA HoldStep ==
    ASSUME AppInv, HoldInv, [Next]_vars
    PROVE  HoldInv'
<1> USE DEF AppInv
<1>1. CASE UNCHANGED vars
  BY <1>1 DEF vars, kernelVars, weaVars, HoldInv
<1>2. CASE KernelStep
  <2>1. owned' = owned
    BY <1>2 DEF KernelStep, NoLocals, Local, HeapReuse, ClockTick, weaVars
  <2>2. pc'["wea"] = pc["wea"] \/ (pc'["wea"] = "halt" /\ pc["wea"] = "send")
    BY <1>2, KernelOthers DEF AtMailbox, SendBox, Threads
  <2> QED
    BY <2>1, <2>2 DEF HoldInv
<1>3. ASSUME ThreadStep("main")
      PROVE  HoldInv'
  <2>1. owned' = owned
    BY <1>3 DEF ThreadStep, Local, weaVars
  <2>2. MainMoves
    BY <1>3, MainOthers
  <2>3. pc'["wea"] = pc["wea"] \/ {pc["wea"], pc'["wea"]} \subseteq {"new", "start"}
    BY <2>2, StartUpCalls DEF MainMoves, BootInv, Booting, Threads
  <2> QED
    BY <2>1, <2>3 DEF HoldInv
<1>4. ASSUME NEW t \in Threads \ {"main", "wea"}, ThreadStep(t)
      PROVE  HoldInv'
  <2>1. owned' = owned
    BY <1>4 DEF ThreadStep, Local, weaVars
  <2>2. pc'["wea"] = pc["wea"]
    BY <1>4, ThreadOthers DEF Others, Threads
  <2> QED
    BY <2>1, <2>2 DEF HoldInv
<1>5. ASSUME ThreadStep("wea")
      PROVE  HoldInv'
  <2> USE DEF Shape, Threads, At, Goto, SleepThen
  <2>0. WeaStep /\ owned \subseteq {"uri", "buffer", "session", "json"}
    BY <1>5, TypeParts DEF ThreadStep, WeaTypeOK
  <2>1. ASSUME NEW point \in {"start", "buffer", "session"}, NEW what \in {"uri", "buffer", "session"},
               NEW next \in {"buffer", "session", "get"}, WeaAllocate(point, what, next)
        PROVE  HoldInv'
    BY <2>1 DEF WeaAllocate, HoldInv
  <2>2. CASE WeaGet \/ WeaStatus \/ WeaRead \/ WeaResult \/ WeaParseFails \/ WeaCheck
    <3>1. /\ owned' = owned /\ pc["wea"] \notin {"send", "free", "halt", "exit"}
          /\ pc'["wea"] # "exit"
      BY <2>2 DEF WeaGet, WeaStatus, WeaRead, WeaResult, WeaParseFails, WeaCheck, weaVars
    <3> QED
      BY <3>1 DEF HoldInv
  <2>3. CASE WeaParseWorks
    BY <2>3 DEF WeaParseWorks, HoldInv
  <2>4. CASE WeaSend
    BY <2>4 DEF WeaSend, HoldInv, weaVars
  <2>5. CASE WeaFree
    BY <2>5 DEF WeaFree, HoldInv
  <2>6. CASE WeaCleanup
    BY <2>0, <2>6 DEF WeaCleanup, HoldInv
  <2> QED
    BY <2>0, <2>1, <2>2, <2>3, <2>4, <2>5, <2>6 DEF WeaStep
<1> QED
  BY <1>1, <1>2, <1>3, <1>4, <1>5, StepKinds

\* However the weather thread ends, it has released its session, its buffer,
\* its uri and the JSON tree: every failure in Weather.c leaves by __exit.
THEOREM ClockWeatherReleases == Spec => []WeatherReleases
<1>1. Init => AppInv /\ HoldInv
  <2>1. Init => HoldInv
    BY DEF Init, WeaInit, HoldInv, Threads
  <2> QED
    BY <2>1, AppInit
<1>2. AppInv /\ HoldInv /\ [Next]_vars => (AppInv /\ HoldInv)'
  BY AppStep, HoldStep
<1>3. HoldInv => WeatherReleases
  BY DEF HoldInv, WeatherReleases
<1> QED
  BY <1>1, <1>2, <1>3, PTL DEF Spec

------------------------------------------------------------------------------
(* Pages.                                                                  *)

\* The page the OLED thread is on once it has read its mails.
PageAtEnd == IF mbq["mpu"] = <<>> THEN oled_sign ELSE mbq["mpu"][Len(mbq["mpu"])]

\* PageInSync speaks of PageAtEnd.
LEMMA PageMeaning ==
    ASSUME TypeOK
    PROVE  PageInSync <=> (pc["mpu"] # "send" /\ ~lost => PageAtEnd = page)
<1> DEFINE m == mbq["mpu"]
           q == <<oled_sign>> \o m
<1>1. m \in Seq(0 .. 2) /\ oled_sign \in 0 .. 2
  BY TypeParts, MailOf DEF QueueOK, Boxes
<1>2. m # <<>> => Len(m) \in Nat \ {0}
  BY <1>1, EmptySeq
<1>3. m = <<>> => Len(m) = 0
  BY EmptySeq
<1> HIDE DEF m
<1>4. <<oled_sign>> \in Seq(0 .. 2) /\ Len(<<oled_sign>>) = 1 /\ <<oled_sign>>[1] = oled_sign
  BY <1>1
<1>5. Len(m) \in Nat
  BY <1>1, LenProperties
<1>6. /\ Len(q) = 1 + Len(m)
      /\ \A i \in 1 .. 1 + Len(m) : q[i] = IF i <= 1 THEN <<oled_sign>>[i] ELSE m[i - 1]
  BY <1>1, <1>4, ConcatProperties
<1> HIDE DEF q
<1>7. q[Len(q)] = IF m = <<>> THEN oled_sign ELSE m[Len(m)]
  <2>1. CASE m = <<>>
    BY <1>3, <1>4, <1>6, <2>1
  <2>2. CASE m # <<>>
    <3>1. Len(q) \in 1 .. 1 + Len(m) /\ ~(Len(q) <= 1) /\ Len(q) - 1 = Len(m)
      BY <1>2, <1>5, <1>6, <2>2
    <3> QED
      BY <1>6, <2>2, <3>1
  <2> QED
    BY <2>1, <2>2
<1>8. PageAtEnd = q[Len(q)]
  BY <1>7 DEF PageAtEnd, m
<1> QED
  BY <1>8 DEF PageInSync, q, m

\* The mailbox of the page selector is initialised before the selector runs
\* and never detached, so that no page is lost in an assertion; the OLED thread
\* is on page 0 until it has detached the weather mailbox.
PageInv ==
    /\ pc["mpu"] \notin {"send", "halt"} /\ ~lost => PageAtEnd = page
    /\ pc["oled"] \in {"new", "start", "loading", "weaRecv", "weaDetach"} => oled_sign = 0
    /\ boot >= 8 => mbType["mpu"] = "MailBox"
    /\ boot < BootSteps => mbq["mpu"] = <<>>
    /\ pc["mpu"] # "halt"

\* A step that touches neither the pages nor their mailbox.
LEMMA PageKept ==
    ASSUME PageInv, UNCHANGED <<mbq["mpu"], oled_sign, page, lost, boot>>,
           mbType'["mpu"] = mbType["mpu"],
           pc'["mpu"] = pc["mpu"] \/ ({pc["mpu"], pc'["mpu"]} \cap {"send", "halt"} = {}),
           \/ pc'["oled"] = pc["oled"]
           \/ pc'["oled"] \notin {"new", "start", "loading", "weaRecv", "weaDetach"}
           \/ pc["oled"] \in {"new", "start", "loading", "weaRecv", "weaDetach"}
    PROVE  PageInv'
BY DEF PageInv, PageAtEnd

\* The page selector: a page it counts is mailed in the next step, and a
\* dropped mail is remembered in lost.
LEMMA MpuPages ==
    ASSUME AppInv, PageInv, ThreadStep("mpu")
    PROVE  PageInv'
<1> USE DEF AppInv
<1>0. /\ MpuStep /\ UNCHANGED <<oled_sign, boot>> /\ Others("mpu")
      /\ "mpu" \in Boxes /\ "mpu" \in Threads /\ "oled" \in Threads
  BY MpuOthers DEF ThreadStep, Local, oledVars, Threads, Boxes
<1>1. pc'["oled"] = pc["oled"] /\ mbType' = mbType
  BY <1>0 DEF Others, MpuStep, MpuStart, MpuDmpInit, MpuTilt, MpuRest, MpuSend
<1>2. boot = BootSteps
  BY StepRuns, OnlyMainRuns, StartUpCalls DEF BootInv, Threads
<1>3. mbq["mpu"] \in Seq(0 .. 2) /\ page \in 0 .. 2 /\ lost \in BOOLEAN
  BY TypeParts, MailOf DEF QueueOK, Boxes, MpuTypeOK, Page_Max
<1>4. CASE MpuStart \/ MpuDmpInit \/ MpuRest
  <2>1. /\ UNCHANGED <<mbq, page, lost>>
        /\ {pc["mpu"], pc'["mpu"]} \cap {"send", "halt"} = {}
    BY <1>4 DEF MpuStart, MpuDmpInit, MpuRest, mpuVars, At, Goto, SleepThen, Shape, Threads
  <2> QED
    BY <1>0, <1>1, <2>1, PageKept
<1>5. CASE MpuTilt
  <2>1. mbq' = mbq /\ pc'["mpu"] = "send"
    BY <1>5 DEF MpuTilt, Goto, Shape, Threads
  <2> QED
    BY <1>0, <1>1, <1>2, <2>1, StartUpCalls DEF PageInv
<1>6. CASE MpuSend
  <2> DEFINE m == mbq["mpu"]
             n == Append(m, page)
  <2>1. page' = page /\ lost' = Full("mpu") /\ pc'["mpu"] = "read" /\ Send("mpu", page)
    BY <1>6 DEF MpuSend, SleepThen, Goto, Shape, Threads
  <2>2. CASE Full("mpu")
    <3>1. lost'
      BY <2>1, <2>2
    <3> QED
      BY <1>0, <1>1, <1>2, <2>1, <3>1, StartUpCalls DEF PageInv
  <2>3. CASE ~Full("mpu")
    <3>1. mbq'["mpu"] = n
      BY <2>1, <2>3 DEF Send, Shape, Boxes
    <3>2. n # <<>> /\ Len(n) = Len(m) + 1 /\ n[Len(m) + 1] = page
      BY <1>3, AppendProperties
    <3>3. PageAtEnd' = page'
      BY <2>1, <3>1, <3>2 DEF PageAtEnd
    <3> QED
      BY <1>0, <1>1, <1>2, <2>1, <3>3, StartUpCalls DEF PageInv
  <2> QED
    BY <2>2, <2>3
<1> QED
  BY <1>0, <1>4, <1>5, <1>6 DEF MpuStep

\* The OLED thread: the page it takes from the mailbox is the one at its head.
LEMMA OledPages ==
    ASSUME AppInv, PageInv, ThreadStep("oled")
    PROVE  PageInv'
<1> USE DEF AppInv
<1>0. /\ OledStep /\ UNCHANGED <<page, page_buff, lost, boot>> /\ Others("oled")
      /\ "mpu" \in Boxes /\ "mpu" \in Threads /\ "oled" \in Threads
  BY OledOthers DEF ThreadStep, Local, mpuVars, Threads, Boxes
<1>1. pc'["mpu"] = pc["mpu"]
  BY <1>0 DEF Others
<1>2. boot = BootSteps
  BY StepRuns, OnlyMainRuns, StartUpCalls DEF BootInv, Threads
<1>3. mbq["mpu"] \in Seq(0 .. 2)
  BY TypeParts, MailOf DEF QueueOK, Boxes
<1>4. mbType'["mpu"] = mbType["mpu"]
  BY <1>0, TypeParts
  DEF OledStep, OledStart, OledLoading, OledRecvWeather, OledDetach, OledPollMail, OledPollEmpty,
      OledRecvTime, OledRecvDht, OledDraw, OledFlush, kernelVars, Boxes
<1>5. CASE OledPollMail
  <2> DEFINE m == mbq["mpu"]
             r == Tail(m)
  <2>1. m # <<>> /\ oled_sign' = Head(m) /\ mbq'["mpu"] = r
    BY <1>5 DEF OledPollMail, Receive, Shape, Boxes
  <2>2. /\ Len(m) \in Nat \ {0} /\ r \in Seq(0 .. 2) /\ Len(r) = Len(m) - 1
        /\ \A i \in 1 .. Len(r) : r[i] = m[i + 1]
    BY <1>3, <2>1, HeadTailProperties, EmptySeq
  <2>3. Head(m) = m[1]
    OBVIOUS
  <2>4. r # <<>> => Len(r) \in Nat \ {0}
    BY <2>2, EmptySeq
  <2>5. r = <<>> => Len(r) = 0
    BY EmptySeq
  <2> HIDE DEF m, r
  <2>6. (IF r = <<>> THEN Head(m) ELSE r[Len(r)]) = m[Len(m)]
    BY <2>2, <2>3, <2>4, <2>5
  <2>7. PageAtEnd' = PageAtEnd
    BY <2>1, <2>6 DEF PageAtEnd, m
  <2>8. pc'["oled"] \notin {"new", "start", "loading", "weaRecv", "weaDetach"}
    BY <1>5 DEF OledPollMail, Goto, Shape, Threads, PagePoint
  <2> QED
    BY <1>0, <1>1, <1>2, <1>4, <2>7, <2>8, StartUpCalls DEF PageInv
<1>6. CASE ~OledPollMail
  <2>1. mbq'["mpu"] = mbq["mpu"]
    BY <1>0, <1>6
    DEF OledStep, OledStart, OledLoading, OledRecvWeather, OledDetach, OledPollEmpty,
        OledRecvTime, OledRecvDht, OledDraw, OledFlush, kernelVars, Receive, Boxes, Shape
  <2>2. oled_sign' = oled_sign
    BY <1>0, <1>6
    DEF OledStep, OledStart, OledLoading, OledRecvWeather, OledDetach, OledPollEmpty,
        OledRecvTime, OledRecvDht, OledDraw, OledFlush, oledVars, PageInv, At
  <2>3. \/ pc["oled"] \in {"new", "start", "loading", "weaRecv", "weaDetach"}
        \/ pc'["oled"] \notin {"new", "start", "loading", "weaRecv", "weaDetach"}
    BY <1>0, <1>6
    DEF OledStep, OledStart, OledLoading, OledRecvWeather, OledDetach, OledPollEmpty,
        OledRecvTime, OledRecvDht, OledDraw, OledFlush, kernelVars, At, Goto, SleepThen, Shape,
        Threads, PagePoint
  <2> QED
    BY <1>0, <1>1, <1>4, <2>1, <2>2, <2>3, PageKept
<1> QED
  BY <1>5, <1>6

\* main initialises the mailbox of the page selector while it is empty.
LEMMA MainPages ==
    ASSUME AppInv, PageInv, ThreadStep("main")
    PROVE  PageInv'
<1> USE DEF AppInv
<1>0. /\ MainStep /\ UNCHANGED <<page, lost, oled_sign>> /\ MainMoves /\ boot \in 0 .. 9
      /\ mbType \in [Boxes -> {"Null", "MailBox"}]
  BY MainOthers, TypeParts, StartUpCalls
  DEF ThreadStep, Local, mpuVars, oledVars, BootInv
<1>1. CASE MainLoop
  <2>1. UNCHANGED <<mbq, mbType, boot>> /\ \A u \in Threads : pc'[u] = pc[u]
    BY <1>0, <1>1, StartUpCalls DEF MainLoop, MainMoves
  <2> QED
    BY <1>0, <2>1, PageKept DEF Threads
<1>2. CASE ~MainLoop
  <2>0. boot < BootSteps
    BY <1>0, <1>2, StartUpCalls DEF MainStep, StartThread, InitMailbox
  <2>1. Booting /\ boot' = boot + 1 /\ \A u \in Threads \ {"main"} : pc'[u] \in {pc[u], "start"}
    BY <1>0, <2>0 DEF MainMoves, BootInv
  <2>2. {pc["mpu"], pc'["mpu"], pc["oled"], pc'["oled"]} \subseteq {"new", "start"}
    BY <2>1 DEF Booting, Threads
  <2>3. mbq["mpu"] = <<>> /\ mbq'["mpu"] = <<>>
    BY <1>0, <2>0 DEF PageInv, MainMoves, Boxes
  <2>4. boot' >= 8 => mbType'["mpu"] = "MailBox"
    <3>1. CASE StartThread
      BY <1>0, <2>1, <3>1, StartUpCalls DEF StartThread
    <3>2. CASE InitMailbox
      <4>1. boot \in 5 .. 8 /\ boot - 5 + 1 = boot - 4
        BY <1>0, <3>2, StartUpCalls DEF InitMailbox
      <4>2. mbType' = [mbType EXCEPT ![InitOrder[boot - 5 + 1]] = "MailBox"]
        BY <3>2, StartUpCalls DEF InitMailbox
      <4>3. CASE boot < 7
        BY <2>1, <4>1, <4>3
      <4>4. CASE boot = 7
        <5>1. InitOrder[boot - 5 + 1] = "mpu"
          BY <4>4 DEF InitOrder
        <5> QED
          BY <1>0, <4>2, <5>1 DEF Boxes
      <4>5. CASE boot = 8
        <5>1. InitOrder[boot - 5 + 1] = "dht" /\ mbType["mpu"] = "MailBox"
          BY <4>5 DEF InitOrder, PageInv
        <5> QED
          BY <1>0, <4>2, <5>1 DEF Boxes
      <4> QED
        BY <4>1, <4>3, <4>4, <4>5
    <3> QED
      BY <1>0, <1>2, <3>1, <3>2 DEF MainStep
  <2>5. PageAtEnd' = PageAtEnd
    BY <1>0, <2>3 DEF PageAtEnd
  <2> QED
    BY <1>0, <2>2, <2>3, <2>4, <2>5 DEF PageInv
<1> QED
  BY <1>1, <1>2

\* The other producers have mailboxes of their own.
LEMMA OtherPages ==
    ASSUME AppInv, PageInv, NEW t \in {"time", "dht", "wea"}, ThreadStep(t)
    PROVE  PageInv'
<1> USE DEF AppInv
<1>0. Others(t) /\ UNCHANGED <<oled_sign, page, lost, boot>> /\ "mpu" \in Boxes
  BY TimeOthers, DhtOthers, WeatherOthers DEF ThreadStep, Local, mpuVars, oledVars, Boxes
<1>1. pc'["mpu"] = pc["mpu"] /\ pc'["oled"] = pc["oled"]
  BY <1>0 DEF Others, Threads
<1>2. mbq'["mpu"] = mbq["mpu"] /\ mbType' = mbType
  <2>1. CASE t = "time"
    BY <2>1 DEF ThreadStep, TimeStep, TimeStart, TimeSet, TimeRead, TimeCopy, TimeSend, Send,
                Shape, Boxes
  <2>2. CASE t = "dht"
    BY <2>2 DEF ThreadStep, DhtStep, DhtStart, DhtRead, DhtPrint, DhtSend, Send, Shape, Boxes
  <2>3. CASE t = "wea"
    BY <2>3 DEF ThreadStep, WeaStep, WeaAllocate, WeaGet, WeaStatus, WeaRead, WeaResult,
                WeaParseFails, WeaParseWorks, WeaSend, WeaFree, WeaCheck, WeaCleanup, Send,
                Shape, Boxes
  <2> QED
    BY <2>1, <2>2, <2>3
<1> QED
  BY <1>0, <1>1, <1>2, PageKept

\* Every step keeps the pages in step.
LEMMA PageStep ==
    ASSUME AppInv, PageInv, [Next]_vars
    PROVE  PageInv'
<1> USE DEF AppInv
<1>1. CASE UNCHANGED vars
  BY <1>1, PageKept DEF vars, kernelVars, mpuVars, oledVars
<1>2. CASE KernelStep
  <2>1. UNCHANGED <<mbq, oled_sign, page, lost, boot, mbType>>
    BY <1>2 DEF KernelStep, Wake, AssertFails, ClockTick, HeapReuse, NoLocals, Local, kernelVars,
                mpuVars, oledVars
  <2>2. pc'["mpu"] = pc["mpu"]
    <3> SUFFICES ASSUME pc'["mpu"] # pc["mpu"] PROVE FALSE
      OBVIOUS
    <3>1. PICK t \in Threads : AssertFails(t)
      BY <1>2 DEF KernelStep, Wake, ClockTick, HeapReuse, kernelVars
    <3>2. t = "mpu"
      BY <3>1 DEF AssertFails, Goto, Shape, Threads
    <3>3. mbType["mpu"] # "MailBox" /\ Runs("mpu")
      BY <3>1, <3>2 DEF AssertFails, BoxOf, SendBox
    <3>4. boot = BootSteps
      BY <3>3, OnlyMainRuns, StartUpCalls DEF BootInv, Threads
    <3> QED
      BY <3>3, <3>4, StartUpCalls DEF PageInv
  <2>3. pc'["oled"] = pc["oled"] \/ pc'["oled"] = "halt"
    BY <1>2, KernelOthers DEF Threads
  <2> QED
    BY <2>1, <2>2, <2>3, PageKept
<1>3. ASSUME NEW t \in Threads, ThreadStep(t)
      PROVE  PageInv'
  BY <1>3, MainPages, MpuPages, OledPages, OtherPages DEF Threads
<1> QED
  BY <1>1, <1>2, <1>3, StepKinds

\* The page the MPU thread counts is the page the OLED thread ends up on once
\* it has read its mails, unless the last mail was dropped by a full mailbox:
\* for every size of that mailbox and every order of turning and reading
\* (my_mpu6050.c, oled.c).
THEOREM ClockPageInSync == Spec => []PageInSync
<1>1. Init => AppInv /\ PageInv
  <2>1. Init => PageInv
    BY StartUpCalls DEF Init, MpuInit, OledInit, PageInv, PageAtEnd, Threads, Boxes
  <2> QED
    BY <2>1, AppInit
<1>2. AppInv /\ PageInv /\ [Next]_vars => (AppInv /\ PageInv)'
  BY AppStep, PageStep
<1>3. AppInv /\ PageInv => PageInSync
  BY PageMeaning DEF AppInv, PageInv
<1> QED
  BY <1>1, <1>2, <1>3, PTL DEF Spec
=============================================================================
