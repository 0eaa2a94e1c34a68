------------------------------- MODULE ClockApp -------------------------------
(***************************************************************************)
(* The application: main, which starts the five threads and initialises    *)
(* the mailboxes between them (applications/main.c), and the threads.      *)
(***************************************************************************)
EXTENDS TimeThread, DhtThread, MpuThread, WeatherThread, OledThread

VARIABLE boot   \* how many of its start-up calls main has made

vars == <<kernelVars, timeVars, sample, mpuVars, weaVars, oledVars, boot>>

StartOrder == <<"wea", "time", "oled", "mpu", "dht">>
InitOrder == <<"weather", "time", "mpu", "dht">>
BootSteps == Len(StartOrder) + Len(InitOrder)

Initialised(b) ==
    \E i \in 1 .. Len(InitOrder) : InitOrder[i] = b /\ boot >= Len(StartOrder) + i

\* rt_thread_init and rt_thread_startup.
StartThread ==
    /\ At("main", "start")
    /\ boot < Len(StartOrder)
    /\ pc' = [pc EXCEPT ![StartOrder[boot + 1]] = "start"]
    /\ boot' = boot + 1
    /\ UNCHANGED <<suspended, mbType, mbq, timeMes, dhtMes, weaMes>>

\* rt_mb_init, which always returns RT_EOK.
InitMailbox ==
    /\ At("main", "start")
    /\ boot \in Len(StartOrder) .. BootSteps - 1
    /\ LET b == InitOrder[boot - Len(StartOrder) + 1]
       IN  /\ mbType' = [mbType EXCEPT ![b] = "MailBox"]
           /\ mbq' = [mbq EXCEPT ![b] = <<>>]
    /\ boot' = boot + 1
    /\ UNCHANGED <<pc, suspended, timeMes, dhtMes, weaMes>>

\* rt_thread_mdelay(1000), for ever: main wakes up only to sleep again, which
\* changes nothing, so it is not woken here.
MainLoop ==
    /\ At("main", "start")
    /\ boot = BootSteps
    /\ SleepThen("main", "start")
    /\ UNCHANGED <<mbType, mbq, timeMes, dhtMes, weaMes, boot>>

MainStep == StartThread \/ InitMailbox \/ MainLoop

Init ==
    /\ pc = [t \in Threads |-> IF t = "main" THEN "start" ELSE "new"]
    /\ suspended = {}
    /\ mbType = [b \in Boxes |-> "Null"]
    /\ mbq = [b \in Boxes |-> <<>>]
    /\ timeMes = [f \in TimeFields |-> Junk]
    /\ dhtMes = [f \in {"temp", "humi"} |-> Junk]
    /\ weaMes = <<>>
    /\ boot = 0
    /\ TimeInit /\ DhtInit /\ MpuInit /\ WeaInit /\ OledInit

\* One step of a thread leaves the locals of the others alone.
Local(t) ==
    /\ t # "time" => UNCHANGED timeVars
    /\ t # "dht" => UNCHANGED sample
    /\ t # "mpu" => UNCHANGED mpuVars
    /\ t # "wea" => UNCHANGED weaVars
    /\ t # "oled" => UNCHANGED oledVars
    /\ t # "main" => UNCHANGED boot

ThreadStep(t) ==
    /\ \/ t = "main" /\ MainStep
       \/ t = "time" /\ TimeStep
       \/ t = "dht" /\ DhtStep
       \/ t = "mpu" /\ MpuStep
       \/ t = "wea" /\ WeaStep
       \/ t = "oled" /\ OledStep
    /\ Local(t)

NoLocals == UNCHANGED <<timeVars, sample, mpuVars, weaVars, oledVars, boot>>

Next ==
    \/ \E t \in Threads :
        \/ ThreadStep(t)
        \/ t # "main" /\ Wake(t) /\ NoLocals
        \/ AssertFails(t) /\ NoLocals
    \/ ClockTick /\ Local("time")
    \/ HeapReuse /\ Local("wea")

Spec == Init /\ [][Next]_vars

\* Every delay ends and every device answers or times out; and the threads
\* leave the processor idle again and again, as each does a bounded amount of
\* work between two delays.  An idle processor has run every ready thread.
Idle == \A t \in Threads : ~Ready(t)

Fairness ==
    /\ []<>Idle
    /\ \A t \in Threads \ {"main"} : WF_vars(Wake(t) /\ NoLocals)

FairSpec == Spec /\ Fairness
------------------------------------------------------------------------------
Points ==
    [main |-> {"start"},
     time |-> {"setTime", "read", "send"} \cup TimeFields,
     dht  |-> {"read", "temp", "humi", "send"},
     mpu  |-> {"dmp", "read", "send"},
     wea  |-> {"buffer", "session", "get", "status", "read", "result", "parse",
               "send", "free", "check", "cleanup"},
     oled |-> {"loading", "draw"} \cup DOMAIN OledBox]

\* What can be in a field of a page.
Texts(p) ==
    IF p = 2 THEN {"unset", "weather", "freed", "foreign"}
    ELSE IF p = 1 THEN Samples \cup {Junk} ELSE Stamps \cup {Junk}

Mail ==
    [weather |-> 1 .. Len(weaMes), time |-> {"mes"}, dht |-> {"msg"},
     mpu |-> 0 .. Page_Max]

\* The state keeps its types: no mailbox holds more mails than its pool has
\* room for, every mail names a record or a page that exists, and a frame has no
\* more fields than its page (main.c, oled.c).
TypeOK ==
    /\ \A t \in Threads : pc[t] \in Points[t] \cup {"new", "start", "exit", "halt"}
    /\ suspended \subseteq Threads
    /\ mbType \in [Boxes -> {"Null", "MailBox"}]
    /\ \A b \in Boxes : mbq[b] \in Seq(Mail[b]) /\ Len(mbq[b]) <= MbSize
    /\ timeMes \in [TimeFields -> Stamps \cup {Junk}]
    /\ dhtMes \in [{"temp", "humi"} -> Samples \cup {Junk}]
    /\ weaMes \in Seq(Texts(2))
    /\ boot \in 0 .. BootSteps
    /\ TimeTypeOK /\ DhtTypeOK /\ MpuTypeOK /\ WeaTypeOK
    /\ oled_sign \in 0 .. Page_Max
    /\ str_wea \in 0 .. Len(weaMes)
    /\ frame \in Seq(Texts(oled_sign)) /\ Len(frame) <= Len(Fields[oled_sign])
    /\ screen \in {Off, Loading} \cup 0 .. Page_Max

\* main starts the threads before it initialises their mailboxes; none of them
\* gets to a mailbox before that (main.c, by the priority of main alone).
NoUseBeforeInit ==
    \A t \in Threads : AtMailbox(t) => Initialised(BoxOf(t))

\* A producer rewrites its one record while the OLED thread holds its address,
\* yet whenever the OLED thread draws, the record is whole: every field comes
\* from the same reading, and none is the junk of rt_malloc (my_time.c,
\* my_dht11.c, oled.c; by the priorities of the producers).
DrawsWholeRecords ==
    At("oled", "draw") =>
        /\ oled_sign = 0 =>
            \A f, g \in TimeFields : timeMes[f] = timeMes[g] /\ timeMes[f] # Junk
        /\ oled_sign = 1 => dhtMes["temp"] = dhtMes["humi"] /\ dhtMes["temp"] # Junk

\* Unless its last mail was dropped, the page the MPU thread counts is the
\* page the OLED thread ends up on once it has read its mails (my_mpu6050.c,
\* oled.c).
PageInSync ==
    pc["mpu"] # "send" /\ ~lost =>
        LET q == <<oled_sign>> \o mbq["mpu"] IN q[Len(q)] = page

\* However the weather thread ends, it has released its session, buffer, uri
\* and JSON tree; only a failed assertion makes it keep them (Weather.c).
WeatherReleases == pc["wea"] = "exit" => owned = {}

\* No thread stops in an RT_ASSERT: the weather thread, in particular, sends
\* only to a mailbox that the OLED thread has not detached yet (rt_mb_send_wait
\* and rt_mb_recv assert the type of the object; Weather.c, oled.c).
NoAssertionFails == \A t \in Threads : pc[t] # "halt"

\* The weather page is drawn from the weather that was received: the record
\* whose address the OLED thread keeps still belongs to it, or has at least not
\* been overwritten since it was freed (Weather.c, oled.c).
WeatherPageShowsWeather ==
    oled_sign = 2 => \A i \in 1 .. Len(frame) : frame[i] \in {"weather", "freed"}

\* A page selected by tilting, and not selected away, is shown in the end,
\* unless its mail was dropped (my_mpu6050.c, oled.c).
PageShown ==
    \A p \in 0 .. Page_Max :
        (page = p /\ ~lost) ~> (screen = p \/ page # p \/ lost)

\* Once the clock has been set, the time page catches up with it, although
\* mails are dropped while another page is shown and the old ones are drawn
\* first (my_time.c, oled.c).
ClockCatchesUp ==
    (rtc = MaxTime /\ pc["time"] \notin {"new", "start", "setTime"} /\ page = 0 /\ ~lost) ~>
        \/ page # 0 \/ lost
        \/ FrameComplete /\ oled_sign = 0 /\ \A i \in 1 .. Len(frame) : frame[i] = MaxTime
==============================================================================
