------------------------------ MODULE MCClockApp ------------------------------
(* Instances of ClockApp for TLC.                                           *)
EXTENDS ClockApp, TLC

\* States that the clock reaches from Init, to start from where a run turns
\* the page often and does not need the whole start-up.  In all of them the
\* weather thread has ended and its record was freed and reused, and the other
\* threads are in a delay or wait for a device (or have ended).
Later(points, boxes, mails, date, climate, sign) ==
    /\ pc = points @@ [main |-> "start", wea |-> "exit"]
    /\ suspended = {t \in Threads : pc[t] # "exit"}
    /\ mbType = [b \in Boxes |-> IF b \in boxes THEN "MailBox" ELSE "Null"]
    /\ mbq = mails
    /\ timeMes = [f \in TimeFields |-> date]
    /\ rtc = 0 /\ now = 0
    /\ dhtMes = [f \in {"temp", "humi"} |-> climate] /\ sample = climate
    /\ weaMes = <<"foreign">> /\ WeaInit
    /\ page = sign /\ page_buff = 1 /\ lost = FALSE
    /\ oled_sign = sign /\ frame = <<>>
    /\ boot = BootSteps

\* The weather is there before the display has started up and the NTP query
\* has been answered; the DHT11 thread has sent its first mail.
WeatherFirst ==
    /\ \E s \in Samples :
        Later([time |-> "setTime", dht |-> "read", mpu |-> "read", oled |-> "loading"],
              Boxes,
              [weather |-> <<1>>, time |-> <<>>, dht |-> <<"msg">>, mpu |-> <<>>],
              Junk, s, 0)
    /\ str_wea = 0 /\ screen = Off

\* The same without a DHT11, and the MPU6050 has not started yet.
NoDht ==
    /\ Later([time |-> "setTime", dht |-> "exit", mpu |-> "dmp", oled |-> "loading"],
             Boxes,
             [weather |-> <<1>>, time |-> <<>>, dht |-> <<>>, mpu |-> <<>>],
             Junk, Junk, 0)
    /\ str_wea = 0 /\ screen = Off

\* Page p is shown and the mailboxes of the producers hold a mail.
Settled(p) ==
    /\ \E s \in Samples :
        Later([time |-> "read", dht |-> "read", mpu |-> "read", oled |-> "poll"],
              Boxes \ {"weather"},
              [weather |-> <<>>, time |-> <<"mes">>, dht |-> <<"msg">>, mpu |-> <<>>],
              0, s, p)
    /\ str_wea = 1 /\ screen = p

LiveSpec ==
    /\ WeatherFirst \/ \E p \in 0 .. Page_Max : Settled(p)
    /\ [][Next]_vars
    /\ Fairness

FaultsSpec == (Init \/ NoDht) /\ [][Next]_vars
==============================================================================
