------------------------------ MODULE OledThread ------------------------------
(***************************************************************************)
(* The OLED thread, applications/oled.c.  A page is drawn field by field   *)
(* into the frame of u8g2 (outside the repository) and then sent to the    *)
(* screen; more urgent threads may run between two fields.                 *)
(***************************************************************************)
EXTENDS ClockKernel

VARIABLES
    oled_sign,  \* the page the loop draws
    str_wea,    \* the weather record: an index of weaMes, 0 for its own
    frame,      \* the fields drawn since u8g2_ClearBuffer
    screen      \* the page the display shows, or Off or Loading

oledVars == <<oled_sign, str_wea, frame, screen>>

Off == -2
Loading == -1

\* The fields of each page, in the order they are drawn.
Fields ==
    [p \in 0 .. 2 |-> CASE p = 0 -> <<"year", "mouth", "week", "hour">>
                        [] p = 1 -> <<"temp", "humi">>
                        [] p = 2 -> <<"name", "temp", "weather">>]

\* The content of a field at the moment it is drawn.
FieldNow(p, f) ==
    CASE p = 0 -> timeMes[f]
      [] p = 1 -> dhtMes[f]
      [] p = 2 -> IF str_wea = 0 THEN "unset" ELSE weaMes[str_wea]

\* rt_malloc of a record that the first mail replaces; u8g2_InitDisplay waits.
OledStart ==
    /\ At("oled", "start")
    /\ SleepThen("oled", "loading")
    /\ UNCHANGED <<mbType, mbq, timeMes, dhtMes, weaMes, oledVars>>

OledLoading ==
    /\ At("oled", "loading")
    /\ screen' = Loading
    /\ Goto("oled", "weaRecv")
    /\ UNCHANGED <<suspended, mbType, mbq, timeMes, dhtMes, weaMes, oled_sign,
                   str_wea, frame>>

OledRecvWeather ==
    /\ At("oled", "weaRecv")
    /\ Receive("weather", str_wea')
    /\ Goto("oled", "weaDetach")
    /\ UNCHANGED <<suspended, mbType, timeMes, dhtMes, weaMes, oled_sign, frame,
                   screen>>

\* rt_mb_detach(&mb_oled_weather), and oled_sign = 0.
OledDetach ==
    /\ At("oled", "weaDetach")
    /\ mbType["weather"] = "MailBox"
    /\ mbType' = [mbType EXCEPT !["weather"] = "Null"]
    /\ oled_sign' = 0
    /\ Goto("oled", "poll")
    /\ UNCHANGED <<suspended, mbq, timeMes, dhtMes, weaMes, str_wea, frame, screen>>

\* Where the loop goes on for each page; a page that does not exist would
\* send it round without a pause.
PagePoint(p) ==
    CASE p = 0 -> "timeRecv"
      [] p = 1 -> "dhtRecv"
      [] p = 2 -> "draw"
      [] OTHER -> "poll"

OledPollMail ==
    /\ At("oled", "poll")
    /\ Receive("mpu", oled_sign')
    /\ Goto("oled", PagePoint(oled_sign'))
    /\ UNCHANGED <<suspended, mbType, timeMes, dhtMes, weaMes, str_wea, frame, screen>>

OledPollEmpty ==
    /\ At("oled", "poll")
    /\ mbType["mpu"] = "MailBox"
    /\ mbq["mpu"] = <<>>
    /\ Goto("oled", PagePoint(oled_sign))
    /\ UNCHANGED <<suspended, mbType, mbq, timeMes, dhtMes, weaMes, oledVars>>

\* The mail is the address of the producer's only record.
OledRecvTime ==
    /\ At("oled", "timeRecv")
    /\ Receive("time", "mes")
    /\ Goto("oled", "draw")
    /\ UNCHANGED <<suspended, mbType, timeMes, dhtMes, weaMes, oledVars>>

OledRecvDht ==
    /\ At("oled", "dhtRecv")
    /\ Receive("dht", "msg")
    /\ Goto("oled", "draw")
    /\ UNCHANGED <<suspended, mbType, timeMes, dhtMes, weaMes, oledVars>>

\* One u8g2_DrawStr.
OledDraw ==
    /\ At("oled", "draw")
    /\ Len(frame) < Len(Fields[oled_sign])
    /\ frame' = Append(frame, FieldNow(oled_sign, Fields[oled_sign][Len(frame) + 1]))
    /\ UNCHANGED <<kernelVars, oled_sign, str_wea, screen>>

\* The frame is complete and about to be sent.
FrameComplete == pc["oled"] = "draw" /\ Len(frame) = Len(Fields[oled_sign])

\* u8g2_SendBuffer, rt_thread_mdelay(1), and the u8g2_ClearBuffer of the page
\* drawn next.
OledFlush ==
    /\ At("oled", "draw")
    /\ FrameComplete
    /\ screen' = oled_sign
    /\ frame' = <<>>
    /\ SleepThen("oled", "poll")
    /\ UNCHANGED <<mbType, mbq, timeMes, dhtMes, weaMes, oled_sign, str_wea>>

OledStep ==
    \/ OledStart \/ OledLoading \/ OledRecvWeather \/ OledDetach
    \/ OledPollMail \/ OledPollEmpty \/ OledRecvTime \/ OledRecvDht
    \/ OledDraw \/ OledFlush

OledInit == oled_sign = 0 /\ str_wea = 0 /\ frame = <<>> /\ screen = Off
==============================================================================
