------------------------------ MODULE MpuThread ------------------------------
(* The page selector, applications/my_mpu6050.c.                            *)
EXTENDS ClockKernel

CONSTANTS
    MpuFound,     \* whether mpu6xxx_init finds the sensor
    MpuMayFail,   \* mpu_dmp_init may fail
    Pitches       \* how the clock is held: a subset of PitchRanges

Page_Max == 2

\* The ranges of pitch the code tells apart.  A failed mpu_dmp_get_data leaves
\* the last value in Pitch, which is one of them as well.
PitchRanges == {"forward",   \* below -40
                "backward",  \* above 40
                "level",     \* between -30 and 30
                "tilted"}    \* anything else

ASSUME MpuAssumption == MpuFound \subseteq BOOLEAN /\ MpuMayFail \in BOOLEAN
ASSUME PitchAssumption == Pitches \subseteq PitchRanges

VARIABLES
    page,
    page_buff,  \* 1: a tilt may turn the page
    lost        \* the last page mail was dropped by a full mailbox

mpuVars == <<page, page_buff, lost>>

\* mpu6xxx_init fails for good, mpu_dmp_init is tried again after 500 ms.
MpuStart ==
    /\ At("mpu", "start")
    /\ \E found \in MpuFound : Goto("mpu", IF found THEN "dmp" ELSE "exit")
    /\ UNCHANGED <<suspended, mbType, mbq, timeMes, dhtMes, weaMes, mpuVars>>

MpuDmpInit ==
    /\ At("mpu", "dmp")
    /\ \/ MpuMayFail /\ SleepThen("mpu", "dmp")
       \/ Goto("mpu", "read") /\ UNCHANGED suspended
    /\ UNCHANGED <<mbType, mbq, timeMes, dhtMes, weaMes, mpuVars>>

Turned(p, pitch) ==
    IF pitch = "forward"
    THEN IF p + 1 > Page_Max THEN 0 ELSE p + 1
    ELSE IF p - 1 < 0 THEN Page_Max ELSE p - 1

Turns(pitch) == pitch \in {"forward", "backward"} /\ page_buff = 1

MpuTilt ==
    /\ At("mpu", "read")
    /\ \E pitch \in Pitches : Turns(pitch) /\ page' = Turned(page, pitch)
    /\ page_buff' = 0
    /\ Goto("mpu", "send")
    /\ UNCHANGED <<suspended, mbType, mbq, timeMes, dhtMes, weaMes, lost>>

MpuRest ==
    /\ At("mpu", "read")
    /\ \E pitch \in Pitches :
        /\ ~Turns(pitch)
        /\ page_buff' = IF pitch = "level" THEN 1 ELSE page_buff
    /\ SleepThen("mpu", "read")
    /\ UNCHANGED <<mbType, mbq, timeMes, dhtMes, weaMes, page, lost>>

\* rt_mb_send of the page number, then rt_thread_mdelay(10).
MpuSend ==
    /\ At("mpu", "send")
    /\ Send("mpu", page)
    /\ lost' = Full("mpu")
    /\ SleepThen("mpu", "read")
    /\ UNCHANGED <<mbType, timeMes, dhtMes, weaMes, page, page_buff>>

MpuStep == MpuStart \/ MpuDmpInit \/ MpuTilt \/ MpuRest \/ MpuSend

MpuInit == page = 0 /\ page_buff = 1 /\ lost = FALSE

MpuTypeOK ==
    /\ page \in 0 .. Page_Max
    /\ page_buff \in {0, 1}
    /\ lost \in BOOLEAN
==============================================================================
