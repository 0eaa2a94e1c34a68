------------------------------ MODULE DhtThread ------------------------------
(* The DHT11 thread, applications/my_dht11.c.  The sensor driver is outside *)
(* the repository: a read delivers a sample or fails.                       *)
EXTENDS ClockKernel

CONSTANTS
    Samples,     \* what one successful read can deliver
    DhtFound,    \* whether temp_dht11 can be found and opened
    DhtMayFail   \* a read may fail or deliver a negative value

ASSUME SamplesAssumption == Samples \subseteq Nat
ASSUME DhtAssumption == DhtFound \subseteq BOOLEAN /\ DhtMayFail \in BOOLEAN

VARIABLE sample   \* sensor_data.data.temp, both halves from one read

\* rt_device_find and rt_device_open.
DhtStart ==
    /\ At("dht", "start")
    /\ \E found \in DhtFound : Goto("dht", IF found THEN "read" ELSE "exit")
    /\ UNCHANGED <<suspended, mbType, mbq, timeMes, dhtMes, weaMes, sample>>

\* rt_device_read: one failure closes the device and ends the thread; a value
\* with the sign bit set is passed over.
DhtRead ==
    /\ At("dht", "read")
    /\ \/ /\ DhtMayFail
          /\ Goto("dht", "exit")
          /\ UNCHANGED <<suspended, sample>>
       \/ /\ DhtMayFail
          /\ SleepThen("dht", "read")
          /\ UNCHANGED sample
       \/ /\ sample' \in Samples
          /\ Goto("dht", "temp")
          /\ UNCHANGED suspended
    /\ UNCHANGED <<mbType, mbq, timeMes, dhtMes, weaMes>>

\* The two calls of sprintf.
DhtPrint(f) ==
    /\ At("dht", f)
    /\ dhtMes' = [dhtMes EXCEPT ![f] = sample]
    /\ Goto("dht", IF f = "temp" THEN "humi" ELSE "send")
    /\ UNCHANGED <<suspended, mbType, mbq, timeMes, weaMes, sample>>

\* rt_mb_send, then rt_thread_mdelay(100).
DhtSend ==
    /\ At("dht", "send")
    /\ Send("dht", "msg")
    /\ SleepThen("dht", "read")
    /\ UNCHANGED <<mbType, timeMes, dhtMes, weaMes, sample>>

DhtStep ==
    \/ DhtStart
    \/ DhtRead
    \/ \E f \in {"temp", "humi"} : DhtPrint(f)
    \/ DhtSend

DhtInit == sample = Junk

DhtTypeOK == sample \in Samples \cup {Junk}
==============================================================================
