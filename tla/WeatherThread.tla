---------------------------- MODULE WeatherThread ----------------------------
(***************************************************************************)
(* The weather thread, applications/Weather.c.  The HTTP client is seen    *)
(* through what webclient_get and webclient_read return; cJSON, which is   *)
(* outside the repository, through what cJSON_Parse makes of the buffer.   *)
(***************************************************************************)
EXTENDS ClockKernel

CONSTANTS
    RespSize,     \* GET_RESP_BUFSZ, in the unit of MaxBody
    BodyKinds,    \* what the buffer may hold after a read: see Contents
    NetMayFail,   \* the request may fail, a read may be short or deliver nothing
    HeapMayFail   \* web_strdup, web_malloc, webclient_session_create may fail

\* As cJSON_Parse sees the buffer: JSON with the weather in it, other JSON, or
\* no JSON at all.  "uninit" is a buffer nothing was read into.
Contents == {"weather", "other", "bad", "uninit"}

ASSUME RespAssumption == RespSize \in Nat \ {0}
ASSUME BodyKindsAssumption == BodyKinds \subseteq Contents \ {"uninit"}
ASSUME NetAssumption == NetMayFail \in BOOLEAN /\ HeapMayFail \in BOOLEAN

VARIABLES
    owned,    \* what the thread holds of uri, buffer, session and json
    buf,      \* content of buffer
    left,     \* content_length - content_pos
    got       \* bytes_read, 0 for every result <= 0

weaVars == <<owned, buf, left, got>>

\* Allocations in the order of the code; each failure leaves by __exit.
WeaAllocate(point, what, next) ==
    /\ At("wea", point)
    /\ \/ /\ HeapMayFail
          /\ Goto("wea", "cleanup")
          /\ UNCHANGED owned
       \/ /\ owned' = owned \cup {what}
          /\ Goto("wea", next)
    /\ UNCHANGED <<suspended, mbType, mbq, timeMes, dhtMes, weaMes, buf, left, got>>

\* webclient_get sends the request and waits for the response header.
WeaGet ==
    /\ At("wea", "get")
    /\ SleepThen("wea", "status")
    /\ UNCHANGED <<mbType, mbq, timeMes, dhtMes, weaMes, weaVars>>

\* A status other than 200; a chunked body, which is read and printed only; or
\* a body with a Content-Length.
WeaStatus ==
    /\ At("wea", "status")
    /\ \/ /\ NetMayFail
          /\ Goto("wea", "cleanup")
          /\ UNCHANGED <<suspended, left>>
       \/ /\ NetMayFail
          /\ SleepThen("wea", "cleanup")
          /\ UNCHANGED left
       \/ /\ left' \in (IF NetMayFail THEN 0 ELSE 1) .. MaxBody
          /\ Goto("wea", "read")
          /\ UNCHANGED suspended
    /\ UNCHANGED <<mbType, mbq, timeMes, dhtMes, weaMes, owned, buf, got>>

WeaRead ==
    /\ At("wea", "read")
    /\ SleepThen("wea", "result")
    /\ UNCHANGED <<mbType, mbq, timeMes, dhtMes, weaMes, weaVars>>

Asked == IF left > RespSize THEN RespSize ELSE left

\* webclient_read returns what it asked for, less when the connection ends or
\* times out, or nothing; then the buffer keeps its content.  Each part of a
\* body is read to the start of the buffer, so that only the first can leave
\* the whole weather in it.
WeaResult ==
    /\ At("wea", "result")
    /\ \/ /\ got' \in 1 .. Asked
          /\ NetMayFail \/ got' = Asked
          /\ buf' \in BodyKinds \ (IF weaMes = <<>> THEN {} ELSE {"weather"})
       \/ /\ NetMayFail \/ Asked = 0
          /\ got' = 0
          /\ UNCHANGED buf
    /\ Goto("wea", "parse")
    /\ UNCHANGED <<suspended, mbType, mbq, timeMes, dhtMes, weaMes, owned, left>>

\* cJSON_NowWeatherParse up to rt_mb_send, called before bytes_read is looked
\* at.  Without JSON it returns and leaks mes; with other JSON the fields of
\* mes stay unset (the if of line 36 guards nothing).  What an uninitialised
\* buffer holds is anybody's guess, except for this city's weather.
WeaParseFails ==
    /\ At("wea", "parse")
    /\ buf \in {"bad", "uninit"}
    /\ weaMes' = Append(weaMes, "unset")
    /\ Goto("wea", "check")
    /\ UNCHANGED <<suspended, mbType, mbq, timeMes, dhtMes, weaVars>>

WeaParseWorks ==
    /\ At("wea", "parse")
    /\ buf # "bad"
    /\ weaMes' = Append(weaMes, IF buf = "weather" THEN "weather" ELSE "unset")
    /\ owned' = owned \cup {"json"}
    /\ Goto("wea", "send")
    /\ UNCHANGED <<suspended, mbType, mbq, timeMes, dhtMes, buf, left, got>>

WeaSend ==
    /\ At("wea", "send")
    /\ Send("weather", Len(weaMes))
    /\ Goto("wea", "free")
    /\ UNCHANGED <<suspended, mbType, timeMes, dhtMes, weaMes, weaVars>>

\* rt_free(mes) and cJSON_Delete(json), the mail being on its way.
WeaFree ==
    /\ At("wea", "free")
    /\ weaMes' = [weaMes EXCEPT ![Len(weaMes)] =
                    IF @ = "weather" THEN "freed" ELSE "foreign"]
    /\ owned' = owned \ {"json"}
    /\ Goto("wea", "check")
    /\ UNCHANGED <<suspended, mbType, mbq, timeMes, dhtMes, buf, left, got>>

\* bytes_read <= 0 breaks the loop, content_pos >= content_length ends it.
WeaCheck ==
    /\ At("wea", "check")
    /\ left' = left - got
    /\ Goto("wea", IF got = 0 \/ got = left THEN "cleanup" ELSE "read")
    /\ UNCHANGED <<suspended, mbType, mbq, timeMes, dhtMes, weaMes, owned, buf, got>>

\* Mutant: __exit does not close the session.
WeaCleanupOpen ==
    /\ At("wea", "cleanup")
    /\ owned' = owned \ {"buffer", "uri"}
    /\ buf' = "uninit" /\ left' = 0 /\ got' = 0
    /\ Goto("wea", "exit")
    /\ UNCHANGED <<suspended, mbType, mbq, timeMes, dhtMes, weaMes>>

\* __exit and the end of thread_entry_weather, with its local variables.
WeaCleanup ==
    /\ At("wea", "cleanup")
    /\ owned' = owned \ {"session", "buffer", "uri"}
    /\ buf' = "uninit" /\ left' = 0 /\ got' = 0
    /\ Goto("wea", "exit")
    /\ UNCHANGED <<suspended, mbType, mbq, timeMes, dhtMes, weaMes>>

WeaStep ==
    \/ WeaAllocate("start", "uri", "buffer")
    \/ WeaAllocate("buffer", "buffer", "session")
    \/ WeaAllocate("session", "session", "get")
    \/ WeaGet \/ WeaStatus \/ WeaRead \/ WeaResult
    \/ WeaParseFails \/ WeaParseWorks \/ WeaSend \/ WeaFree
    \/ WeaCheck \/ WeaCleanup

\* Another user of the heap is given a freed record and writes to it.
HeapReuse ==
    /\ \E i \in 1 .. Len(weaMes) :
        /\ weaMes[i] = "freed"
        /\ weaMes' = [weaMes EXCEPT ![i] = "foreign"]
    /\ UNCHANGED <<pc, suspended, mbType, mbq, timeMes, dhtMes, weaVars>>

WeaInit == owned = {} /\ buf = "uninit" /\ left = 0 /\ got = 0

WeaTypeOK ==
    /\ owned \subseteq {"uri", "buffer", "session", "json"}
    /\ buf \in Contents
    /\ left \in 0 .. MaxBody
    /\ got \in 0 .. MaxBody
==============================================================================
