------------------------------- MODULE AtClient ------------------------------
(***************************************************************************)
(* The AT client (rt-thread/components/net/at/src/at_client.c): threads    *)
(* send commands to the ESP8266 over one serial line, one at a time under  *)
(* client->lock, and the parser thread hands what the module sends back to *)
(* the thread that waits.                                                  *)
(*                                                                         *)
(* The parser has priority 9 and every caller a lower one (22 to 30): what *)
(* the parser does with one line is one step, and it may come between any  *)
(* two accesses of a caller to the client object.                          *)
(*                                                                         *)
(* A line is [kind, cmd, ...]: its kind is what the parser looks at, cmd   *)
(* the command it belongs to, which no line of the real protocol tells and *)
(* only the properties look at.  Lines of a response before the last one   *)
(* matter only where lines are counted (AT+CIPSEND).                       *)
(***************************************************************************)
EXTENDS Integers, Sequences, FiniteSets

CONSTANTS
    Callers,        \* threads that use the network
    None,           \* RT_NULL
    MaxCmds,        \* bound: commands sent in one behaviour
    MaxTimeouts     \* bound: waits that run into their timeout

ASSUME CallersAssumption == None \notin Callers
ASSUME CmdsAssumption == MaxCmds \in Nat /\ MaxTimeouts \in Nat

VARIABLES
    lock,           \* owner of client->lock
    resp,           \* whose response object client->resp points to
    resp_status,    \* client->resp_status
    resp_notice,    \* value of the semaphore client->resp_notice
    ex,             \* caller -> its call of at_obj_exec_cmd
    toDevice,       \* commands and data the module has not read yet
    toClient,       \* lines the parser has not read yet
    sent,           \* number of commands sent
    timeouts,       \* number of waits that timed out
    stale           \* for the properties: since a wait timed out, something
                    \* of the abandoned command may still be around

clientVars == <<lock, resp, resp_status, resp_notice, ex, toDevice, toClient, sent,
                timeouts, stale>>

\* A call of at_obj_exec_cmd: where it is, the number of its command, the
\* lines its response ends after (0: it ends with OK) and has got, the
\* command whose line ended it, and its result.
NoExec == [pc |-> "idle", cmd |-> 0, line_num |-> 0, line_counts |-> 0, end |-> 0,
           result |-> "none"]

ClientInit ==
    /\ lock = None
    /\ resp = None
    /\ resp_status = "OK"
    /\ resp_notice = 0
    /\ ex = [t \in Callers |-> NoExec]
    /\ toDevice = <<>>
    /\ toClient = <<>>
    /\ sent = 0
    /\ timeouts = 0
    /\ stale = FALSE

-----------------------------------------------------------------------------
(***************************************************************************)
(* at_obj_exec_cmd.                                                        *)
(***************************************************************************)

\* Mutant: the client is not locked.
LockFree_Always(t) == TRUE

\* rt_mutex_take(client->lock); the mutex is recursive.
LockFree(t) == lock \in {None, t}

\* Take the lock, put the response in place and send the command.
ExecStart(t, line_num, op) ==
    /\ ex[t].pc = "idle"
    /\ LockFree(t)
    /\ sent < MaxCmds
    /\ lock' = t
    /\ resp' = t
    /\ resp_status' = "OK"
    /\ sent' = sent + 1
    /\ ex' = [ex EXCEPT ![t] = [NoExec EXCEPT !.pc = "wait", !.cmd = sent + 1,
                                              !.line_num = line_num]]
    /\ toDevice' = Append(toDevice, [op EXCEPT !.cmd = sent + 1])
    /\ UNCHANGED <<resp_notice, toClient, timeouts, stale>>

\* rt_sem_take(client->resp_notice) succeeds, whoever released it.
ExecWake(t) ==
    /\ ex[t].pc = "wait"
    /\ resp_notice > 0
    /\ resp_notice' = resp_notice - 1
    /\ ex' = [ex EXCEPT ![t].pc = "exit",
                        ![t].result = IF resp_status = "OK" THEN "OK" ELSE "ERROR"]
    /\ UNCHANGED <<lock, resp, resp_status, toDevice, toClient, sent, timeouts, stale>>

\* rt_sem_take(client->resp_notice) times out.
ExecTimeout(t) ==
    /\ ex[t].pc = "wait"
    /\ resp_notice = 0
    /\ timeouts < MaxTimeouts
    /\ timeouts' = timeouts + 1
    /\ resp_status' = "TIMEOUT"
    /\ ex' = [ex EXCEPT ![t].pc = "exit", ![t].result = "TIMEOUT"]
    /\ stale' = TRUE
    /\ UNCHANGED <<lock, resp, resp_notice, toDevice, toClient, sent>>

\* Mutant: client->resp keeps pointing to the response.
RespAtExit_Kept == resp

RespAtExit == None

\* Forget the response and release the lock, unless the caller itself holds
\* it around the command (keep).
ExecExit(t, keep) ==
    /\ ex[t].pc = "exit"
    /\ resp' = RespAtExit
    /\ lock' = IF keep THEN t ELSE None
    /\ ex' = [ex EXCEPT ![t] = [@ EXCEPT !.pc = "done"]]
    /\ UNCHANGED <<resp_status, resp_notice, toDevice, toClient, sent, timeouts, stale>>

\* The caller goes on with the result.
Done(t) == ex[t].pc = "done"
Forget(t) == ex' = [ex EXCEPT ![t] = NoExec]

-----------------------------------------------------------------------------
(***************************************************************************)
(* client_parser, for a line that is no unsolicited result code.           *)
(***************************************************************************)

\* The status with which a line ends the response r, "none" if it does not.
EndStatus(r, line) ==
    IF line.kind = "OK" /\ r.line_num = 0 THEN "OK"
    ELSE IF line.kind = "ERROR" THEN "ERROR"
    ELSE IF r.line_num # 0 /\ r.line_counts + 1 = r.line_num THEN "OK"
    ELSE "none"

ParseResponse(line) ==
    IF resp = None
    THEN UNCHANGED <<resp, resp_status, resp_notice, ex>>
    ELSE LET end == EndStatus(ex[resp], line) IN
         IF end = "none"
         THEN /\ ex' = [ex EXCEPT ![resp].line_counts = @ + 1]
              /\ UNCHANGED <<resp, resp_status, resp_notice>>
         ELSE /\ ex' = [ex EXCEPT ![resp].line_counts = @ + 1, ![resp].end = line.cmd]
              /\ resp_status' = end
              /\ resp' = None
              /\ resp_notice' = resp_notice + 1

-----------------------------------------------------------------------------
(***************************************************************************)
(* Properties.                                                             *)
(***************************************************************************)
ClientTypeOK ==
    /\ lock \in Callers \cup {None}
    /\ resp \in Callers \cup {None}
    /\ resp_status \in {"OK", "ERROR", "TIMEOUT"}
    /\ resp_notice \in Nat
    /\ ex \in [Callers -> [pc : {"idle", "wait", "exit", "done"}, cmd : 0 .. MaxCmds,
                           line_num : {0, 2}, line_counts : Nat, end : 0 .. MaxCmds,
                           result : {"none", "OK", "ERROR", "TIMEOUT"}]]
    /\ sent \in 0 .. MaxCmds
    /\ timeouts \in 0 .. MaxTimeouts
    /\ stale \in BOOLEAN

(***************************************************************************)
(* The parser writes into a response only while the thread it belongs to   *)
(* holds the client lock inside at_obj_exec_cmd.  The response lives on    *)
(* the heap and its owner frees it after the call: a pointer that outlived *)
(* the call, through a timeout or through an answer that came twice, would *)
(* let the parser write into freed memory.                                 *)
(***************************************************************************)
RespOfHolder ==
    resp # None => lock = resp /\ ex[resp].pc \in {"wait", "exit"}

(***************************************************************************)
(* Unless a wait has timed out and its remains are still around, a command *)
(* that reports a response has the response to this very command, and no   *)
(* notice is left over when the client is free.                            *)
(***************************************************************************)
OwnResponse ==
    ~stale =>
        /\ \A t \in Callers :
              ex[t].result \in {"OK", "ERROR"} => ex[t].end = ex[t].cmd
        /\ lock = None => resp_notice = 0
=============================================================================
