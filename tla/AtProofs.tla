------------------------------ MODULE AtProofs -------------------------------
(***************************************************************************)
(* Proofs about the AT client and its sockets, for every number of callers *)
(* and sockets and every bound: who may use the response and the client    *)
(* lock, that no two callers share a socket, that no caller waits for a    *)
(* packet that is there, that a caller gets the response to its own        *)
(* command, that a socket holds data of its own connection only, and that  *)
(* no callback meets a half-made or half-deleted socket.                   *)
(***************************************************************************)
EXTENDS AtSocket, ListLemmas, TLAPS

-----------------------------------------------------------------------------
(***************************************************************************)
(* Types.                                                                  *)
(***************************************************************************)
ExecCall == [pc : {"idle", "wait", "exit", "done"}, cmd : 0 .. MaxCmds,
             line_num : {0, 2}, line_counts : Nat, end : 0 .. MaxCmds,
             result : {"none", "OK", "ERROR", "TIMEOUT"}]

Names == {"START", "CLOSE", "SEND", "DATA"}

Commands == [name : Names, slot : Slots, cmd : 0 .. MaxCmds]

Kinds == {"OK", "ERROR", "INFO", "+IPD", "CLOSED", "SEND OK", "SEND FAIL"}

\* Data come over a link that a command has started.
Lines == {l \in [kind : Kinds, slot : Slots, cmd : 0 .. MaxCmds] :
             l.kind = "+IPD" => l.cmd # 0}

SocketEntry == [magic : BOOLEAN, state : {"none", "open", "connect", "closed"},
                recvpkt : Seq(1 .. MaxCmds), recv_notice : Nat, dead : BOOLEAN,
                conn : 0 .. MaxCmds]

\* Where a caller is in a command, and where it holds the lock around one.
Calling == {"connecting", "reclosing", "send", "closing"}
Confirming == {"send_socket", "send_result"}

AppState == [pc : {"none", "alloc", "open", "reclose", "up", "failed", "recv", "close",
                   "free", "erase"} \cup Calling \cup Confirming,
             slot : Slots, retried : BOOLEAN]

LineType == toDevice \in Seq(Commands) /\ toClient \in Seq(Lines)

SockType ==
    /\ sock \in [Slots -> SocketEntry]
    /\ \A s \in Slots : ~sock[s].dead => sock[s].magic /\ sock[s].state # "none"

AppType == app \in [Callers -> AppState]

DeviceType ==
    /\ socket_event \subseteq ResultBits \cup 16 .. 18
    /\ sending \in Slots
    /\ link \in [Slots -> 0 .. MaxCmds]
    /\ prompt \in Slots \cup {None}
    /\ packets \in 0 .. MaxData

TypeInv == ClientTypeOK /\ LineType /\ SockType /\ AppType /\ DeviceType

\* The constant records have their types.
LEMMA RecordTypes ==
    /\ 0 \in Slots
    /\ NoExec \in ExecCall
    /\ NoSocket \in SocketEntry
    /\ FreshSocket \in SocketEntry /\ FreshSocket.magic /\ FreshSocket.state # "none"
    /\ NoApp \in AppState
<1>1. 0 \in Slots
  BY SocketNumAssumption DEF Slots
<1>2. NoExec \in ExecCall
  BY CmdsAssumption DEF NoExec, ExecCall
<1>3. NoSocket \in SocketEntry
  BY CmdsAssumption DEF NoSocket, SocketEntry
<1>4. FreshSocket \in SocketEntry /\ FreshSocket.magic /\ FreshSocket.state # "none"
  <2>1. FreshSocket \in SocketEntry
    BY <1>3 DEF SocketEntry, FreshSocket
  <2>2. FreshSocket.magic /\ FreshSocket.state = "open"
    BY <1>3 DEF SocketEntry, FreshSocket
  <2> QED
    BY <2>1, <2>2
<1>5. NoApp \in AppState
  BY <1>1 DEF NoApp, AppState
<1> QED
  BY <1>1, <1>2, <1>3, <1>4, <1>5

\* The bits of socket_event.
LEMMA EventBits ==
    /\ \A s \in Slots : SocketBits(s) \subseteq 16 .. 18
    /\ \A kind : ResultBit(kind) \in ResultBits
BY DEF SocketBits, ResultBit, ResultBits

\* A call of at_obj_exec_cmd starts.
LEMMA StartType ==
    ASSUME TypeInv, NEW t \in Callers, NEW n \in {0, 2}, NEW name \in Names, NEW s \in Slots,
           ExecStart(t, n, Cmd(name, s))
    PROVE  ClientTypeOK' /\ LineType'
<1> USE DEF ExecStart
<1>1. sent + 1 \in 0 .. MaxCmds
  BY CmdsAssumption DEF TypeInv, ClientTypeOK
<1>2. [NoExec EXCEPT !.pc = "wait", !.cmd = sent + 1, !.line_num = n] \in ExecCall
  BY <1>1, RecordTypes DEF ExecCall
<1>3. ex' \in [Callers -> ExecCall]
  BY <1>2 DEF TypeInv, ClientTypeOK, ExecCall
<1>4. ClientTypeOK'
  BY <1>1, <1>3 DEF TypeInv, ClientTypeOK, ExecCall
<1>5. [Cmd(name, s) EXCEPT !.cmd = sent + 1] \in Commands
  BY <1>1 DEF Cmd, Commands
<1>6. LineType'
  BY <1>5 DEF TypeInv, LineType
<1> QED
  BY <1>4, <1>6

\* A caller goes to another label.
LEMMA GotoType ==
    ASSUME AppType, NEW t \in Callers, NEW label, [app[t] EXCEPT !.pc = label] \in AppState,
           AppGoto(t, label)
    PROVE  AppType'
BY DEF AppType, AppGoto

\* One entry of the table changes.
LEMMA EntryType ==
    ASSUME SockType, NEW s \in Slots, NEW r \in SocketEntry,
           ~r.dead => r.magic /\ r.state # "none", sock' = [sock EXCEPT ![s] = r]
    PROVE  SockType'
BY DEF SockType

\* The steps of a caller between its commands.
LEMMA CallerType ==
    ASSUME TypeInv, NEW t \in Callers, CallerStep(t)
    PROVE  TypeInv'
<1> DEFINE s == app[t].slot
           Goto(label) == [app[t] EXCEPT !.pc = label]
<1>0. /\ app \in [Callers -> AppState] /\ app[t] \in AppState /\ s \in Slots
      /\ sock \in [Slots -> SocketEntry] /\ sock[s] \in SocketEntry /\ Mine(t) = sock[s]
      /\ (~sock[s].dead => sock[s].magic /\ sock[s].state # "none")
      /\ ex \in [Callers -> ExecCall] /\ toDevice \in Seq(Commands)
  BY DEF TypeInv, AppType, AppState, SockType, LineType, ClientTypeOK, ExecCall, Mine
<1>1. /\ \A label \in Calling \cup Confirming : Goto(label) \in AppState
      /\ \A label \in {"none", "alloc", "open", "reclose", "up", "failed", "recv", "close",
                       "free", "erase"} : Goto(label) \in AppState
  BY <1>0 DEF AppState
<1>2. ASSUME UNCHANGED clientVars PROVE ClientTypeOK' /\ LineType'
  BY <1>2 DEF clientVars, TypeInv, ClientTypeOK, LineType
<1>3. ASSUME Forget(t), UNCHANGED restOfClient PROVE ClientTypeOK'
  BY <1>3, RecordTypes DEF restOfClient, Forget, TypeInv, ClientTypeOK, ExecCall
<1>4. ASSUME UNCHANGED <<socket_event, sending, link, prompt, packets>> PROVE DeviceType'
  BY <1>4 DEF TypeInv, DeviceType
<1>5. ASSUME UNCHANGED <<toDevice, toClient>> PROVE LineType'
  BY <1>5 DEF TypeInv, LineType
<1>6. ASSUME UNCHANGED sock PROVE SockType'
  BY <1>6 DEF TypeInv, SockType
<1>7. ASSUME NEW label, AppGoto(t, label), Goto(label) \in AppState PROVE AppType'
  BY <1>7, GotoType DEF TypeInv
<1>8. ASSUME NEW r \in SocketEntry, ~r.dead => r.magic /\ r.state # "none",
             sock' = [sock EXCEPT ![s] = r]
      PROVE  SockType'
  BY <1>0, <1>8, EntryType DEF TypeInv
<1>9. ASSUME NEW state \in {"open", "connect", "closed"}, StateTo(s, state) PROVE SockType'
  <2>1. sock' = [sock EXCEPT ![s] = [sock[s] EXCEPT !.state = state]]
    BY <1>0, <1>9 DEF StateTo
  <2>2. /\ [sock[s] EXCEPT !.state = state] \in SocketEntry
        /\ [sock[s] EXCEPT !.state = state].state # "none"
    BY <1>0 DEF SocketEntry
  <2>3. /\ [sock[s] EXCEPT !.state = state].dead <=> sock[s].dead
        /\ [sock[s] EXCEPT !.state = state].magic <=> sock[s].magic
    BY <1>0 DEF SocketEntry
  <2> QED
    BY <1>0, <1>8, <2>1, <2>2, <2>3
<1>10. ASSUME UNCHANGED app PROVE AppType'
  BY <1>10 DEF TypeInv, AppType
<1>11. ASSUME NEW r \in SocketEntry, ~r.dead => r.magic /\ r.state # "none", TakePackets(s, r)
       PROVE  SockType'
  <2>1. PICK n \in 0 .. Len(r.recvpkt) :
          sock' = [sock EXCEPT ![s] = [r EXCEPT !.recvpkt = SubSeq(@, n + 1, Len(@))]]
    BY <1>11 DEF TakePackets
  <2> DEFINE q == r.recvpkt
             c == SubSeq(q, n + 1, Len(q))
             v == [r EXCEPT !.recvpkt = c]
  <2>2. q \in Seq(1 .. MaxCmds)
    BY DEF SocketEntry
  <2>3. c \in Seq(1 .. MaxCmds)
    <3> DEFINE m == n + 1
               S == 1 .. MaxCmds
    <3>1. Len(q) \in Nat /\ m \in Int /\ m >= 1
      BY <2>2, LenProperties
    <3> HIDE DEF q, m, S
    <3>2. q \in Seq(S)
      BY <2>2 DEF S
    <3>3. Len(q) \in Int
      BY <3>1
    <3>4. \A i \in m .. Len(q) : q[i] \in S
      <4> SUFFICES ASSUME NEW i \in m .. Len(q) PROVE q[i] \in S
        OBVIOUS
      <4>1. i \in 1 .. Len(q)
        BY <3>1
      <4> QED
        BY <3>2, <4>1, ElementOfSeq
    <3>5. SubSeq(q, m, Len(q)) \in Seq(S)
      BY <3>1, <3>3, <3>4, SubSeqProperties
    <3> QED
      BY <3>5 DEF m, S
  <2> HIDE DEF c
  <2>4. v \in SocketEntry /\ (v.dead <=> r.dead) /\ (v.magic <=> r.magic) /\ v.state = r.state
    BY <2>3 DEF SocketEntry
  <2>5. sock' = [sock EXCEPT ![s] = v]
    BY <2>1 DEF c
  <2> HIDE DEF v
  <2> QED
    BY <1>8, <1>11, <2>4, <2>5
<1>12. CASE Socket(t)
  <2> DEFINE n == Min(Free)
             r == [sock[n] EXCEPT !.magic = TRUE]
  <2>1. n \in Slots
    <3>1. Free \in SUBSET Nat /\ Free # {} /\ Free \subseteq Slots
      BY <1>12, SocketNumAssumption DEF Free, Slots, Socket
    <3> QED
      BY <3>1, LeastOf
  <2>2. /\ sock' = [sock EXCEPT ![n].magic = TRUE]
        /\ app' = [app EXCEPT ![t] = [NoApp EXCEPT !.pc = "alloc", !.slot = n]]
        /\ UNCHANGED <<clientVars, socket_event, sending, link, prompt, packets>>
    BY <1>12 DEF Socket
  <2> HIDE DEF n
  <2>3. AppType'
    <3>1. [NoApp EXCEPT !.pc = "alloc", !.slot = n] \in AppState
      BY <2>1, RecordTypes DEF AppState
    <3> QED
      BY <1>0, <2>2, <3>1 DEF AppType
  <2>4. SockType'
    <3>1. sock[n] \in SocketEntry /\ (~sock[n].dead => sock[n].state # "none")
      BY <1>0, <2>1 DEF TypeInv, SockType
    <3>2. r \in SocketEntry /\ r.magic /\ (r.dead <=> sock[n].dead) /\ r.state = sock[n].state
      BY <3>1 DEF SocketEntry
    <3>3. sock' = [sock EXCEPT ![n] = r]
      BY <1>0, <2>2
    <3> HIDE DEF r
    <3> QED
      BY <2>1, <3>1, <3>2, <3>3, EntryType DEF TypeInv
  <2> QED
    BY <1>2, <1>4, <2>2, <2>3, <2>4 DEF TypeInv
<1>13. CASE SocketOpen(t)
  <2>1. SockType'
    BY <1>0, <1>8, <1>13, RecordTypes DEF SocketOpen
  <2>2. AppType'
    BY <1>1, <1>7, <1>13 DEF SocketOpen
  <2> QED
    BY <1>2, <1>4, <1>13, <2>1, <2>2 DEF SocketOpen, TypeInv
<1>14. CASE ConnectSkipped(t)
  <2>1. AppType'
    BY <1>1, <1>7, <1>14 DEF ConnectSkipped
  <2> QED
    BY <1>2, <1>4, <1>6, <1>14, <2>1 DEF ConnectSkipped, TypeInv
<1>15. CASE Connect(t)
  <2>1. ClientTypeOK' /\ LineType'
    BY <1>0, <1>15, StartType DEF Connect, Names
  <2>2. AppType'
    BY <1>1, <1>7, <1>15 DEF Connect, Calling
  <2>3. SockType'
    <3> DEFINE r == [sock[s] EXCEPT !.conn = sent + 1]
    <3>1. sock' = [sock EXCEPT ![s] = r] /\ sent + 1 \in 0 .. MaxCmds
      BY <1>0, <1>15, CmdsAssumption DEF Connect, ExecStart, TypeInv, ClientTypeOK
    <3>2. r \in SocketEntry /\ (r.dead <=> sock[s].dead) /\ (r.magic <=> sock[s].magic)
          /\ r.state = sock[s].state
      BY <1>0, <3>1 DEF SocketEntry
    <3> HIDE DEF r
    <3> QED
      BY <1>0, <1>8, <3>1, <3>2
  <2> QED
    BY <1>4, <1>15, <2>1, <2>2, <2>3 DEF Connect, TypeInv
<1>16. CASE Connected(t)
  <2>1. SockType'
    BY <1>9, <1>16 DEF Connected
  <2>2. AppType'
    BY <1>1, <1>7, <1>16 DEF Connected
  <2> QED
    BY <1>3, <1>4, <1>5, <1>16, <2>1, <2>2 DEF Connected, TypeInv
<1>17. CASE ConnectFailed(t)
  <2>1. AppType'
    <3>1. AppGoto(t, IF app[t].retried THEN "failed" ELSE "reclose")
      BY <1>17 DEF ConnectFailed, AppGoto
    <3> QED
      BY <1>1, <1>7, <3>1
  <2> QED
    BY <1>3, <1>4, <1>5, <1>6, <1>17, <2>1 DEF ConnectFailed, TypeInv
<1>18. CASE Reclose(t)
  <2>1. ClientTypeOK' /\ LineType'
    BY <1>0, <1>18, StartType DEF Reclose, Names
  <2>2. AppType'
    BY <1>1, <1>7, <1>18 DEF Reclose, Calling
  <2> QED
    BY <1>4, <1>6, <1>18, <2>1, <2>2 DEF Reclose, TypeInv
<1>19. CASE Reclosed(t)
  <2>1. AppType'
    <3>1. PICK label \in {"open", "failed"} :
            app' = [app EXCEPT ![t].pc = label, ![t].retried = TRUE]
      BY <1>19 DEF Reclosed
    <3>2. [app[t] EXCEPT !.pc = label, !.retried = TRUE] \in AppState
      BY <1>0 DEF AppState
    <3> QED
      BY <1>0, <3>1, <3>2 DEF AppType
  <2> QED
    BY <1>3, <1>4, <1>5, <1>6, <1>19, <2>1 DEF Reclosed, TypeInv
<1>20. CASE Send(t)
  <2>1. ClientTypeOK' /\ LineType'
    BY <1>0, <1>20, StartType DEF Send, Names
  <2>2. AppType'
    BY <1>1, <1>7, <1>20 DEF Send, Calling
  <2>3. DeviceType'
    BY <1>0, <1>20 DEF Send, TypeInv, DeviceType
  <2> QED
    BY <1>6, <1>20, <2>1, <2>2, <2>3 DEF Send, TypeInv
<1>21. CASE SendData(t)
  <2>1. AppType'
    BY <1>1, <1>7, <1>21 DEF SendData, Confirming
  <2>2. ClientTypeOK'
    BY <1>21, RecordTypes DEF SendData, Forget, TypeInv, ClientTypeOK, ExecCall
  <2>3. LineType'
    <3> DEFINE d == [Cmd("DATA", s) EXCEPT !.cmd = ex[t].cmd]
    <3>1. d \in Commands
      BY <1>0 DEF Cmd, Commands, Names, ExecCall
    <3>3. toDevice' = Append(toDevice, d) \/ toDevice' = toDevice
      BY <1>21, Zenon DEF SendData
    <3> HIDE DEF d
    <3>2. toDevice' \in Seq(Commands)
      BY <1>0, <3>1, <3>3
    <3> QED
      BY <1>21, <3>2 DEF SendData, TypeInv, LineType
  <2> QED
    BY <1>4, <1>6, <1>21, <2>1, <2>2, <2>3 DEF SendData, TypeInv
<1>22. CASE SendSocketEvent(t)
  <2>1. AppType'
    BY <1>1, <1>7, <1>22 DEF SendSocketEvent, Confirming
  <2>2. DeviceType'
    BY <1>22 DEF SendSocketEvent, TakeEvent, TypeInv, DeviceType
  <2> QED
    BY <1>2, <1>6, <1>22, <2>1, <2>2 DEF SendSocketEvent, TypeInv
<1>23. CASE SendResult(t)
  <2>1. AppType'
    BY <1>1, <1>7, <1>23 DEF SendResult
  <2>2. DeviceType'
    BY <1>23 DEF SendResult, TakeEvent, TypeInv, DeviceType
  <2>3. ClientTypeOK'
    BY <1>23, RecordTypes DEF SendResult, Forget, TypeInv, ClientTypeOK, ExecCall
  <2> QED
    BY <1>5, <1>6, <1>23, <2>1, <2>2, <2>3 DEF SendResult, TypeInv
<1>24. CASE SendTimeout(t)
  <2>1. AppType'
    BY <1>1, <1>7, <1>24 DEF SendTimeout
  <2>2. ClientTypeOK'
    BY <1>24, RecordTypes, CmdsAssumption DEF SendTimeout, Forget, TypeInv, ClientTypeOK, ExecCall
  <2> QED
    BY <1>4, <1>5, <1>6, <1>24, <2>1, <2>2 DEF SendTimeout, TypeInv
<1>25. CASE RecvLeftover(t)
  <2>1. SockType'
    BY <1>0, <1>11, <1>25 DEF RecvLeftover
  <2> QED
    BY <1>2, <1>4, <1>10, <1>25, <2>1 DEF RecvLeftover, TypeInv
<1>26. CASE RecvBlock(t) \/ RecvTimeout(t)
  <2>1. AppType'
    BY <1>1, <1>7, <1>26 DEF RecvBlock, RecvTimeout
  <2> QED
    BY <1>2, <1>4, <1>6, <1>26, <2>1 DEF RecvBlock, RecvTimeout, TypeInv
<1>27. CASE RecvNotice(t)
  <2> DEFINE r == [sock[s] EXCEPT !.recv_notice = @ - 1]
  <2>1. r \in SocketEntry /\ (r.dead <=> sock[s].dead) /\ (r.magic <=> sock[s].magic)
        /\ r.state = sock[s].state
    <3> DEFINE n == sock[s].recv_notice - 1
    <3>1. n \in Nat
      BY <1>0, <1>27 DEF RecvNotice, SocketEntry
    <3>2. r = [sock[s] EXCEPT !.recv_notice = n]
      BY <1>0
    <3> HIDE DEF n
    <3> QED
      BY <1>0, <3>1, <3>2 DEF SocketEntry
  <2>2. \/ TakePackets(s, r) /\ AppGoto(t, "up")
        \/ sock' = [sock EXCEPT ![s] = r] /\ UNCHANGED app
    <3> DEFINE taken == [Mine(t) EXCEPT !.recv_notice = @ - 1]
    <3>1. taken = r
      BY <1>0
    <3>2. \/ TakePackets(s, taken) /\ AppGoto(t, "up")
          \/ sock' = [sock EXCEPT ![s] = taken] /\ UNCHANGED app
      BY <1>27 DEF RecvNotice
    <3> HIDE DEF taken, r
    <3> QED
      BY <3>1, <3>2
  <2> HIDE DEF r
  <2>3. SockType'
    BY <1>0, <1>8, <1>11, <2>1, <2>2
  <2>4. AppType'
    BY <1>1, <1>7, <1>10, <2>2
  <2> QED
    BY <1>2, <1>4, <1>27, <2>3, <2>4 DEF RecvNotice, TypeInv
<1>28. CASE Close(t)
  <2>1. SockType'
    BY <1>9, <1>28 DEF Close
  <2>2. AppType'
    BY <1>1, <1>7, <1>28 DEF Close
  <2> QED
    BY <1>2, <1>4, <1>28, <2>1, <2>2 DEF Close, TypeInv
<1>29. CASE CloseLink(t)
  <2>1. ClientTypeOK' /\ LineType'
    BY <1>0, <1>29, StartType DEF CloseLink, Names
  <2>2. AppType'
    BY <1>1, <1>7, <1>29 DEF CloseLink, Calling
  <2> QED
    BY <1>4, <1>6, <1>29, <2>1, <2>2 DEF CloseLink, TypeInv
<1>30. CASE FreeObjects(t)
  <2>1. SockType'
    <3> DEFINE r == [sock[s] EXCEPT !.dead = TRUE, !.recvpkt = <<>>]
    <3> DEFINE e == <<>>
               v == [sock[s] EXCEPT !.dead = TRUE]
    <3>3. v \in SocketEntry /\ v.dead
      BY <1>0 DEF SocketEntry
    <3>4. e \in Seq(1 .. MaxCmds)
      OBVIOUS
    <3>5. r = [v EXCEPT !.recvpkt = e]
      BY <1>0 DEF SocketEntry
    <3> HIDE DEF v, e, r
    <3>1. r \in SocketEntry /\ (r.dead <=> v.dead)
      BY <3>3, <3>4, <3>5 DEF SocketEntry
    <3> USE DEF r
    <3>2. sock' = [sock EXCEPT ![s] = r]
      BY <1>0, <1>30 DEF FreeObjects
    <3> HIDE DEF r
    <3> QED
      BY <1>8, <3>1, <3>2, <3>3
  <2>2. AppType'
    BY <1>1, <1>7, <1>30 DEF FreeObjects
  <2> QED
    BY <1>3, <1>4, <1>5, <1>30, <2>1, <2>2 DEF FreeObjects, TypeInv
<1>31. CASE FreeEntry(t)
  <2>1. SockType'
    <3>1. NoSocket.dead
      BY DEF NoSocket
    <3> QED
      BY <1>8, <1>31, <3>1, RecordTypes DEF FreeEntry
  <2>2. AppType'
    BY <1>0, <1>31, RecordTypes DEF FreeEntry, AppType
  <2> QED
    BY <1>2, <1>4, <1>31, <2>1, <2>2 DEF FreeEntry, TypeInv
<1>32. CASE SocketFails(t)
  <2>1. AppType'
    BY <1>0, <1>32, RecordTypes DEF SocketFails, AppType
  <2> QED
    BY <1>2, <1>4, <1>6, <1>32, <2>1 DEF SocketFails, TypeInv
<1>33. CASE ConnectNoMemory(t) \/ CloseNoMemory(t)
  <2>1. AppType'
    BY <1>1, <1>7, <1>33 DEF ConnectNoMemory, CloseNoMemory
  <2> QED
    BY <1>2, <1>4, <1>6, <1>33, <2>1 DEF ConnectNoMemory, CloseNoMemory, TypeInv
<1> QED
  BY <1>12, <1>13, <1>14, <1>15, <1>16, <1>17, <1>18, <1>19, <1>20, <1>21, <1>22, <1>23, <1>24,
     <1>25, <1>26, <1>27, <1>28, <1>29, <1>30, <1>31, <1>32, <1>33 DEF CallerStep

\* The steps of at_obj_exec_cmd.
LEMMA ExecType ==
    ASSUME TypeInv, NEW t \in Callers, ExecStep(t)
    PROVE  TypeInv'
<1>1. UNCHANGED socketVars /\ UNCHANGED <<toDevice, toClient>>
  BY DEF ExecStep, ExecWake, ExecTimeout, ExecExit
<1>2. LineType' /\ SockType' /\ AppType' /\ DeviceType'
  BY <1>1 DEF socketVars, TypeInv, LineType, SockType, AppType, DeviceType
<1>3. ex \in [Callers -> ExecCall] /\ ex[t] \in ExecCall
  BY DEF TypeInv, ClientTypeOK, ExecCall
<1>4. ex' \in [Callers -> ExecCall]
  <2>1. \A pc \in {"exit", "done"}, result \in {"none", "OK", "ERROR", "TIMEOUT"} :
          [ex[t] EXCEPT !.pc = pc, !.result = result] \in ExecCall
    BY <1>3 DEF ExecCall
  <2>2. [ex[t] EXCEPT !.pc = "done"] \in ExecCall
    BY <1>3 DEF ExecCall
  <2>3. CASE ExecWake(t)
    <3>1. PICK result \in {"OK", "ERROR"} :
            ex' = [ex EXCEPT ![t] = [ex[t] EXCEPT !.pc = "exit", !.result = result]]
      BY <1>3, <2>3 DEF ExecWake
    <3> QED
      BY <1>3, <2>1, <3>1
  <2>4. CASE ExecTimeout(t)
    <3>1. ex' = [ex EXCEPT ![t] = [ex[t] EXCEPT !.pc = "exit", !.result = "TIMEOUT"]]
      BY <1>3, <2>4 DEF ExecTimeout
    <3> QED
      BY <1>3, <2>1, <3>1
  <2>5. CASE ExecExit(t, app[t].pc = "send")
    <3>1. ex' = [ex EXCEPT ![t] = [ex[t] EXCEPT !.pc = "done"]]
      BY <1>3, <2>5 DEF ExecExit
    <3> QED
      BY <1>3, <2>2, <3>1
  <2> QED
    BY <2>3, <2>4, <2>5 DEF ExecStep
<1>5. ClientTypeOK'
  <2>1. CASE ExecWake(t)
    BY <1>4, <2>1 DEF ExecWake, TypeInv, ClientTypeOK, ExecCall
  <2>2. CASE ExecTimeout(t)
    BY <1>4, <2>2, CmdsAssumption DEF ExecTimeout, TypeInv, ClientTypeOK, ExecCall
  <2>3. CASE ExecExit(t, app[t].pc = "send")
    BY <1>4, <2>3 DEF ExecExit, RespAtExit, TypeInv, ClientTypeOK, ExecCall
  <2> QED
    BY <2>1, <2>2, <2>3 DEF ExecStep
<1> QED
  BY <1>2, <1>5 DEF TypeInv

\* The parser writes into a response.
LEMMA ResponseType ==
    ASSUME ClientTypeOK, NEW line \in Lines, ParseResponse(line),
           UNCHANGED <<lock, sent, timeouts, stale>>
    PROVE  ClientTypeOK'
<1>1. CASE resp = None
  BY <1>1 DEF ParseResponse, ClientTypeOK
<1>2. CASE resp # None
  <2>1. resp \in Callers /\ ex \in [Callers -> ExecCall] /\ ex[resp] \in ExecCall
    BY <1>2 DEF ClientTypeOK, ExecCall
  <2>2. ex[resp].line_counts + 1 \in Nat /\ line.cmd \in 0 .. MaxCmds
    BY <2>1 DEF ExecCall, Lines
  <2> DEFINE n == ex[resp].line_counts + 1
             end == EndStatus(ex[resp], line)
  <2>3. /\ [ex[resp] EXCEPT !.line_counts = n] \in ExecCall
        /\ [ex[resp] EXCEPT !.line_counts = n, !.end = line.cmd] \in ExecCall
    <3> HIDE DEF n
    <3> QED
      BY <2>1, <2>2 DEF ExecCall, n
  <2>4. end \in {"none", "OK", "ERROR"}
    BY DEF EndStatus
  <2>5. \/ /\ ex' = [ex EXCEPT ![resp] = [ex[resp] EXCEPT !.line_counts = n]]
           /\ UNCHANGED <<resp, resp_status, resp_notice>>
        \/ /\ ex' = [ex EXCEPT ![resp] = [ex[resp] EXCEPT !.line_counts = n,
                                                          !.end = line.cmd]]
           /\ end \in {"OK", "ERROR"}
           /\ resp_status' = end
           /\ resp' = None
           /\ resp_notice' = resp_notice + 1
    <3> HIDE DEF end
    <3>1. \/ /\ ex' = [ex EXCEPT ![resp].line_counts = @ + 1]
             /\ UNCHANGED <<resp, resp_status, resp_notice>>
          \/ /\ ex' = [ex EXCEPT ![resp].line_counts = @ + 1, ![resp].end = line.cmd]
             /\ end # "none"
             /\ resp_status' = end
             /\ resp' = None
             /\ resp_notice' = resp_notice + 1
      BY <1>2, Zenon DEF ParseResponse, end
    <3> QED
      BY <2>1, <2>4, <3>1
  <2> HIDE DEF n, end
  <2>6. ex' \in [Callers -> ExecCall]
    BY <2>1, <2>3, <2>5
  <2> QED
    BY <2>5, <2>6 DEF ClientTypeOK, ExecCall
<1> QED
  BY <1>1, <1>2

\* The parser handles one line.
LEMMA ParseType ==
    ASSUME TypeInv, Parse
    PROVE  TypeInv'
<1> DEFINE line == Head(toClient)
           s == line.slot
<1>1. /\ toClient \in Seq(Lines) /\ toClient # <<>> /\ toClient' = Tail(toClient)
      /\ UNCHANGED <<lock, toDevice, sent, timeouts, stale, sending, app, link, prompt,
                     packets>>
  BY DEF Parse, TypeInv, LineType
<1>2. line \in Lines /\ toClient' \in Seq(Lines)
  BY <1>1, HeadTailProperties
<1>3. \/ /\ ParseResponse(line)
         /\ UNCHANGED <<sock, socket_event, deadUse>>
      \/ /\ \/ line.kind = "+IPD" /\ ParseData(line)
            \/ line.kind = "CLOSED" /\ ParseClosed(line)
            \/ line.kind \in SendResults /\ ParseSend(line)
         /\ UNCHANGED <<resp, resp_status, resp_notice, ex>>
  BY DEF Parse
<1> HIDE DEF line
<1>4. LineType' /\ AppType'
  BY <1>1, <1>2 DEF TypeInv, LineType, AppType
<1>5. /\ s \in Slots /\ line.cmd \in 0 .. MaxCmds /\ sock \in [Slots -> SocketEntry]
      /\ sock[s] \in SocketEntry /\ (~sock[s].dead => sock[s].magic /\ sock[s].state # "none")
      /\ (line.kind = "+IPD" => line.cmd # 0)
  BY <1>2 DEF Lines, TypeInv, SockType
<1>6. ClientTypeOK'
  <2>1. CASE UNCHANGED <<resp, resp_status, resp_notice, ex>>
    BY <1>1, <2>1 DEF TypeInv, ClientTypeOK
  <2>2. CASE ParseResponse(line)
    BY <1>1, <1>2, <2>2, ResponseType DEF TypeInv
  <2> QED
    BY <1>3, <2>1, <2>2
<1>7. CASE ParseResponse(line) /\ UNCHANGED <<sock, socket_event, deadUse>>
  <2>1. SockType' /\ DeviceType'
    BY <1>1, <1>7 DEF TypeInv, SockType, DeviceType
  <2> QED
    BY <1>4, <1>6, <2>1 DEF TypeInv
<1>8. CASE line.kind = "+IPD" /\ ParseData(line)
  <2> DEFINE n == sock[s].recv_notice + 1
             q == Append(sock[s].recvpkt, line.cmd)
             full == [sock[s] EXCEPT !.recvpkt = q, !.recv_notice = n]
             bare == [sock[s] EXCEPT !.recv_notice = n]
  <2>1. n \in Nat
    BY <1>5 DEF SocketEntry
  <2>2. line.cmd \in 1 .. MaxCmds /\ sock[s].recvpkt \in Seq(1 .. MaxCmds)
    BY <1>5, <1>8, CmdsAssumption DEF SocketEntry
  <2>3. q \in Seq(1 .. MaxCmds)
    BY <2>2, AppendProperties
  <2>4. \/ sock' = [sock EXCEPT ![s] = full]
        \/ sock' = [sock EXCEPT ![s] = bare]
        \/ sock' = sock
    BY <1>5, <1>8 DEF ParseData, Received
  <2> HIDE DEF n, q
  <2>5. /\ full \in SocketEntry /\ (full.dead <=> sock[s].dead)
        /\ (full.magic <=> sock[s].magic) /\ full.state = sock[s].state
    BY <1>5, <2>1, <2>3 DEF SocketEntry
  <2>6. /\ bare \in SocketEntry /\ (bare.dead <=> sock[s].dead)
        /\ (bare.magic <=> sock[s].magic) /\ bare.state = sock[s].state
    BY <1>5, <2>1 DEF SocketEntry
  <2> HIDE DEF full, bare
  <2>7. SockType'
    <3>1. CASE sock' = [sock EXCEPT ![s] = full]
      BY <1>5, <2>5, <3>1, EntryType DEF TypeInv
    <3>2. CASE sock' = [sock EXCEPT ![s] = bare]
      BY <1>5, <2>6, <3>2, EntryType DEF TypeInv
    <3>3. CASE sock' = sock
      BY <3>3 DEF TypeInv, SockType
    <3> QED
      BY <2>4, <3>1, <3>2, <3>3
  <2>8. DeviceType'
    BY <1>1, <1>8 DEF ParseData, TypeInv, DeviceType
  <2> QED
    BY <1>4, <1>6, <2>7, <2>8 DEF TypeInv
<1>9. CASE line.kind = "CLOSED" /\ ParseClosed(line)
  <2> DEFINE n == sock[s].recv_notice + 1
             r == [sock[s] EXCEPT !.state = "closed", !.recv_notice = n]
  <2>1. n \in Nat
    BY <1>5 DEF SocketEntry
  <2>2. sock' = [sock EXCEPT ![s] = r] \/ sock' = sock
    BY <1>5, <1>9 DEF ParseClosed
  <2> HIDE DEF n
  <2>3. /\ r \in SocketEntry /\ (r.dead <=> sock[s].dead) /\ (r.magic <=> sock[s].magic)
        /\ r.state = "closed"
    BY <1>5, <2>1 DEF SocketEntry
  <2> HIDE DEF r
  <2>4. SockType'
    <3>1. CASE sock' = [sock EXCEPT ![s] = r]
      BY <1>5, <2>3, <3>1, EntryType DEF TypeInv
    <3>2. CASE sock' = sock
      BY <3>2 DEF TypeInv, SockType
    <3> QED
      BY <2>2, <3>1, <3>2
  <2>5. DeviceType'
    BY <1>1, <1>9 DEF ParseClosed, TypeInv, DeviceType
  <2> QED
    BY <1>4, <1>6, <2>4, <2>5 DEF TypeInv
<1>10. CASE ParseSend(line)
  <2>1. SockType'
    BY <1>10 DEF ParseSend, TypeInv, SockType
  <2>2. SocketBits(sending) \subseteq 16 .. 18 /\ ResultBit(line.kind) \in ResultBits
    BY EventBits DEF TypeInv, DeviceType
  <2>3. socket_event' \subseteq ResultBits \cup 16 .. 18
    BY <1>10, <2>2, Zenon DEF ParseSend, TypeInv, DeviceType
  <2>4. DeviceType'
    BY <1>1, <2>3 DEF TypeInv, DeviceType
  <2> QED
    BY <1>4, <1>6, <2>1, <2>4 DEF TypeInv
<1> QED
  BY <1>3, <1>7, <1>8, <1>9, <1>10

\* A line of a kind other than +IPD, and data of a link that is there.
LEMMA LineTypes ==
    ASSUME NEW s \in Slots, NEW cmd \in 0 .. MaxCmds
    PROVE  /\ \A kind \in Kinds \ {"+IPD"} : Line(kind, s, cmd) \in Lines
           /\ cmd # 0 => Line("+IPD", s, cmd) \in Lines
BY DEF Line, Lines, Kinds

\* The module and the servers send one or two lines.
LEMMA AnswerType ==
    ASSUME LineType, toDevice' \in Seq(Commands), NEW l \in Lines, NEW m \in Lines,
           Answer(<<l>>) \/ Answer(<<l, m>>) \/ UNCHANGED toClient
    PROVE  LineType'
<1>1. <<l>> \in Seq(Lines) /\ <<l, m>> \in Seq(Lines)
  OBVIOUS
<1>2. \A q \in Seq(Lines) : toClient \o q \in Seq(Lines)
  BY ConcatProperties DEF LineType
<1> QED
  BY <1>1, <1>2 DEF LineType, Answer

\* The module works off a command.
LEMMA ModuleType ==
    ASSUME TypeInv, Module
    PROVE  TypeInv'
<1> DEFINE c == Head(toDevice)
           ok == Line("OK", c.slot, c.cmd)
           error == Line("ERROR", c.slot, c.cmd)
           info == Line("INFO", c.slot, c.cmd)
           closed == Line("CLOSED", c.slot, link[c.slot])
           confirm(result) == Line(result, prompt, c.cmd)
<1>1. /\ toDevice \in Seq(Commands) /\ toDevice # <<>> /\ toDevice' = Tail(toDevice)
      /\ UNCHANGED <<restOfClient, ex, sock, socket_event, sending, app, packets, ghosts>>
  BY DEF Module, TypeInv, LineType
<1>2. c \in Commands /\ toDevice' \in Seq(Commands)
  BY <1>1, HeadTailProperties
<1>3. \/ /\ prompt # None
         /\ \E result \in SendResults : Answer(<<confirm(result)>>)
         /\ prompt' = None
         /\ UNCHANGED link
      \/ /\ link' = [link EXCEPT ![c.slot] = c.cmd]
         /\ Answer(<<ok>>)
         /\ UNCHANGED prompt
      \/ /\ link' = [link EXCEPT ![c.slot] = 0]
         /\ Answer(<<closed, ok>>)
         /\ UNCHANGED prompt
      \/ /\ prompt' = c.slot
         /\ Answer(<<info, ok>>)
         /\ UNCHANGED link
      \/ /\ Answer(<<error>>)
         /\ UNCHANGED <<link, prompt>>
      \/ UNCHANGED <<toClient, link, prompt>>
  BY DEF Module
<1> HIDE DEF c
<1>4. /\ c.slot \in Slots /\ c.cmd \in 0 .. MaxCmds /\ link \in [Slots -> 0 .. MaxCmds]
      /\ link[c.slot] \in 0 .. MaxCmds /\ prompt \in Slots \cup {None}
  BY <1>2 DEF Commands, TypeInv, DeviceType
<1>5. ok \in Lines /\ error \in Lines /\ info \in Lines /\ closed \in Lines
  BY <1>4, LineTypes DEF Kinds
<1>6. prompt # None => \A result \in SendResults : confirm(result) \in Lines
  BY <1>4, LineTypes DEF Kinds, SendResults
<1> HIDE DEF ok, error, info, closed, confirm
<1>7. LineType'
  <2>1. PICK l \in Lines, m \in Lines :
          Answer(<<l>>) \/ Answer(<<l, m>>) \/ UNCHANGED toClient
    BY <1>3, <1>5, <1>6
  <2> QED
    BY <1>2, <2>1, AnswerType DEF TypeInv
<1>8. link' \in [Slots -> 0 .. MaxCmds] /\ prompt' \in Slots \cup {None}
  BY <1>3, <1>4, CmdsAssumption
<1>9. ClientTypeOK'
  BY <1>1 DEF restOfClient, TypeInv, ClientTypeOK
<1>10. SockType'
  BY <1>1 DEF TypeInv, SockType
<1>11. AppType' /\ DeviceType'
  BY <1>1, <1>8 DEF TypeInv, AppType, DeviceType
<1> QED
  BY <1>7, <1>9, <1>10, <1>11 DEF TypeInv

\* A server sends or closes.
LEMMA ServerType ==
    ASSUME TypeInv, NEW s \in Slots, ServerSends(s) \/ ServerCloses(s)
    PROVE  TypeInv'
<1>1. UNCHANGED <<restOfClient, ex, toDevice, sock, socket_event, sending, app, prompt>>
  BY DEF ServerSends, ServerCloses
<1>2. link[s] \in 0 .. MaxCmds /\ link[s] # 0
  BY DEF ServerSends, ServerCloses, TypeInv, DeviceType
<1>3. Line("+IPD", s, link[s]) \in Lines /\ Line("CLOSED", s, link[s]) \in Lines
  BY <1>2, LineTypes DEF Kinds
<1>4. LineType'
  <2>1. PICK l \in Lines : Answer(<<l>>)
    BY <1>3 DEF ServerSends, ServerCloses
  <2> QED
    BY <1>1, <2>1, AnswerType DEF TypeInv, LineType
<1>5. ClientTypeOK'
  BY <1>1 DEF restOfClient, TypeInv, ClientTypeOK
<1>6. SockType'
  BY <1>1 DEF TypeInv, SockType
<1>7. packets' \in 0 .. MaxData /\ link' \in [Slots -> 0 .. MaxCmds]
  BY CmdsAssumption, DataAssumption DEF ServerSends, ServerCloses, TypeInv, DeviceType
<1>8. AppType' /\ DeviceType'
  BY <1>1, <1>7 DEF TypeInv, AppType, DeviceType
<1> QED
  BY <1>4, <1>5, <1>6, <1>8 DEF TypeInv

\* Initially.
LEMMA InitType == Init => TypeInv
<1> SUFFICES ASSUME Init PROVE TypeInv
  OBVIOUS
<1> USE DEF Init, ClientInit
<1>1. ClientTypeOK
  BY RecordTypes, CmdsAssumption DEF ClientTypeOK, ExecCall
<1>2. LineType
  BY DEF LineType
<1>3. SockType
  <2>1. NoSocket.dead
    BY DEF NoSocket
  <2> QED
    BY <2>1, RecordTypes DEF SockType
<1>4. AppType
  BY RecordTypes DEF AppType
<1>5. DeviceType
  BY RecordTypes, CmdsAssumption, DataAssumption DEF DeviceType
<1> QED
  BY <1>1, <1>2, <1>3, <1>4, <1>5 DEF TypeInv

\* Every step keeps the types.
LEMMA NextType == TypeInv /\ [Next]_vars => TypeInv'
<1> SUFFICES ASSUME TypeInv, [Next]_vars PROVE TypeInv'
  OBVIOUS
<1>1. CASE UNCHANGED vars
  BY <1>1 DEF vars, clientVars, socketVars, TypeInv, ClientTypeOK, LineType, SockType, AppType,
              DeviceType
<1>2. CASE Settle
  BY <1>2 DEF Settle, socketVars, TypeInv, ClientTypeOK, LineType, SockType, AppType, DeviceType
<1>3. CASE \E s \in Slots : LinkSettles(s)
  BY <1>3 DEF LinkSettles, clientVars, TypeInv, ClientTypeOK, LineType, SockType, AppType,
              DeviceType
<1>4. CASE Next /\ ~Settle /\ ~\E s \in Slots : LinkSettles(s)
  BY <1>4, CallerType, ExecType, ParseType, ModuleType, ServerType DEF Next
<1> QED
  BY <1>1, <1>2, <1>3, <1>4

\* What is counted for the bound, and the links given up for want of memory.
GhostType == faults \in 0 .. MaxFaults /\ orphans \subseteq Slots

\* How a step may change them: of the callers' steps, only the close without
\* memory gives up a link.
LEMMA CallerGhosts ==
    ASSUME NEW t \in Callers, CallerStep(t)
    PROVE  /\ UNCHANGED faults \/ Fault
           /\ UNCHANGED orphans \/ CloseNoMemory(t)
BY DEF CallerStep, Socket, SocketOpen, SocketFails, ConnectNoMemory, ConnectSkipped, Connect,
       Connected, ConnectFailed, Reclose, Reclosed, Send, SendData, SendSocketEvent, SendResult,
       SendTimeout, RecvLeftover, RecvBlock, RecvNotice, RecvTimeout, Close, CloseLink,
       CloseNoMemory, FreeObjects, FreeEntry, ghosts

LEMMA GhostSteps ==
    ASSUME TypeInv, [Next]_vars
    PROVE  /\ UNCHANGED faults \/ Fault
           /\ \/ UNCHANGED orphans
              \/ \E t \in Callers : CloseNoMemory(t)
              \/ \E s \in Slots : LinkSettles(s)
<1>1. CASE UNCHANGED vars \/ Settle
  BY <1>1 DEF vars, Settle, socketVars, ghosts
<1>2. CASE \E t \in Callers : CallerStep(t)
  BY <1>2, CallerGhosts
<1>3. CASE \E t \in Callers : ExecStep(t)
  BY <1>3 DEF ExecStep, socketVars, ghosts
<1>4. CASE Parse
  BY <1>4 DEF Parse, ParseData, ParseClosed, ParseSend
<1>5. CASE Module
  BY <1>5 DEF Module, ghosts
<1>6. CASE \E s \in Slots : ServerSends(s) \/ ServerCloses(s)
  BY <1>6 DEF ServerSends, ServerCloses, ghosts
<1>7. CASE \E s \in Slots : LinkSettles(s)
  BY <1>7 DEF LinkSettles
<1> QED
  BY <1>1, <1>2, <1>3, <1>4, <1>5, <1>6, <1>7 DEF Next

LEMMA GhostKept ==
    ASSUME TypeInv, GhostType, [Next]_vars
    PROVE  GhostType'
<1>1. timeouts \in Nat
  BY DEF TypeInv, ClientTypeOK
<1>2. faults' \in 0 .. MaxFaults
  BY <1>1, GhostSteps, DataAssumption DEF GhostType, Fault
<1>3. ASSUME NEW t \in Callers, CloseNoMemory(t) PROVE orphans' \subseteq Slots
  BY <1>3 DEF CloseNoMemory, GhostType, TypeInv, AppType, AppState
<1>4. ASSUME NEW s \in Slots, LinkSettles(s) PROVE orphans' \subseteq Slots
  BY <1>4 DEF LinkSettles, GhostType
<1> QED
  BY <1>2, <1>3, <1>4, GhostSteps DEF GhostType

(***************************************************************************)
(* The type invariant of the sockets and the AT client.  The parser counts *)
(* lines, notices and packets without a bound, and none of the remains of  *)
(* an abandoned command takes a record out of its type; a socket that has  *)
(* its semaphore and mutex is marked as allocated and has a state, so that *)
(* at_closesocket and the callbacks never see the state of a cleared entry.*)
(***************************************************************************)
THEOREM AtTypeCorrect == Spec => []TypeOK
<1>1. TypeInv /\ GhostType => TypeOK
  <2> SUFFICES ASSUME TypeInv, GhostType PROVE TypeOK
    OBVIOUS
  <2>1. \A s \in Slots : sock[s] \in SocketEntry
    BY DEF TypeInv, SockType
  <2>2. \A s \in Slots :
          /\ sock[s].state \in {"none", "open", "connect", "closed"}
          /\ sock[s].magic \in BOOLEAN /\ sock[s].dead \in BOOLEAN
          /\ sock[s].recv_notice \in Nat
    BY <2>1 DEF SocketEntry
  <2>3. \A s \in Slots : \A i \in DOMAIN sock[s].recvpkt : sock[s].recvpkt[i] \in 1 .. MaxCmds
    <3> SUFFICES ASSUME NEW s \in Slots, NEW i \in DOMAIN sock[s].recvpkt
                 PROVE  sock[s].recvpkt[i] \in 1 .. MaxCmds
      OBVIOUS
    <3> DEFINE q == sock[s].recvpkt
    <3>1. q \in Seq(1 .. MaxCmds)
      BY <2>1 DEF SocketEntry
    <3> HIDE DEF q
    <3>2. DOMAIN q = 1 .. Len(q)
      BY <3>1, LenProperties
    <3> QED
      BY <3>1, <3>2, ElementOfSeq DEF q
  <2>4. \A s \in Slots : ~sock[s].dead => sock[s].magic /\ sock[s].state # "none"
    BY DEF TypeInv, SockType
  <2>5. \A t \in Callers : app[t].slot \in Slots /\ app[t].retried \in BOOLEAN
    BY DEF TypeInv, AppType, AppState
  <2> QED
    BY <2>2, <2>3, <2>4, <2>5 DEF TypeOK, TypeInv, DeviceType, GhostType
<1>2. Init => GhostType
  BY DataAssumption DEF Init, GhostType
<1>3. TypeInv /\ GhostType /\ [Next]_vars => TypeInv' /\ GhostType'
  BY NextType, GhostKept
<1> QED
  BY <1>1, <1>2, <1>3, InitType, PTL DEF Spec

-----------------------------------------------------------------------------
(***************************************************************************)
(* Who is in a command, who holds the lock and whose response is in place. *)
(***************************************************************************)
InCall == Calling \cup Confirming
Sending == {"send"} \cup Confirming

\* A caller is in a call of at_obj_exec_cmd exactly where its own program is.
CallOK(t) ==
    /\ app[t].pc \in Calling => ex[t].pc \in {"wait", "exit", "done"}
    /\ app[t].pc \in Confirming => ex[t].pc = "done"
    /\ app[t].pc \notin InCall => ex[t] = NoExec
    /\ app[t].pc \in InCall => ex[t].line_num = IF app[t].pc \in Sending THEN 2 ELSE 0

\* Where a caller is between taking client->lock and releasing it.
Holding(t) == ex[t].pc \in {"wait", "exit"} \/ app[t].pc \in Sending

CallInv ==
    /\ \A t \in Callers : CallOK(t)
    /\ \A t \in Callers : Holding(t) <=> lock = t
    /\ RespOfHolder

\* What the steps of a caller have in common: it moves between its commands ...
Local(t) ==
    /\ UNCHANGED <<clientVars, socket_event, sending, link, prompt, packets>>
    /\ app[t].pc \notin InCall
    /\ \E a \in AppState : a.pc \notin InCall /\ app' = [app EXCEPT ![t] = a]

\* ... starts one ...
Starts(t) ==
    /\ app[t].pc \notin InCall
    /\ \E label \in Calling, name \in {"START", "CLOSE", "SEND"} :
          /\ label = "send" <=> name = "SEND"
          /\ ExecStart(t, IF label = "send" THEN 2 ELSE 0, Cmd(name, app[t].slot))
          /\ AppGoto(t, label)
          /\ sending' = IF label = "send" THEN app[t].slot ELSE sending
    /\ UNCHANGED <<socket_event, link, prompt, packets>>

\* ... or goes on after one that did not keep the lock.
Finishes(t) ==
    /\ \/ app[t].pc \in Calling \ {"send"} /\ Done(t)
       \/ app[t].pc \notin InCall
    /\ Forget(t)
    /\ \E a \in AppState : a.pc \notin InCall /\ app' = [app EXCEPT ![t] = a]
    /\ UNCHANGED <<restOfClient, toDevice, toClient, socket_event, sending, link, prompt,
                   packets>>

\* A step of a caller moves between commands, starts or ends one, or is part of
\* sending data.
LEMMA CallerSteps ==
    ASSUME TypeInv, NEW t \in Callers, CallerStep(t)
    PROVE  \/ Local(t) \/ Starts(t) \/ Finishes(t)
           \/ SendData(t) \/ SendSocketEvent(t) \/ SendResult(t) \/ SendTimeout(t)
<1>1. app \in [Callers -> AppState] /\ app[t] \in AppState
  BY DEF TypeInv, AppType
<1>2. ASSUME NEW label, label \in {"none", "alloc", "open", "reclose", "up", "failed", "recv",
                                   "close", "free", "erase"}, AppGoto(t, label)
      PROVE  \E a \in AppState : a.pc \notin InCall /\ app' = [app EXCEPT ![t] = a]
  <2> DEFINE a == [app[t] EXCEPT !.pc = label]
  <2>1. a \in AppState /\ a.pc = label
    BY <1>1, <1>2 DEF AppState
  <2>2. app' = [app EXCEPT ![t] = a]
    BY <1>1, <1>2 DEF AppGoto
  <2>3. label \notin InCall
    BY <1>2 DEF InCall, Calling, Confirming
  <2> HIDE DEF a
  <2> QED
    BY <2>1, <2>2, <2>3
<1>3. CASE Socket(t)
  <2> DEFINE n == Min(Free)
             a == [NoApp EXCEPT !.pc = "alloc", !.slot = n]
  <2>1. n \in Slots
    <3>1. Free \in SUBSET Nat /\ Free # {} /\ Free \subseteq Slots
      BY <1>3, SocketNumAssumption DEF Free, Slots, Socket
    <3> QED
      BY <3>1, LeastOf
  <2>2. app' = [app EXCEPT ![t] = a] /\ app[t].pc = "none"
    BY <1>3 DEF Socket
  <2> HIDE DEF n
  <2>3. a \in AppState /\ a.pc = "alloc"
    BY <2>1, RecordTypes DEF AppState
  <2> HIDE DEF a
  <2>4. \E b \in AppState : b.pc \notin InCall /\ app' = [app EXCEPT ![t] = b]
    BY <2>2, <2>3 DEF InCall, Calling, Confirming
  <2> QED
    BY <1>3, <2>2, <2>4 DEF Socket, Local, InCall, Calling, Confirming
<1>4. CASE SocketOpen(t)
  BY <1>2, <1>4 DEF SocketOpen, Local, InCall, Calling, Confirming
<1>5. CASE ConnectSkipped(t) \/ ConnectNoMemory(t) \/ CloseNoMemory(t)
  BY <1>2, <1>5 DEF ConnectSkipped, ConnectNoMemory, CloseNoMemory, Local, InCall, Calling, Confirming
<1>6. CASE Connect(t) \/ Reclose(t) \/ Send(t) \/ CloseLink(t)
  BY <1>6 DEF Connect, Reclose, Send, CloseLink, Starts, InCall, Calling, Confirming
<1>7. CASE Connected(t)
  BY <1>2, <1>7 DEF Connected, Finishes, Calling
<1>8. CASE ConnectFailed(t)
  <2>1. AppGoto(t, IF app[t].retried THEN "failed" ELSE "reclose")
    BY <1>8 DEF ConnectFailed, AppGoto
  <2> QED
    BY <1>2, <1>8, <2>1 DEF ConnectFailed, Finishes, Calling
<1>9. CASE Reclosed(t)
  <2>1. PICK label \in {"open", "failed"} :
          app' = [app EXCEPT ![t].pc = label, ![t].retried = TRUE]
    BY <1>9 DEF Reclosed
  <2> DEFINE a == [app[t] EXCEPT !.pc = label, !.retried = TRUE]
  <2>2. a \in AppState /\ a.pc = label
    BY <1>1 DEF AppState
  <2>3. app' = [app EXCEPT ![t] = a]
    BY <1>1, <2>1
  <2> HIDE DEF a
  <2>4. \E b \in AppState : b.pc \notin InCall /\ app' = [app EXCEPT ![t] = b]
    BY <2>2, <2>3 DEF InCall, Calling, Confirming
  <2> QED
    BY <1>9, <2>4 DEF Reclosed, Finishes, Calling
<1>10. CASE RecvLeftover(t)
  <2>1. \E a \in AppState : a.pc \notin InCall /\ app' = [app EXCEPT ![t] = a]
    <3>1. app' = [app EXCEPT ![t] = app[t]] /\ app[t].pc \notin InCall
      BY <1>1, <1>10 DEF RecvLeftover, InCall, Calling, Confirming
    <3> QED
      BY <1>1, <3>1
  <2> QED
    BY <1>10, <2>1 DEF RecvLeftover, Local, InCall, Calling, Confirming
<1>11. CASE RecvBlock(t) \/ RecvTimeout(t)
  BY <1>2, <1>11 DEF RecvBlock, RecvTimeout, Local, InCall, Calling, Confirming
<1>12. CASE RecvNotice(t)
  <2>0. AppGoto(t, "up") \/ UNCHANGED app
    BY <1>12 DEF RecvNotice
  <2>1. \E a \in AppState : a.pc \notin InCall /\ app' = [app EXCEPT ![t] = a]
    <3>1. CASE UNCHANGED app
      <4>1. app' = [app EXCEPT ![t] = app[t]] /\ app[t].pc \notin InCall
        BY <1>1, <1>12, <3>1 DEF RecvNotice, InCall, Calling, Confirming
      <4> QED
        BY <1>1, <4>1
    <3> QED
      BY <1>2, <2>0, <3>1
  <2> QED
    BY <1>12, <2>1 DEF RecvNotice, Local, InCall, Calling, Confirming
<1>13. CASE Close(t)
  BY <1>2, <1>13 DEF Close, Local, InCall, Calling, Confirming
<1>14. CASE FreeObjects(t)
  BY <1>2, <1>14 DEF FreeObjects, LinkClosed, Finishes, InCall, Calling, Confirming
<1>15. CASE FreeEntry(t) \/ SocketFails(t)
  <2>1. NoApp \in AppState /\ NoApp.pc \notin InCall
    BY RecordTypes DEF NoApp, InCall, Calling, Confirming
  <2> QED
    BY <1>15, <2>1 DEF FreeEntry, SocketFails, Local, InCall, Calling, Confirming
<1> QED
  BY <1>3, <1>4, <1>5, <1>6, <1>7, <1>8, <1>9, <1>10, <1>11, <1>12, <1>13, <1>14, <1>15
  DEF CallerStep

\* One caller moves and the others keep their places.
LEMMA OneMoves ==
    ASSUME TypeInv, CallInv, NEW t \in Callers,
           \A u \in Callers \ {t} : ex'[u] = ex[u] /\ app'[u] = app[u],
           CallOK(t)', Holding(t)' <=> lock' = t,
           lock' = lock \/ (lock \in {None, t} /\ lock' \in {None, t}),
           RespOfHolder'
    PROVE  CallInv'
<1>1. \A u \in Callers : CallOK(u)'
  BY DEF CallInv, CallOK
<1>2. \A u \in Callers : Holding(u)' <=> lock' = u
  <2> SUFFICES ASSUME NEW u \in Callers, u # t PROVE Holding(u)' <=> lock' = u
    OBVIOUS
  <2>1. Holding(u)' <=> Holding(u)
    BY DEF Holding
  <2>2. Holding(u) <=> lock = u
    BY DEF CallInv
  <2> QED
    BY <2>1, <2>2, CallersAssumption
<1> QED
  BY <1>1, <1>2 DEF CallInv

\* A response that is in place is in place for its caller's command only.
LEMMA NotWaiting ==
    ASSUME CallInv, NEW t \in Callers, ex[t].pc \notin {"wait", "exit"}
    PROVE  resp # t
BY CallersAssumption DEF CallInv, RespOfHolder

\* The steps of a caller keep what is known of its call.
LEMMA CallerCall ==
    ASSUME TypeInv, CallInv, NEW t \in Callers, CallerStep(t)
    PROVE  CallInv'
<1>1. /\ app \in [Callers -> AppState] /\ app[t] \in AppState
      /\ ex \in [Callers -> ExecCall] /\ ex[t] \in ExecCall
      /\ CallOK(t) /\ (Holding(t) <=> lock = t) /\ lock \in Callers \cup {None}
  BY DEF TypeInv, AppType, ClientTypeOK, ExecCall, CallInv
<1>2. NoExec.pc = "idle"
  BY DEF NoExec
<1>3. ASSUME resp' = resp, resp # t, lock' = lock \/ lock = t,
             \A u \in Callers \ {t} : ex'[u] = ex[u]
      PROVE  RespOfHolder'
  BY <1>3, CallersAssumption DEF CallInv, RespOfHolder, TypeInv, ClientTypeOK
<1>4. CASE Local(t)
  <2>1. PICK a \in AppState : a.pc \notin InCall /\ app' = [app EXCEPT ![t] = a]
    BY <1>4 DEF Local
  <2>2. app'[t] = a /\ (\A u \in Callers \ {t} : app'[u] = app[u])
    BY <1>1, <2>1
  <2>3. ex' = ex /\ lock' = lock /\ resp' = resp /\ app[t].pc \notin InCall
    BY <1>4 DEF Local, clientVars
  <2>4. CallOK(t)'
    BY <1>1, <2>1, <2>2, <2>3 DEF CallOK, InCall
  <2>5. Holding(t)' <=> lock' = t
    BY <1>1, <2>1, <2>2, <2>3 DEF Holding, InCall, Sending, Calling
  <2>6. RespOfHolder'
    BY <2>3 DEF CallInv, RespOfHolder
  <2> QED
    BY <2>2, <2>3, <2>4, <2>5, <2>6, OneMoves
<1>5. CASE Starts(t)
  <2>1. PICK label \in Calling, name \in {"START", "CLOSE", "SEND"} :
          /\ label = "send" <=> name = "SEND"
          /\ ExecStart(t, IF label = "send" THEN 2 ELSE 0, Cmd(name, app[t].slot))
          /\ AppGoto(t, label)
    BY <1>5 DEF Starts
  <2> DEFINE n == IF label = "send" THEN 2 ELSE 0
             r == [NoExec EXCEPT !.pc = "wait", !.cmd = sent + 1, !.line_num = n]
  <2>2. /\ ex' = [ex EXCEPT ![t] = r] /\ lock' = t /\ resp' = t /\ lock \in {None, t}
    BY <2>1 DEF ExecStart, LockFree
  <2>3. r.pc = "wait" /\ r.line_num = n
    BY DEF NoExec
  <2>4. n = 2 <=> label = "send"
    OBVIOUS
  <2>5. n \in {0, 2}
    OBVIOUS
  <2> HIDE DEF r, n
  <2>6. /\ app'[t].pc = label /\ (\A u \in Callers \ {t} : app'[u] = app[u])
        /\ ex'[t] = r /\ (\A u \in Callers \ {t} : ex'[u] = ex[u])
    BY <1>1, <2>1, <2>2 DEF AppGoto, AppState
  <2>7. label \in Sending <=> label = "send"
    BY DEF Sending, Calling, Confirming
  <2>8. CallOK(t)'
    BY <2>3, <2>4, <2>5, <2>6, <2>7 DEF CallOK, InCall, Calling, Confirming
  <2>9. Holding(t)' <=> lock' = t
    BY <2>2, <2>3, <2>6 DEF Holding
  <2>10. RespOfHolder'
    BY <2>2, <2>3, <2>6 DEF RespOfHolder
  <2> QED
    BY <2>2, <2>6, <2>8, <2>9, <2>10, OneMoves
<1>6. CASE Finishes(t)
  <2>1. PICK a \in AppState : a.pc \notin InCall /\ app' = [app EXCEPT ![t] = a]
    BY <1>6 DEF Finishes
  <2>2. /\ ex' = [ex EXCEPT ![t] = NoExec] /\ lock' = lock /\ resp' = resp
        /\ ((app[t].pc \in Calling \ {"send"} /\ Done(t)) \/ app[t].pc \notin InCall)
    BY <1>6 DEF Finishes, Forget, restOfClient
  <2>3. /\ app'[t] = a /\ (\A u \in Callers \ {t} : app'[u] = app[u])
        /\ ex'[t] = NoExec /\ (\A u \in Callers \ {t} : ex'[u] = ex[u])
    BY <1>1, <2>1, <2>2
  <2>4. ex[t].pc \notin {"wait", "exit"} /\ app[t].pc \notin Sending
    BY <1>1, <1>2, <2>2 DEF CallOK, Done, Sending, InCall, Calling, Confirming
  <2>5. CallOK(t)'
    BY <2>1, <2>3 DEF CallOK, InCall
  <2>6. Holding(t)' <=> lock' = t
    BY <1>1, <1>2, <2>1, <2>2, <2>3, <2>4 DEF Holding, InCall, Sending, Calling
  <2>7. RespOfHolder'
    BY <1>3, <2>2, <2>3, <2>4, NotWaiting
  <2> QED
    BY <2>2, <2>3, <2>5, <2>6, <2>7, OneMoves
<1>7. CASE SendData(t) /\ ex[t].result = "OK"
  <2>1. /\ AppGoto(t, "send_socket") /\ app[t].pc = "send" /\ Done(t)
        /\ lock' = lock /\ ex' = ex /\ resp' = resp
    BY <1>7 DEF SendData
  <2>2. app'[t].pc = "send_socket" /\ (\A u \in Callers \ {t} : app'[u] = app[u])
    BY <1>1, <2>1 DEF AppGoto, AppState
  <2>3. CallOK(t)'
    BY <1>1, <2>1, <2>2 DEF CallOK, Done, InCall, Calling, Confirming, Sending
  <2>4. Holding(t)' <=> lock' = t
    BY <1>1, <2>1, <2>2 DEF Holding, Sending, Confirming
  <2>5. RespOfHolder'
    BY <2>1 DEF CallInv, RespOfHolder
  <2> QED
    BY <2>1, <2>2, <2>3, <2>4, <2>5, OneMoves
<1>8. CASE SendSocketEvent(t)
  <2>1. /\ AppGoto(t, "send_result") /\ app[t].pc = "send_socket"
        /\ lock' = lock /\ ex' = ex /\ resp' = resp
    BY <1>8 DEF SendSocketEvent, clientVars
  <2>2. app'[t].pc = "send_result" /\ (\A u \in Callers \ {t} : app'[u] = app[u])
    BY <1>1, <2>1 DEF AppGoto, AppState
  <2>3. CallOK(t)'
    BY <1>1, <2>1, <2>2 DEF CallOK, InCall, Calling, Confirming, Sending
  <2>4. Holding(t)' <=> lock' = t
    BY <1>1, <2>1, <2>2 DEF Holding, Sending, Confirming
  <2>5. RespOfHolder'
    BY <2>1 DEF CallInv, RespOfHolder
  <2> QED
    BY <2>1, <2>2, <2>3, <2>4, <2>5, OneMoves
<1>9. CASE SendResult(t) \/ SendTimeout(t) \/ (SendData(t) /\ ex[t].result # "OK")
  <2>1. /\ AppGoto(t, "up") /\ Forget(t) /\ lock' = None /\ resp' = resp
        /\ app[t].pc \in Sending /\ (app[t].pc = "send" => Done(t))
    BY <1>9 DEF SendResult, SendTimeout, SendData, Sending, Confirming
  <2>2. /\ app'[t].pc = "up" /\ (\A u \in Callers \ {t} : app'[u] = app[u])
        /\ ex'[t] = NoExec /\ (\A u \in Callers \ {t} : ex'[u] = ex[u])
    BY <1>1, <2>1 DEF AppGoto, Forget, AppState
  <2>3. ex[t].pc = "done" /\ lock = t
    BY <1>1, <2>1 DEF CallOK, Holding, Done, Sending
  <2>4. CallOK(t)'
    BY <2>2 DEF CallOK, InCall, Calling, Confirming
  <2>5. Holding(t)' <=> lock' = t
    BY <1>2, <2>1, <2>2, CallersAssumption DEF Holding, Sending, Confirming
  <2>6. RespOfHolder'
    BY <1>3, <2>1, <2>2, <2>3, NotWaiting
  <2> QED
    BY <2>1, <2>2, <2>3, <2>4, <2>5, <2>6, OneMoves
<1> QED
  BY <1>4, <1>5, <1>6, <1>7, <1>8, <1>9, CallerSteps

\* So do the steps of at_obj_exec_cmd ...
LEMMA ExecCallInv ==
    ASSUME TypeInv, CallInv, NEW t \in Callers, ExecStep(t)
    PROVE  CallInv'
<1>1. /\ app \in [Callers -> AppState] /\ app[t] \in AppState
      /\ ex \in [Callers -> ExecCall] /\ ex[t] \in ExecCall
      /\ CallOK(t) /\ (Holding(t) <=> lock = t) /\ lock \in Callers \cup {None}
      /\ app' = app
  BY DEF TypeInv, AppType, ClientTypeOK, ExecCall, CallInv, ExecStep, socketVars
<1>2. CASE ExecWake(t) \/ ExecTimeout(t)
  <2>1. PICK result : ex' = [ex EXCEPT ![t].pc = "exit", ![t].result = result]
    BY <1>2 DEF ExecWake, ExecTimeout
  <2>2. ex[t].pc = "wait" /\ lock' = lock /\ resp' = resp
    BY <1>2 DEF ExecWake, ExecTimeout
  <2>3. /\ ex'[t].pc = "exit" /\ ex'[t].line_num = ex[t].line_num
        /\ (\A u \in Callers \ {t} : ex'[u] = ex[u])
    BY <1>1, <2>1 DEF ExecCall
  <2>4. app[t].pc \in Calling
    <3>1. NoExec.pc = "idle"
      BY DEF NoExec
    <3> QED
      BY <1>1, <2>2, <3>1 DEF CallOK, InCall
  <2>5. CallOK(t)'
    BY <1>1, <2>3, <2>4 DEF CallOK, InCall, Calling, Confirming
  <2>6. Holding(t)' <=> lock' = t
    BY <1>1, <2>2, <2>3 DEF Holding
  <2>7. RespOfHolder'
    BY <2>2, <2>3, CallersAssumption DEF CallInv, RespOfHolder, TypeInv, ClientTypeOK
  <2> QED
    BY <1>1, <2>2, <2>3, <2>5, <2>6, <2>7, OneMoves
<1>3. CASE ExecExit(t, app[t].pc = "send")
  <2>1. /\ ex' = [ex EXCEPT ![t] = [ex[t] EXCEPT !.pc = "done"]]
        /\ ex[t].pc = "exit" /\ resp' = None
        /\ lock' = IF app[t].pc = "send" THEN t ELSE None
    BY <1>1, <1>3 DEF ExecExit, RespAtExit
  <2>2. /\ ex'[t].pc = "done" /\ ex'[t].line_num = ex[t].line_num
        /\ (\A u \in Callers \ {t} : ex'[u] = ex[u])
    BY <1>1, <2>1 DEF ExecCall
  <2>3. app[t].pc \in Calling /\ lock = t
    <3>1. NoExec.pc = "idle"
      BY DEF NoExec
    <3> QED
      BY <1>1, <2>1, <3>1 DEF CallOK, InCall, Holding
  <2>4. CallOK(t)'
    BY <1>1, <2>2, <2>3 DEF CallOK, InCall, Calling, Confirming
  <2>5. Holding(t)' <=> lock' = t
    BY <1>1, <2>1, <2>2, <2>3, CallersAssumption DEF Holding, Sending, Calling, Confirming
  <2>6. RespOfHolder'
    BY <2>1 DEF RespOfHolder
  <2> QED
    BY <1>1, <2>1, <2>2, <2>3, <2>4, <2>5, <2>6, OneMoves
<1> QED
  BY <1>2, <1>3 DEF ExecStep

\* ... and the parser, which only completes the response of the holder.
LEMMA ParseCall ==
    ASSUME TypeInv, CallInv, Parse
    PROVE  CallInv'
<1> DEFINE line == Head(toClient)
<1>1. app' = app /\ lock' = lock
  BY DEF Parse
<1>2. ParseResponse(line) \/ UNCHANGED <<resp, resp_status, resp_notice, ex>>
  BY DEF Parse
<1> HIDE DEF line
<1>3. CASE UNCHANGED <<resp, ex>>
  BY <1>1, <1>3 DEF CallInv, CallOK, Holding, RespOfHolder
<1>4. CASE ParseResponse(line) /\ resp # None
  <2>1. resp \in Callers /\ ex \in [Callers -> ExecCall] /\ ex[resp] \in ExecCall
    BY <1>4 DEF TypeInv, ClientTypeOK, ExecCall
  <2>2. \/ ex' = [ex EXCEPT ![resp].line_counts = @ + 1]
        \/ ex' = [ex EXCEPT ![resp].line_counts = @ + 1, ![resp].end = line.cmd]
    BY <1>4, Zenon DEF ParseResponse
  <2>3. resp' = resp \/ resp' = None
    BY <1>4, Zenon DEF ParseResponse
  <2>4. /\ ex'[resp].pc = ex[resp].pc /\ ex'[resp].line_num = ex[resp].line_num
        /\ (\A u \in Callers \ {resp} : ex'[u] = ex[u])
    BY <2>1, <2>2 DEF ExecCall
  <2>5. CallOK(resp) /\ (Holding(resp) <=> lock = resp) /\ ex[resp].pc \in {"wait", "exit"}
    BY <1>4, <2>1 DEF CallInv, RespOfHolder
  <2>6. app[resp].pc \in InCall
    BY <2>5 DEF CallOK, NoExec
  <2>7. \A u \in Callers : CallOK(u)'
    BY <1>1, <2>4, <2>5, <2>6 DEF CallInv, CallOK
  <2>8. \A u \in Callers : Holding(u)' <=> lock' = u
    BY <1>1, <2>4 DEF CallInv, Holding
  <2>9. RespOfHolder'
    BY <1>1, <1>4, <2>3, <2>4 DEF CallInv, RespOfHolder
  <2> QED
    BY <2>7, <2>8, <2>9 DEF CallInv
<1>5. CASE ParseResponse(line) /\ resp = None
  BY <1>3, <1>5 DEF ParseResponse
<1> QED
  BY <1>2, <1>3, <1>4, <1>5

\* At the start nobody is in a call.
LEMMA InitCall == Init => CallInv
<1> SUFFICES ASSUME Init PROVE CallInv
  OBVIOUS
<1>1. \A t \in Callers : app[t].pc = "none" /\ ex[t] = NoExec /\ ex[t].pc = "idle"
  BY DEF Init, ClientInit, NoApp, NoExec
<1> QED
  BY <1>1, CallersAssumption DEF Init, ClientInit, CallInv, CallOK, Holding, RespOfHolder, InCall,
                                 Calling, Confirming, Sending

\* CallInv is inductive.
LEMMA NextCall == TypeInv /\ CallInv /\ [Next]_vars => CallInv'
<1> SUFFICES ASSUME TypeInv, CallInv, [Next]_vars PROVE CallInv'
  OBVIOUS
<1>1. ASSUME UNCHANGED <<lock, resp, ex, app>> PROVE CallInv'
  BY <1>1 DEF CallInv, CallOK, Holding, RespOfHolder
<1>2. CASE Module \/ Settle \/ UNCHANGED vars
  BY <1>1, <1>2 DEF Module, Settle, vars, clientVars, socketVars, restOfClient
<1>3. CASE \E s \in Slots : ServerSends(s) \/ ServerCloses(s) \/ LinkSettles(s)
  BY <1>1, <1>3 DEF ServerSends, ServerCloses, LinkSettles, restOfClient, clientVars
<1> QED
  BY <1>2, <1>3, CallerCall, ExecCallInv, ParseCall DEF Next

(***************************************************************************)
(* For every number of callers: client->resp points to a response only     *)
(* while its owner is inside at_obj_exec_cmd and holds client->lock.  With *)
(* the type invariant alone this is not inductive: that at_obj_exec_cmd of *)
(* one caller never meets another one's takes the correspondence between   *)
(* the lock and the callers' places in their programs (CallInv), with the  *)
(* lock that esp8266_socket_send keeps around AT+CIPSEND and its data.     *)
(***************************************************************************)
THEOREM AtRespOfHolder == Spec => []RespOfHolder
<1>1. CallInv => RespOfHolder
  BY DEF CallInv
<1> QED
  BY <1>1, InitType, NextType, InitCall, NextCall, PTL DEF Spec

-----------------------------------------------------------------------------
(***************************************************************************)
(* Whose entry of the table is whose, and the notices of the packets.      *)
(***************************************************************************)
HasSocket(t) == app[t].pc # "none"

\* When the caller of the socket waits and the list is not empty.
Noticed(r) == r.recvpkt # <<>> => r.recv_notice > 0

SlotInv ==
    /\ \A t \in Callers : HasSocket(t) => Mine(t).magic
    /\ \A t, u \in Callers : t # u /\ HasSocket(t) /\ HasSocket(u) => app[t].slot # app[u].slot
    /\ \A t \in Callers : app[t].pc = "recv" => Noticed(Mine(t))

\* A caller that has a socket leaves the others' alone, keeps its own marked
\* until it gives it up, and waits only on an empty list.
OwnSlot(t) ==
    /\ HasSocket(t)
    /\ \A u \in Callers \ {t} : app'[u] = app[u]
    /\ \A s \in Slots \ {app[t].slot} : sock'[s] = sock[s]
    /\ \/ app'[t].pc = "none"
       \/ app'[t].slot = app[t].slot /\ sock'[app[t].slot].magic
    /\ app'[t].pc = "recv" => sock'[app[t].slot].recvpkt = <<>>

\* A step of a caller allocates a socket or uses the one the caller has.
LEMMA SlotSteps ==
    ASSUME TypeInv, SlotInv, NEW t \in Callers, CallerStep(t)
    PROVE  Socket(t) \/ OwnSlot(t)
<1> DEFINE s == app[t].slot
<1>1. /\ app \in [Callers -> AppState] /\ app[t] \in AppState /\ s \in Slots
      /\ sock \in [Slots -> SocketEntry] /\ sock[s] \in SocketEntry /\ Mine(t) = sock[s]
      /\ (HasSocket(t) => sock[s].magic)
  BY DEF TypeInv, AppType, AppState, SockType, Mine, SlotInv
<1>2. ASSUME NEW label, AppGoto(t, label)
      PROVE  /\ app'[t].pc = label /\ app'[t].slot = s
             /\ \A u \in Callers \ {t} : app'[u] = app[u]
  BY <1>1, <1>2 DEF AppGoto, AppState
<1>3. ASSUME NEW r, sock' = [sock EXCEPT ![s] = r]
      PROVE  sock'[s] = r /\ \A e \in Slots \ {s} : sock'[e] = sock[e]
  BY <1>1, <1>3
<1>4. CASE /\ HasSocket(t) /\ UNCHANGED sock
           /\ \E label : AppGoto(t, label) /\ (label = "recv" => sock[s].recvpkt = <<>>)
  BY <1>1, <1>2, <1>4 DEF OwnSlot
<1>5. CASE SocketOpen(t)
  <2>1. sock' = [sock EXCEPT ![s] = FreshSocket] /\ AppGoto(t, "open") /\ HasSocket(t)
    BY <1>5 DEF SocketOpen, HasSocket
  <2>2. sock'[s] = FreshSocket /\ \A e \in Slots \ {s} : sock'[e] = sock[e]
    BY <1>3, <2>1
  <2>3. sock'[s].magic
    BY <2>2, RecordTypes
  <2>4. app'[t].pc = "open" /\ app'[t].slot = s /\ \A u \in Callers \ {t} : app'[u] = app[u]
    BY <1>2, <2>1
  <2> QED
    BY <2>1, <2>2, <2>3, <2>4, Zenon DEF OwnSlot
<1>6. CASE Connect(t)
  <2>1. sock' = [sock EXCEPT ![s].conn = sent + 1] /\ AppGoto(t, "connecting") /\ HasSocket(t)
    BY <1>6 DEF Connect, HasSocket
  <2>2. (sock'[s].magic <=> sock[s].magic) /\ \A e \in Slots \ {s} : sock'[e] = sock[e]
    BY <1>1, <2>1 DEF SocketEntry
  <2> QED
    BY <1>1, <1>2, <2>1, <2>2 DEF OwnSlot
<1>7. CASE Connected(t) \/ Close(t)
  <2>1. PICK state, label : StateTo(s, state) /\ AppGoto(t, label) /\ HasSocket(t)
                           /\ label # "recv"
    <3>1. CASE Connected(t)
      BY <3>1 DEF Connected, HasSocket
    <3>2. CASE Close(t)
      BY <3>2 DEF Close, HasSocket
    <3> QED
      BY <1>7, <3>1, <3>2
  <2>2. (sock'[s].magic <=> sock[s].magic) /\ \A e \in Slots \ {s} : sock'[e] = sock[e]
    BY <1>1, <2>1 DEF SocketEntry, StateTo
  <2> QED
    BY <1>1, <1>2, <2>1, <2>2 DEF OwnSlot
<1>8. CASE Reclosed(t)
  <2>1. /\ app'[t].pc \in {"open", "failed"} /\ app'[t].slot = s
        /\ \A u \in Callers \ {t} : app'[u] = app[u]
    BY <1>1, <1>8 DEF Reclosed, AppState
  <2> QED
    BY <1>1, <1>8, <2>1 DEF Reclosed, HasSocket, OwnSlot
<1>9. ASSUME NEW r \in SocketEntry, r.magic, TakePackets(s, r)
      PROVE  sock'[s].magic /\ \A e \in Slots \ {s} : sock'[e] = sock[e]
  <2>1. PICK n \in 0 .. Len(r.recvpkt) :
          sock' = [sock EXCEPT ![s] = [r EXCEPT !.recvpkt = SubSeq(@, n + 1, Len(@))]]
    BY <1>9 DEF TakePackets
  <2> DEFINE c == SubSeq(r.recvpkt, n + 1, Len(r.recvpkt))
             v == [r EXCEPT !.recvpkt = c]
  <2>2. sock' = [sock EXCEPT ![s] = v]
    BY <2>1
  <2> HIDE DEF c
  <2>3. v.magic <=> r.magic
    BY DEF SocketEntry
  <2> HIDE DEF v
  <2> QED
    BY <1>3, <1>9, <2>2, <2>3
<1>10. CASE RecvLeftover(t)
  <2>1. TakePackets(s, sock[s]) /\ app' = app /\ HasSocket(t) /\ app[t].pc = "up"
    BY <1>1, <1>10 DEF RecvLeftover, HasSocket
  <2>2. sock'[s].magic /\ \A e \in Slots \ {s} : sock'[e] = sock[e]
    BY <1>1, <1>9, <2>1
  <2> QED
    BY <1>1, <2>1, <2>2 DEF OwnSlot
<1>11. CASE RecvNotice(t)
  <2> DEFINE n == sock[s].recv_notice - 1
             r == [sock[s] EXCEPT !.recv_notice = n]
  <2>1. n \in Nat /\ HasSocket(t)
    BY <1>1, <1>11 DEF RecvNotice, SocketEntry, HasSocket
  <2>2. \/ TakePackets(s, r) /\ AppGoto(t, "up")
        \/ sock' = [sock EXCEPT ![s] = r] /\ app' = app /\ r.recvpkt = <<>>
    <3> DEFINE taken == [Mine(t) EXCEPT !.recv_notice = @ - 1]
    <3>1. taken = r
      BY <1>1
    <3>2. \/ TakePackets(s, taken) /\ AppGoto(t, "up")
          \/ sock' = [sock EXCEPT ![s] = taken] /\ app' = app /\ taken.recvpkt = <<>>
      BY <1>11 DEF RecvNotice
    <3> HIDE DEF taken, r
    <3> QED
      BY <3>1, <3>2
  <2> HIDE DEF n
  <2>3. r \in SocketEntry /\ (r.magic <=> sock[s].magic)
    BY <1>1, <2>1 DEF SocketEntry
  <2> HIDE DEF r
  <2>4. CASE TakePackets(s, r) /\ AppGoto(t, "up")
    <3>1. sock'[s].magic /\ \A e \in Slots \ {s} : sock'[e] = sock[e]
      BY <1>1, <1>9, <2>1, <2>3, <2>4
    <3> QED
      BY <1>2, <2>1, <2>4, <3>1 DEF OwnSlot
  <2>5. CASE sock' = [sock EXCEPT ![s] = r] /\ app' = app /\ r.recvpkt = <<>>
    BY <1>1, <1>3, <2>1, <2>3, <2>5 DEF OwnSlot
  <2> QED
    BY <2>2, <2>4, <2>5
<1>12. CASE FreeObjects(t)
  <2>1. /\ sock' = [sock EXCEPT ![s].dead = TRUE, ![s].recvpkt = <<>>]
        /\ AppGoto(t, "erase") /\ HasSocket(t)
    BY <1>12 DEF FreeObjects, LinkClosed, HasSocket
  <2>2. (sock'[s].magic <=> sock[s].magic) /\ \A e \in Slots \ {s} : sock'[e] = sock[e]
    BY <1>1, <2>1 DEF SocketEntry
  <2> QED
    BY <1>1, <1>2, <2>1, <2>2 DEF OwnSlot
<1>13. CASE FreeEntry(t)
  <2>1. /\ sock' = [sock EXCEPT ![s] = NoSocket] /\ app' = [app EXCEPT ![t] = NoApp]
        /\ HasSocket(t)
    BY <1>13 DEF FreeEntry, HasSocket
  <2>2. app'[t].pc = "none" /\ \A u \in Callers \ {t} : app'[u] = app[u]
    BY <1>1, <2>1 DEF NoApp
  <2> QED
    BY <1>3, <2>1, <2>2 DEF OwnSlot
<1>14. CASE ConnectSkipped(t) \/ Reclose(t) \/ CloseLink(t)
  BY <1>4, <1>14 DEF ConnectSkipped, Reclose, CloseLink, HasSocket
<1>15. CASE Send(t) \/ SendSocketEvent(t) \/ SendResult(t) \/ SendTimeout(t)
  BY <1>4, <1>15 DEF Send, SendSocketEvent, SendResult, SendTimeout, HasSocket
<1>16. CASE SendData(t)
  BY <1>4, <1>16 DEF SendData, HasSocket
<1>17. CASE RecvBlock(t) \/ RecvTimeout(t)
  BY <1>1, <1>4, <1>17 DEF RecvBlock, RecvTimeout, HasSocket
<1>18. CASE ConnectFailed(t)
  <2>1. AppGoto(t, IF app[t].retried THEN "failed" ELSE "reclose")
    BY <1>18 DEF ConnectFailed, AppGoto
  <2> QED
    BY <1>4, <1>18, <2>1 DEF ConnectFailed, HasSocket
<1>19. CASE SocketFails(t)
  <2>1. sock' = sock /\ app' = [app EXCEPT ![t] = NoApp] /\ HasSocket(t)
    BY <1>19 DEF SocketFails, HasSocket
  <2>2. app'[t].pc = "none" /\ \A u \in Callers \ {t} : app'[u] = app[u]
    BY <1>1, <2>1 DEF NoApp
  <2> QED
    BY <2>1, <2>2 DEF OwnSlot
<1>20. CASE ConnectNoMemory(t) \/ CloseNoMemory(t)
  BY <1>4, <1>20 DEF ConnectNoMemory, CloseNoMemory, HasSocket
<1> QED
  BY <1>5, <1>6, <1>7, <1>8, <1>10, <1>11, <1>12, <1>13, <1>14, <1>15, <1>16, <1>17, <1>18,
     <1>19, <1>20
  DEF CallerStep

\* The steps of a caller keep the sockets apart and their notices right.
LEMMA CallerSlot ==
    ASSUME TypeInv, SlotInv, NEW t \in Callers, CallerStep(t)
    PROVE  SlotInv'
<1>1. /\ app \in [Callers -> AppState] /\ sock \in [Slots -> SocketEntry]
      /\ \A u \in Callers : app[u].slot \in Slots
  BY DEF TypeInv, AppType, AppState, SockType
<1>2. CASE Socket(t)
  <2> DEFINE n == Min(Free)
             a == [NoApp EXCEPT !.pc = "alloc", !.slot = n]
  <2>1. n \in Slots /\ ~sock[n].magic
    <3>1. Free \in SUBSET Nat /\ Free # {} /\ Free \subseteq Slots
      BY <1>2, SocketNumAssumption DEF Free, Slots, Socket
    <3>2. n \in Free
      BY <3>1, LeastOf
    <3> QED
      BY <3>2 DEF Free
  <2>2. /\ app' = [app EXCEPT ![t] = a] /\ app[t].pc = "none"
        /\ sock' = [sock EXCEPT ![n].magic = TRUE]
    BY <1>2 DEF Socket
  <2>3. a.pc = "alloc" /\ a.slot = n
    BY DEF NoApp
  <2> HIDE DEF n, a
  <2>4. /\ app'[t] = a /\ \A u \in Callers \ {t} : app'[u] = app[u]
    BY <1>1, <2>2
  <2>5. sock'[n].magic /\ \A s \in Slots \ {n} : sock'[s] = sock[s]
    BY <1>1, <2>1, <2>2 DEF SocketEntry
  <2>6. \A u \in Callers \ {t} : HasSocket(u) => app[u].slot # n
    BY <2>1 DEF SlotInv, Mine
  <2>7. \A u \in Callers : HasSocket(u)' => Mine(u)'.magic
    BY <1>1, <2>3, <2>4, <2>5, <2>6 DEF SlotInv, HasSocket, Mine
  <2>8. \A u, v \in Callers : u # v /\ HasSocket(u)' /\ HasSocket(v)' => app'[u].slot # app'[v].slot
    BY <2>3, <2>4, <2>6 DEF SlotInv, HasSocket
  <2>9. \A u \in Callers : app'[u].pc = "recv" => Noticed(Mine(u))'
    BY <1>1, <2>3, <2>4, <2>5, <2>6 DEF SlotInv, HasSocket, Mine, Noticed
  <2> QED
    BY <2>7, <2>8, <2>9 DEF SlotInv
<1>3. CASE OwnSlot(t)
  <2>1. \A u \in Callers \ {t} : HasSocket(u)' =>
           HasSocket(u) /\ Mine(u)' = Mine(u) /\ app'[u] = app[u] /\ app[u].slot # app[t].slot
    BY <1>1, <1>3 DEF OwnSlot, SlotInv, HasSocket, Mine
  <2>2. HasSocket(t)' => app'[t].slot = app[t].slot /\ Mine(t)'.magic
    BY <1>3 DEF OwnSlot, HasSocket, Mine
  <2>3. \A u \in Callers : HasSocket(u)' => Mine(u)'.magic
    BY <2>1, <2>2 DEF SlotInv
  <2>4. \A u, v \in Callers : u # v /\ HasSocket(u)' /\ HasSocket(v)' => app'[u].slot # app'[v].slot
    <3>1. HasSocket(t)
      BY <1>3 DEF OwnSlot
    <3> QED
      BY <2>1, <2>2, <3>1 DEF SlotInv
  <2>5. app'[t].pc = "recv" => Noticed(Mine(t))'
    BY <1>3 DEF OwnSlot, Mine, Noticed, HasSocket
  <2>6. \A u \in Callers \ {t} : app'[u].pc = "recv" => Noticed(Mine(u))'
    BY <2>1 DEF SlotInv, Noticed, HasSocket
  <2>7. \A u \in Callers : app'[u].pc = "recv" => Noticed(Mine(u))'
    BY <2>5, <2>6
  <2> QED
    BY <2>3, <2>4, <2>7 DEF SlotInv
<1> QED
  BY <1>2, <1>3, SlotSteps

\* So does the parser, which posts a notice with each packet.
LEMMA ParseSlot ==
    ASSUME TypeInv, SlotInv, Parse
    PROVE  SlotInv'
<1> DEFINE line == Head(toClient)
           s == line.slot
<1>1. toClient \in Seq(Lines) /\ toClient # <<>> /\ app' = app
  BY DEF Parse, TypeInv, LineType
<1>2. line \in Lines
  BY <1>1, HeadTailProperties
<1>3. ParseData(line) \/ ParseClosed(line) \/ UNCHANGED sock
  BY DEF Parse, ParseSend
<1> HIDE DEF line
<1>4. /\ s \in Slots /\ sock \in [Slots -> SocketEntry] /\ sock[s] \in SocketEntry
      /\ \A t \in Callers : app[t].slot \in Slots
  BY <1>2 DEF Lines, TypeInv, SockType, AppType, AppState
<1> DEFINE n == sock[s].recv_notice + 1
<1>5. n \in Nat /\ n > 0
  BY <1>4 DEF SocketEntry
<1>6. ASSUME sock' = [sock EXCEPT ![s] = sock'[s]], sock'[s].recv_notice = n,
             sock'[s].magic <=> sock[s].magic
      PROVE  SlotInv'
  <2>1. \A e \in Slots : sock'[e].magic <=> sock[e].magic
    BY <1>4, <1>6
  <2>2. \A e \in Slots : Noticed(sock[e]) => Noticed(sock'[e])
    BY <1>4, <1>5, <1>6 DEF Noticed
  <2>3. \A t \in Callers : Mine(t) = sock[app[t].slot] /\ Mine(t)' = sock'[app[t].slot]
    BY <1>1 DEF Mine
  <2> QED
    BY <1>1, <1>4, <2>1, <2>2, <2>3 DEF SlotInv, HasSocket
<1>7. CASE UNCHANGED sock
  BY <1>1, <1>7 DEF SlotInv, HasSocket, Mine, Noticed
<1>8. CASE ParseData(line)
  <2> DEFINE q == Append(sock[s].recvpkt, line.cmd)
             full == [sock[s] EXCEPT !.recvpkt = q, !.recv_notice = n]
             bare == [sock[s] EXCEPT !.recv_notice = n]
  <2>1. \/ sock' = [sock EXCEPT ![s] = full]
        \/ sock' = [sock EXCEPT ![s] = bare]
        \/ sock' = sock
    BY <1>4, <1>8 DEF ParseData, Received
  <2> HIDE DEF q, n
  <2>2. full.recv_notice = n /\ (full.magic <=> sock[s].magic)
    BY <1>4 DEF SocketEntry
  <2>3. bare.recv_notice = n /\ (bare.magic <=> sock[s].magic)
    BY <1>4 DEF SocketEntry
  <2> HIDE DEF full, bare
  <2>4. CASE sock' = [sock EXCEPT ![s] = full]
    BY <1>4, <1>6, <2>2, <2>4
  <2>5. CASE sock' = [sock EXCEPT ![s] = bare]
    BY <1>4, <1>6, <2>3, <2>5
  <2> QED
    BY <1>7, <2>1, <2>4, <2>5
<1>9. CASE ParseClosed(line)
  <2> DEFINE r == [sock[s] EXCEPT !.state = "closed", !.recv_notice = n]
  <2>1. sock' = [sock EXCEPT ![s] = r] \/ sock' = sock
    BY <1>4, <1>9 DEF ParseClosed
  <2> HIDE DEF n
  <2>2. r.recv_notice = n /\ (r.magic <=> sock[s].magic)
    BY <1>4 DEF SocketEntry
  <2> HIDE DEF r
  <2>3. CASE sock' = [sock EXCEPT ![s] = r]
    BY <1>4, <1>6, <2>2, <2>3
  <2> QED
    BY <1>7, <2>1, <2>3
<1> QED
  BY <1>3, <1>7, <1>8, <1>9

\* At the start no caller has a socket.
LEMMA InitSlot == Init => SlotInv
BY DEF Init, NoApp, SlotInv, HasSocket

\* SlotInv is inductive.
LEMMA NextSlot == TypeInv /\ SlotInv /\ [Next]_vars => SlotInv'
<1> SUFFICES ASSUME TypeInv, SlotInv, [Next]_vars PROVE SlotInv'
  OBVIOUS
<1>1. ASSUME UNCHANGED <<sock, app>> PROVE SlotInv'
  BY <1>1 DEF SlotInv, HasSocket, Mine, Noticed
<1>2. CASE Module \/ Settle \/ UNCHANGED vars
  BY <1>1, <1>2 DEF Module, Settle, vars, socketVars
<1>3. CASE \E s \in Slots : ServerSends(s) \/ ServerCloses(s) \/ LinkSettles(s)
  BY <1>1, <1>3 DEF ServerSends, ServerCloses, LinkSettles
<1>4. CASE \E t \in Callers : ExecStep(t)
  BY <1>1, <1>4 DEF ExecStep, socketVars
<1> QED
  BY <1>2, <1>3, <1>4, CallerSlot, ParseSlot DEF Next

(***************************************************************************)
(* For every number of callers and sockets: no receive call waits while    *)
(* its list holds a packet and no notice is due.  The semaphore and the    *)
(* list are changed separately, leftover packets are read without taking a *)
(* notice and a notice may be there without a packet; what excludes the    *)
(* lost wake-up is that a call starts to wait on an empty list only and    *)
(* that no two callers ever share an entry of the table (SlotInv).         *)
(***************************************************************************)
THEOREM AtNoLostNotice == Spec => []NoLostNotice
<1>1. SlotInv => NoLostNotice
  BY DEF SlotInv, NoLostNotice, Noticed
<1> QED
  BY <1>1, InitType, NextType, InitSlot, NextSlot, PTL DEF Spec

-----------------------------------------------------------------------------
(***************************************************************************)
(* Where a command and its answer are while nothing of an abandoned one is *)
(* around.  Lines the module sends on its own (urc) may stand anywhere     *)
(* between the lines of an answer.                                         *)
(***************************************************************************)
Urc == {"+IPD", "CLOSED"}

\* The lines q hold no answer, ...
Quiet(q) == \A i \in 1 .. Len(q) : q[i].kind \in Urc

\* ... one line of command cmd, of one of these kinds, ...
One(q, kinds, cmd) ==
    \E i \in 1 .. Len(q) :
        /\ q[i].kind \in kinds /\ q[i].cmd = cmd
        /\ \A j \in 1 .. Len(q) : j # i => q[j].kind \in Urc

\* ... or the two lines of the answer to AT+CIPSEND.
Two(q, cmd) ==
    \E i, k \in 1 .. Len(q) :
        /\ i < k
        /\ q[i].kind = "INFO" /\ q[i].cmd = cmd
        /\ q[k].kind = "OK" /\ q[k].cmd = cmd
        /\ \A j \in 1 .. Len(q) : j \notin {i, k} => q[j].kind \in Urc

NothingUnderway == toDevice = <<>> /\ Quiet(toClient)

\* Nobody holds the lock.
Idle ==
    /\ resp = None /\ resp_notice = 0
    /\ socket_event = {} /\ prompt = None
    /\ NothingUnderway

\* The module has not read the command of t yet.
Asked(t) ==
    /\ ex[t].pc = "wait" /\ resp = t /\ resp_notice = 0 /\ ex[t].line_counts = 0
    /\ socket_event = {} /\ prompt = None
    /\ \E c \in Commands :
          /\ toDevice = <<c>>
          /\ c.cmd = ex[t].cmd
          /\ c.name # "DATA"
          /\ c.name = "SEND" <=> ex[t].line_num = 2
    /\ Quiet(toClient)

\* Its answer is on the way.
Answered(t) ==
    /\ ex[t].pc = "wait" /\ resp = t /\ resp_notice = 0
    /\ socket_event = {} /\ toDevice = <<>>
    /\ \/ /\ ex[t].line_num = 0 /\ prompt = None
          /\ One(toClient, {"OK", "ERROR"}, ex[t].cmd)
       \/ /\ ex[t].line_num = 2 /\ ex[t].line_counts = 0 /\ prompt = None
          /\ One(toClient, {"ERROR"}, ex[t].cmd)
       \/ /\ ex[t].line_num = 2 /\ ex[t].line_counts = 0 /\ prompt # None
          /\ Two(toClient, ex[t].cmd)
       \/ /\ ex[t].line_num = 2 /\ ex[t].line_counts = 1 /\ prompt # None
          /\ One(toClient, {"OK"}, ex[t].cmd)

\* The parser has seen its end, and the caller or nobody has taken the notice.
Ended(t) ==
    /\ resp = None /\ socket_event = {} /\ NothingUnderway
    /\ ex[t].end = ex[t].cmd
    /\ \/ /\ ex[t].pc = "wait" /\ resp_notice = 1 /\ resp_status \in {"OK", "ERROR"}
          /\ prompt # None <=> ex[t].line_num = 2 /\ resp_status = "OK"
       \/ /\ ex[t].pc = "exit" \/ (ex[t].pc = "done" /\ app[t].pc = "send")
          /\ resp_notice = 0 /\ ex[t].result \in {"OK", "ERROR"}
          /\ prompt # None <=> ex[t].line_num = 2 /\ ex[t].result = "OK"

\* The data are sent and their confirmation comes in, step by step.
Confirms(t) ==
    /\ resp = None /\ resp_notice = 0
    /\ \/ /\ app[t].pc = "send_socket" /\ socket_event = {} /\ prompt # None
          /\ Len(toDevice) = 1 /\ Quiet(toClient)
       \/ /\ app[t].pc = "send_socket" /\ socket_event = {} /\ prompt = None
          /\ toDevice = <<>>
          /\ \E cmd \in 0 .. MaxCmds : One(toClient, SendResults, cmd)
       \/ /\ app[t].pc = "send_socket" /\ prompt = None /\ NothingUnderway
          /\ socket_event \subseteq SocketBits(app[t].slot) \cup ResultBits
       \/ /\ app[t].pc = "send_result" /\ prompt = None /\ NothingUnderway
          /\ socket_event \subseteq ResultBits

Phase(t) == Asked(t) \/ Answered(t) \/ Ended(t) \/ Confirms(t)

\* A call that has a response has the response to its own command.
OwnEnd(t) == ex[t].result \in {"OK", "ERROR"} => ex[t].end = ex[t].cmd

\* The module's prompt and confirmation are for the caller that holds the lock.
SendingInv == \A t \in Callers : app[t].pc \in Sending => sending = app[t].slot

PhaseInv ==
    ~stale => /\ lock = None => Idle
              /\ \A t \in Callers : lock = t => Phase(t)
              /\ \A t \in Callers : OwnEnd(t)

\* The places of the lines after the module has added one or two ...
LEMMA AddedPlaces ==
    ASSUME NEW q \in Seq(Lines), NEW l \in Lines, NEW m \in Lines, NEW one, NEW two,
           one = q \o <<l>>, two = q \o <<l, m>>
    PROVE  /\ one \in Seq(Lines) /\ Len(one) = Len(q) + 1 /\ one[Len(q) + 1] = l
           /\ \A i \in 1 .. Len(q) : one[i] = q[i]
           /\ two \in Seq(Lines) /\ Len(two) = Len(q) + 2
           /\ two[Len(q) + 1] = l /\ two[Len(q) + 2] = m
           /\ \A i \in 1 .. Len(q) : two[i] = q[i]
<1>1. Len(q) \in Nat
  BY LenProperties
<1>2. <<l>> \in Seq(Lines) /\ Len(<<l>>) = 1 /\ <<l>>[1] = l
  OBVIOUS
<1>3. <<l, m>> \in Seq(Lines) /\ Len(<<l, m>>) = 2 /\ <<l, m>>[1] = l /\ <<l, m>>[2] = m
  OBVIOUS
<1> DEFINE a == <<l>>
           b == <<l, m>>
<1> HIDE DEF a, b
<1>4. /\ one \in Seq(Lines) /\ Len(one) = Len(q) + 1
      /\ \A i \in 1 .. Len(q) + 1 : one[i] = IF i <= Len(q) THEN q[i] ELSE a[i - Len(q)]
  BY <1>2, ConcatProperties DEF a
<1>5. /\ two \in Seq(Lines) /\ Len(two) = Len(q) + 2
      /\ \A i \in 1 .. Len(q) + 2 : two[i] = IF i <= Len(q) THEN q[i] ELSE b[i - Len(q)]
  BY <1>3, ConcatProperties DEF b
<1>6. one[Len(q) + 1] = l /\ \A i \in 1 .. Len(q) : one[i] = q[i]
  BY <1>1, <1>2, <1>4 DEF a
<1>7. /\ two[Len(q) + 1] = l /\ two[Len(q) + 2] = m
      /\ \A i \in 1 .. Len(q) : two[i] = q[i]
  BY <1>1, <1>3, <1>5 DEF b
<1> QED
  BY <1>4, <1>5, <1>6, <1>7

\* ... and after the parser has read one.
LEMMA ReadPlaces ==
    ASSUME NEW q \in Seq(Lines), q # <<>>, NEW rest, rest = Tail(q)
    PROVE  /\ Head(q) = q[1] /\ Len(q) \in Nat \ {0}
           /\ rest \in Seq(Lines) /\ Len(rest) = Len(q) - 1
           /\ \A i \in 1 .. Len(rest) : rest[i] = q[i + 1]
<1>1. Len(q) \in Nat \ {0}
  BY EmptySeq, LenProperties
<1>2. rest \in Seq(Lines) /\ Len(rest) = Len(q) - 1
  BY HeadTailProperties
<1>3. \A i \in 1 .. Len(q) - 1 : rest[i] = q[i + 1]
  BY HeadTailProperties
<1> QED
  BY <1>1, <1>2, <1>3, HeadTailProperties

\* A line the module sends on its own leaves the answers where they are.
LEMMA UrcAdded ==
    ASSUME NEW q \in Seq(Lines), NEW l \in Lines, l.kind \in Urc, NEW one, one = q \o <<l>>
    PROVE  /\ Quiet(q) => Quiet(one)
           /\ \A kinds, cmd : One(q, kinds, cmd) => One(one, kinds, cmd)
           /\ \A cmd : Two(q, cmd) => Two(one, cmd)
<1> DEFINE n == Len(q)
<1>1. /\ n \in Nat /\ Len(one) = n + 1 /\ one[n + 1] = l
      /\ \A i \in 1 .. n : one[i] = q[i]
  BY AddedPlaces, LenProperties
<1>2. \A j \in 1 .. n + 1 : j \in 1 .. n \/ j = n + 1
  BY <1>1
<1>3. \A j \in 1 .. n : j \in 1 .. n + 1
  BY <1>1
<1>4. Quiet(q) => Quiet(one)
  BY <1>1, <1>2 DEF Quiet
<1>5. ASSUME NEW kinds, NEW cmd, One(q, kinds, cmd) PROVE One(one, kinds, cmd)
  <2>1. PICK i \in 1 .. n : /\ q[i].kind \in kinds /\ q[i].cmd = cmd
                            /\ \A j \in 1 .. n : j # i => q[j].kind \in Urc
    BY <1>5 DEF One
  <2>2. \A j \in 1 .. n + 1 : j # i => one[j].kind \in Urc
    BY <1>1, <1>2, <2>1
  <2> QED
    BY <1>1, <1>3, <2>1, <2>2 DEF One
<1>6. ASSUME NEW cmd, Two(q, cmd) PROVE Two(one, cmd)
  <2>1. PICK i \in 1 .. n, k \in 1 .. n :
          /\ i < k
          /\ q[i].kind = "INFO" /\ q[i].cmd = cmd
          /\ q[k].kind = "OK" /\ q[k].cmd = cmd
          /\ \A j \in 1 .. n : j \notin {i, k} => q[j].kind \in Urc
    BY <1>6 DEF Two
  <2>2. \A j \in 1 .. n + 1 : j \notin {i, k} => one[j].kind \in Urc
    BY <1>1, <1>2, <2>1
  <2> QED
    BY <1>1, <1>3, <2>1, <2>2 DEF Two
<1> QED
  BY <1>4, <1>5, <1>6

\* The module answers when no answer is on the way.
LEMMA AnswerAdded ==
    ASSUME NEW q \in Seq(Lines), Quiet(q), NEW l \in Lines, NEW m \in Lines, NEW one, NEW two,
           one = q \o <<l>>, two = q \o <<l, m>>
    PROVE  /\ \A kinds : l.kind \in kinds => One(one, kinds, l.cmd)
           /\ \A kinds : l.kind \in Urc /\ m.kind \in kinds => One(two, kinds, m.cmd)
           /\ l.kind = "INFO" /\ m.kind = "OK" /\ l.cmd = m.cmd => Two(two, l.cmd)
<1> DEFINE n == Len(q)
<1>1. /\ n \in Nat /\ Len(one) = n + 1 /\ one[n + 1] = l /\ \A i \in 1 .. n : one[i] = q[i]
      /\ Len(two) = n + 2 /\ two[n + 1] = l /\ two[n + 2] = m
      /\ \A i \in 1 .. n : two[i] = q[i]
  BY AddedPlaces, LenProperties
<1>2. \A i \in 1 .. n : q[i].kind \in Urc
  BY DEF Quiet
<1>3. ASSUME NEW kinds, l.kind \in kinds PROVE One(one, kinds, l.cmd)
  <2>1. n + 1 \in 1 .. n + 1 /\ \A j \in 1 .. n + 1 : j # n + 1 => j \in 1 .. n
    BY <1>1
  <2>2. \A j \in 1 .. n + 1 : j # n + 1 => one[j].kind \in Urc
    BY <1>1, <1>2, <2>1
  <2> QED
    BY <1>1, <1>3, <2>1, <2>2 DEF One
<1>4. ASSUME NEW kinds, l.kind \in Urc, m.kind \in kinds PROVE One(two, kinds, m.cmd)
  <2>1. n + 2 \in 1 .. n + 2 /\ \A j \in 1 .. n + 2 : j # n + 2 => j \in 1 .. n \/ j = n + 1
    BY <1>1
  <2>2. \A j \in 1 .. n + 2 : j # n + 2 => two[j].kind \in Urc
    BY <1>1, <1>2, <1>4, <2>1
  <2> QED
    BY <1>1, <1>4, <2>1, <2>2 DEF One
<1>5. ASSUME l.kind = "INFO", m.kind = "OK", l.cmd = m.cmd PROVE Two(two, l.cmd)
  <2>1. /\ n + 1 \in 1 .. n + 2 /\ n + 2 \in 1 .. n + 2 /\ n + 1 < n + 2
        /\ \A j \in 1 .. n + 2 : j \notin {n + 1, n + 2} => j \in 1 .. n
    BY <1>1
  <2>2. \A j \in 1 .. n + 2 : j \notin {n + 1, n + 2} => two[j].kind \in Urc
    BY <1>1, <1>2, <2>1
  <2> DEFINE i == n + 1
             k == n + 2
  <2>3. /\ i \in 1 .. Len(two) /\ k \in 1 .. Len(two) /\ i < k
        /\ two[i].kind = "INFO" /\ two[i].cmd = l.cmd /\ two[k].kind = "OK" /\ two[k].cmd = l.cmd
        /\ \A j \in 1 .. Len(two) : j \notin {i, k} => two[j].kind \in Urc
    BY <1>1, <1>5, <2>1, <2>2
  <2> HIDE DEF i, k
  <2> QED
    BY <2>3 DEF Two
<1> QED
  BY <1>3, <1>4, <1>5

\* The parser reads the first line.
LEMMA LineRead ==
    ASSUME NEW q \in Seq(Lines), q # <<>>, NEW rest, rest = Tail(q), NEW h, h = Head(q)
    PROVE  /\ Quiet(q) => h.kind \in Urc /\ Quiet(rest)
           /\ \A kinds, cmd :
                 One(q, kinds, cmd) => \/ h.kind \in Urc /\ One(rest, kinds, cmd)
                                       \/ h.kind \in kinds /\ h.cmd = cmd /\ Quiet(rest)
           /\ \A cmd :
                 Two(q, cmd) => \/ h.kind \in Urc /\ Two(rest, cmd)
                                \/ h.kind = "INFO" /\ h.cmd = cmd /\ One(rest, {"OK"}, cmd)
<1> DEFINE n == Len(q)
           p == Len(rest)
<1>1. /\ n \in Nat \ {0} /\ p = n - 1 /\ h = q[1] /\ \A i \in 1 .. p : rest[i] = q[i + 1]
  BY ReadPlaces
<1>2. /\ 1 \in 1 .. n
      /\ \A i \in 1 .. p : i + 1 \in 1 .. n /\ i + 1 # 1
      /\ \A i \in 1 .. n : i # 1 => i - 1 \in 1 .. p /\ (i - 1) + 1 = i
  BY <1>1
<1>3. Quiet(q) => h.kind \in Urc /\ Quiet(rest)
  BY <1>1, <1>2 DEF Quiet
<1>4. ASSUME NEW kinds, NEW cmd, One(q, kinds, cmd)
      PROVE  \/ h.kind \in Urc /\ One(rest, kinds, cmd)
             \/ h.kind \in kinds /\ h.cmd = cmd /\ Quiet(rest)
  <2>1. PICK i \in 1 .. n : /\ q[i].kind \in kinds /\ q[i].cmd = cmd
                            /\ \A j \in 1 .. n : j # i => q[j].kind \in Urc
    BY <1>4 DEF One
  <2>2. CASE i = 1
    BY <1>1, <1>2, <2>1, <2>2 DEF Quiet
  <2>3. CASE i # 1
    <3> DEFINE k == i - 1
    <3>1. k \in 1 .. p /\ rest[k] = q[i]
      BY <1>1, <1>2, <2>3
    <3>2. \A j \in 1 .. p : j # k => j + 1 # i
      BY <1>1
    <3>3. \A j \in 1 .. p : j # k => rest[j].kind \in Urc
      BY <1>1, <1>2, <2>1, <3>2
    <3>4. h.kind \in Urc
      BY <1>1, <1>2, <2>1, <2>3
    <3> HIDE DEF k
    <3>5. One(rest, kinds, cmd)
      BY <2>1, <3>1, <3>3 DEF One
    <3> QED
      BY <3>4, <3>5
  <2> QED
    BY <2>2, <2>3
<1>5. ASSUME NEW cmd, Two(q, cmd)
      PROVE  \/ h.kind \in Urc /\ Two(rest, cmd)
             \/ h.kind = "INFO" /\ h.cmd = cmd /\ One(rest, {"OK"}, cmd)
  <2>1. PICK i \in 1 .. n, k \in 1 .. n :
          /\ i < k
          /\ q[i].kind = "INFO" /\ q[i].cmd = cmd
          /\ q[k].kind = "OK" /\ q[k].cmd = cmd
          /\ \A j \in 1 .. n : j \notin {i, k} => q[j].kind \in Urc
    BY <1>5 DEF Two
  <2> DEFINE a == i - 1
             b == k - 1
  <2>2. k # 1 /\ b \in 1 .. p /\ rest[b] = q[k]
    BY <1>1, <1>2, <2>1
  <2>3. \A j \in 1 .. p : (j # b => j + 1 # k) /\ (j # a => j + 1 # i)
    BY <1>1
  <2>4. CASE i = 1
    <3>1. \A j \in 1 .. p : j # b => rest[j].kind \in Urc
      BY <1>1, <1>2, <2>1, <2>3, <2>4
    <3> HIDE DEF b
    <3>2. One(rest, {"OK"}, cmd)
      BY <2>1, <2>2, <3>1 DEF One
    <3> QED
      BY <1>1, <2>1, <2>4, <3>2
  <2>5. CASE i # 1
    <3>1. a \in 1 .. p /\ rest[a] = q[i] /\ a < b
      BY <1>1, <1>2, <2>1, <2>5
    <3>2. \A j \in 1 .. p : j \notin {a, b} => rest[j].kind \in Urc
      BY <1>1, <1>2, <2>1, <2>3
    <3>3. h.kind \in Urc
      BY <1>1, <1>2, <2>1, <2>2, <2>5
    <3> HIDE DEF a, b
    <3>4. Two(rest, cmd)
      BY <2>1, <2>2, <3>1, <3>2 DEF Two
    <3> QED
      BY <3>3, <3>4
  <2> QED
    BY <2>4, <2>5
<1>6. \A kinds, cmd :
        One(q, kinds, cmd) => \/ h.kind \in Urc /\ One(rest, kinds, cmd)
                              \/ h.kind \in kinds /\ h.cmd = cmd /\ Quiet(rest)
  BY <1>4
<1>7. \A cmd :
        Two(q, cmd) => \/ h.kind \in Urc /\ Two(rest, cmd)
                       \/ h.kind = "INFO" /\ h.cmd = cmd /\ One(rest, {"OK"}, cmd)
  BY <1>5
<1> QED
  BY <1>3, <1>6, <1>7

\* Steps that leave the client and the caller alone leave its phase alone.
LEMMA PhaseKept ==
    ASSUME NEW u \in Callers, Phase(u), ex'[u] = ex[u], app'[u] = app[u],
           UNCHANGED <<resp, resp_status, resp_notice, socket_event, prompt, toDevice, toClient>>
    PROVE  Phase(u)'
<1>1. Asked(u) => Asked(u)'
  BY DEF Asked
<1>2. Answered(u) => Answered(u)'
  BY DEF Answered
<1>3. Ended(u) => Ended(u)'
  BY DEF Ended, NothingUnderway
<1>4. Confirms(u) => Confirms(u)'
  BY DEF Confirms, NothingUnderway
<1> QED
  BY <1>1, <1>2, <1>3, <1>4 DEF Phase

\* What is idle stays idle when nothing of a command is touched.
LEMMA IdleKept ==
    ASSUME Idle, UNCHANGED <<resp, resp_notice, socket_event, prompt, toDevice, toClient>>
    PROVE  Idle'
BY DEF Idle, NothingUnderway

\* Only the holder of the lock is in a phase.
LEMMA CallerPhase ==
    ASSUME TypeInv, CallInv, PhaseInv, NEW t \in Callers, CallerStep(t)
    PROVE  PhaseInv'
<1>1. /\ app \in [Callers -> AppState] /\ app[t] \in AppState
      /\ ex \in [Callers -> ExecCall] /\ ex[t] \in ExecCall
      /\ CallOK(t) /\ (Holding(t) <=> lock = t) /\ lock \in Callers \cup {None}
  BY DEF TypeInv, AppType, ClientTypeOK, ExecCall, CallInv
<1>2. NoExec.result = "none" /\ NoExec.pc = "idle"
  BY DEF NoExec
<1>3. \A u \in Callers \ {t} : app'[u] = app[u] /\ ex'[u] = ex[u]
  <2>1. CASE Local(t)
    BY <1>1, <2>1 DEF Local, clientVars
  <2>2. CASE Starts(t)
    BY <1>1, <2>2 DEF Starts, ExecStart, AppGoto
  <2>3. CASE Finishes(t)
    BY <1>1, <2>3 DEF Finishes, Forget
  <2>4. CASE SendData(t)
    BY <1>1, <2>4 DEF SendData, Forget, AppGoto
  <2>5. CASE SendSocketEvent(t)
    BY <1>1, <2>5 DEF SendSocketEvent, clientVars, AppGoto
  <2>6. CASE SendResult(t) \/ SendTimeout(t)
    BY <1>1, <2>6 DEF SendResult, SendTimeout, Forget, AppGoto
  <2> QED
    BY <2>1, <2>2, <2>3, <2>4, <2>5, <2>6, CallerSteps
<1>4. ASSUME lock # t, lock' = lock, stale' = stale, OwnEnd(t)',
             UNCHANGED <<resp, resp_status, resp_notice, socket_event, prompt, toDevice, toClient>>
      PROVE  PhaseInv'
  <2> SUFFICES ASSUME ~stale PROVE /\ lock' = None => Idle'
                                   /\ \A u \in Callers : lock' = u => Phase(u)'
                                   /\ \A u \in Callers : OwnEnd(u)'
    BY <1>4 DEF PhaseInv
  <2>1. lock' = None => Idle'
    BY <1>4, IdleKept DEF PhaseInv
  <2>2. \A u \in Callers : lock' = u => Phase(u)'
    BY <1>3, <1>4, PhaseKept DEF PhaseInv
  <2>3. \A u \in Callers : OwnEnd(u)'
    BY <1>3, <1>4 DEF PhaseInv, OwnEnd
  <2> QED
    BY <2>1, <2>2, <2>3
<1>5. CASE Local(t)
  <2>1. ex' = ex /\ app[t].pc \notin InCall
    BY <1>5 DEF Local, clientVars
  <2>2. lock # t
    BY <1>1, <1>2, <2>1 DEF CallOK, Holding, InCall, Calling, Sending
  <2>3. ex[t].result = "none"
    BY <1>1, <1>2, <2>1 DEF CallOK
  <2>4. OwnEnd(t)'
    BY <2>1, <2>3 DEF OwnEnd
  <2> QED
    BY <1>4, <1>5, <2>2, <2>4 DEF Local, clientVars
<1>6. CASE Finishes(t)
  <2>1. lock # t
    BY <1>1, <1>2, <1>6 DEF Finishes, CallOK, Holding, Done, InCall, Calling, Confirming, Sending
  <2>2. ex'[t] = NoExec
    BY <1>1, <1>6 DEF Finishes, Forget
  <2>3. OwnEnd(t)'
    BY <1>2, <2>2 DEF OwnEnd
  <2> QED
    BY <1>4, <1>6, <2>1, <2>3 DEF Finishes, restOfClient
<1>7. CASE Starts(t)
  <2>1. PICK label \in Calling, name \in {"START", "CLOSE", "SEND"} :
          /\ label = "send" <=> name = "SEND"
          /\ ExecStart(t, IF label = "send" THEN 2 ELSE 0, Cmd(name, app[t].slot))
          /\ AppGoto(t, label)
    BY <1>7 DEF Starts
  <2>2. UNCHANGED <<socket_event, prompt>> /\ app[t].pc \notin InCall
    BY <1>7 DEF Starts
  <2> DEFINE n == IF label = "send" THEN 2 ELSE 0
             r == [NoExec EXCEPT !.pc = "wait", !.cmd = sent + 1, !.line_num = n]
             c == [Cmd(name, app[t].slot) EXCEPT !.cmd = sent + 1]
  <2>3. /\ ex' = [ex EXCEPT ![t] = r] /\ toDevice' = Append(toDevice, c)
        /\ lock' = t /\ resp' = t /\ lock \in {None, t}
        /\ UNCHANGED <<resp_notice, toClient, stale>>
    BY <2>1 DEF ExecStart, LockFree
  <2>4. lock = None
    BY <1>1, <1>2, <2>2, <2>3 DEF CallOK, Holding, InCall, Calling, Sending
  <2>5. sent + 1 \in 0 .. MaxCmds /\ app[t].slot \in Slots
    BY <1>1, <2>1, CmdsAssumption DEF ExecStart, TypeInv, ClientTypeOK, AppState
  <2>6. c \in Commands /\ c.cmd = sent + 1 /\ c.name = name
    BY <2>5 DEF Cmd, Commands, Names
  <2>7. /\ r.pc = "wait" /\ r.cmd = sent + 1 /\ r.line_num = n /\ r.line_counts = 0
        /\ r.result = "none"
    BY DEF NoExec
  <2>8. n = 2 <=> name = "SEND"
    BY <2>1
  <2> HIDE DEF n, r, c
  <2>9. ex'[t] = r
    BY <1>1, <2>3
  <2>10. \A u \in Callers : OwnEnd(u)' \/ stale
    BY <1>3, <2>7, <2>9 DEF PhaseInv, OwnEnd
  <2>11. ~stale => Asked(t)'
    <3> SUFFICES ASSUME ~stale PROVE Asked(t)'
      OBVIOUS
    <3>1. Idle
      BY <2>4 DEF PhaseInv
    <3>2. toDevice' = <<c>>
      BY <2>3, <3>1 DEF Idle, NothingUnderway
    <3> QED
      BY <2>1, <2>2, <2>3, <2>6, <2>7, <2>8, <2>9, <3>1, <3>2 DEF Asked, Idle, NothingUnderway
  <2> QED
    BY <2>3, <2>10, <2>11, CallersAssumption DEF PhaseInv, Phase
<1>8. CASE SendTimeout(t)
  BY <1>8 DEF SendTimeout, PhaseInv
<1>9. ASSUME app[t].pc \in Sending, app[t].pc = "send" => Done(t), ~stale
      PROVE  /\ lock = t /\ ex[t].line_num = 2 /\ ex[t].pc = "done"
             /\ \/ Ended(t) /\ app[t].pc = "send"
                \/ Confirms(t) /\ app[t].pc \in Confirming
  <2>1. lock = t /\ ex[t].line_num = 2 /\ ex[t].pc = "done"
    BY <1>1, <1>9 DEF Holding, CallOK, Done, InCall, Calling, Sending
  <2>2. Ended(t) \/ Confirms(t)
    BY <1>9, <2>1 DEF PhaseInv, Phase, Asked, Answered
  <2>3. CASE Ended(t)
    BY <2>1, <2>2, <2>3 DEF Ended
  <2>4. CASE Confirms(t)
    BY <2>1, <2>4 DEF Confirms, Confirming
  <2> QED
    BY <2>1, <2>2, <2>3, <2>4
<1>10. CASE SendData(t)
  <2> SUFFICES ASSUME ~stale PROVE PhaseInv'
    BY <1>10 DEF SendData, PhaseInv
  <2>1. app[t].pc = "send" /\ Done(t)
    BY <1>10 DEF SendData
  <2>2. lock = t /\ ex[t].line_num = 2 /\ ex[t].pc = "done" /\ Ended(t)
    BY <1>9, <2>1 DEF Sending, Confirming
  <2>3. /\ resp = None /\ resp_notice = 0 /\ socket_event = {} /\ NothingUnderway
        /\ (prompt # None <=> ex[t].result = "OK")
    BY <2>2 DEF Ended
  <2>4. UNCHANGED <<resp, resp_notice, socket_event, prompt, toClient, stale>>
    BY <1>10 DEF SendData
  <2>5. CASE ex[t].result = "OK"
    <3>1. PICK d : toDevice' = Append(toDevice, d)
      BY <1>10, <2>5 DEF SendData
    <3>2. toDevice' = <<d>>
      BY <2>3, <3>1 DEF NothingUnderway
    <3>3. Len(toDevice') = 1
      BY <3>2
    <3>4. lock' = lock /\ ex' = ex /\ AppGoto(t, "send_socket")
      BY <1>10, <2>5 DEF SendData
    <3>5. app'[t].pc = "send_socket"
      BY <1>1, <3>4 DEF AppGoto, AppState
    <3>6. Confirms(t)'
      BY <2>3, <2>4, <2>5, <3>3, <3>5 DEF Confirms, NothingUnderway
    <3>7. \A u \in Callers : OwnEnd(u)'
      BY <3>4 DEF PhaseInv, OwnEnd
    <3> QED
      BY <2>2, <3>4, <3>6, <3>7, CallersAssumption DEF PhaseInv, Phase
  <2>6. CASE ex[t].result # "OK"
    <3>1. lock' = None /\ Forget(t) /\ UNCHANGED toDevice
      BY <1>10, <2>6 DEF SendData
    <3>2. ex'[t] = NoExec
      BY <1>1, <3>1 DEF Forget
    <3>3. Idle'
      BY <2>3, <2>4, <2>6, <3>1 DEF Idle, NothingUnderway
    <3>4. \A u \in Callers : OwnEnd(u)'
      BY <1>2, <1>3, <3>2 DEF PhaseInv, OwnEnd
    <3> QED
      BY <3>1, <3>3, <3>4, CallersAssumption DEF PhaseInv
  <2> QED
    BY <2>5, <2>6
<1>11. CASE SendSocketEvent(t)
  <2> SUFFICES ASSUME ~stale PROVE PhaseInv'
    BY <1>11 DEF SendSocketEvent, clientVars, PhaseInv
  <2>1. /\ app[t].pc = "send_socket" /\ AppGoto(t, "send_result")
        /\ socket_event \cap SocketBits(app[t].slot) # {}
        /\ socket_event' = socket_event \ SocketBits(app[t].slot)
        /\ UNCHANGED <<clientVars, prompt>>
    BY <1>11 DEF SendSocketEvent, TakeEvent
  <2>2. lock = t /\ Confirms(t)
    BY <1>9, <2>1 DEF Sending, Confirming
  <2>3. /\ resp = None /\ resp_notice = 0 /\ prompt = None /\ NothingUnderway
        /\ socket_event \subseteq SocketBits(app[t].slot) \cup ResultBits
    BY <2>1, <2>2 DEF Confirms
  <2>4. app'[t].pc = "send_result"
    BY <1>1, <2>1 DEF AppGoto, AppState
  <2>5. socket_event' \subseteq ResultBits
    BY <2>1, <2>3
  <2>6. Confirms(t)'
    BY <2>1, <2>3, <2>4, <2>5 DEF Confirms, NothingUnderway, clientVars
  <2>7. \A u \in Callers : OwnEnd(u)'
    BY <2>1 DEF PhaseInv, OwnEnd, clientVars
  <2> QED
    BY <2>1, <2>2, <2>6, <2>7, CallersAssumption DEF PhaseInv, Phase, clientVars
<1>12. CASE SendResult(t)
  <2> SUFFICES ASSUME ~stale PROVE PhaseInv'
    BY <1>12 DEF SendResult, PhaseInv
  <2>1. /\ app[t].pc = "send_result" /\ Forget(t) /\ lock' = None
        /\ socket_event' = socket_event \ ResultBits
        /\ UNCHANGED <<resp, resp_notice, toDevice, toClient, stale, prompt>>
    BY <1>12 DEF SendResult, TakeEvent
  <2>2. Confirms(t)
    BY <1>9, <2>1 DEF Sending, Confirming
  <2>3. /\ resp = None /\ resp_notice = 0 /\ prompt = None /\ NothingUnderway
        /\ socket_event \subseteq ResultBits
    BY <2>1, <2>2 DEF Confirms
  <2>4. socket_event' = {}
    BY <2>1, <2>3
  <2>5. Idle'
    BY <2>1, <2>3, <2>4 DEF Idle, NothingUnderway
  <2>6. ex'[t] = NoExec
    BY <1>1, <2>1 DEF Forget
  <2>7. \A u \in Callers : OwnEnd(u)'
    BY <1>2, <1>3, <2>6 DEF PhaseInv, OwnEnd
  <2> QED
    BY <2>1, <2>5, <2>7, CallersAssumption DEF PhaseInv
<1> QED
  BY <1>5, <1>6, <1>7, <1>8, <1>10, <1>11, <1>12, CallerSteps

\* The steps of at_obj_exec_cmd move the holder from phase to phase.
LEMMA ExecPhase ==
    ASSUME TypeInv, CallInv, PhaseInv, NEW t \in Callers, ExecStep(t)
    PROVE  PhaseInv'
<1>1. /\ ex \in [Callers -> ExecCall] /\ ex[t] \in ExecCall
      /\ CallOK(t) /\ (Holding(t) <=> lock = t)
      /\ UNCHANGED <<app, socket_event, prompt>>
  BY DEF TypeInv, ClientTypeOK, ExecCall, CallInv, ExecStep, socketVars
<1>2. NoExec.pc = "idle"
  BY DEF NoExec
<1>3. CASE ExecTimeout(t)
  BY <1>3 DEF ExecTimeout, PhaseInv
<1>4. CASE ExecWake(t)
  <2> SUFFICES ASSUME ~stale PROVE PhaseInv'
    BY <1>4 DEF ExecWake, PhaseInv
  <2>1. /\ ex[t].pc = "wait" /\ resp_notice > 0 /\ resp_notice' = resp_notice - 1
        /\ UNCHANGED <<lock, resp, toDevice, toClient, stale>>
    BY <1>4 DEF ExecWake
  <2>2. lock = t
    BY <1>1, <2>1 DEF Holding
  <2>3. app[t].pc \in Calling
    BY <1>1, <1>2, <2>1 DEF CallOK, InCall
  <2>4. Ended(t)
    BY <2>1, <2>2, <2>3 DEF PhaseInv, Phase, Asked, Answered, Confirms, Calling
  <2>5. /\ resp = None /\ socket_event = {} /\ NothingUnderway /\ ex[t].end = ex[t].cmd
        /\ resp_notice = 1 /\ resp_status \in {"OK", "ERROR"}
        /\ prompt # None <=> (ex[t].line_num = 2 /\ resp_status = "OK")
    BY <2>1, <2>4 DEF Ended
  <2>6. PICK result \in {"OK", "ERROR"} :
          /\ ex' = [ex EXCEPT ![t].pc = "exit", ![t].result = result]
          /\ result = "OK" <=> resp_status = "OK"
    BY <1>4 DEF ExecWake
  <2>7. /\ ex'[t].pc = "exit" /\ ex'[t].result = result /\ ex'[t].end = ex[t].end
        /\ ex'[t].cmd = ex[t].cmd /\ ex'[t].line_num = ex[t].line_num
        /\ \A u \in Callers \ {t} : ex'[u] = ex[u]
    BY <1>1, <2>6 DEF ExecCall
  <2>8. Ended(t)'
    BY <1>1, <2>1, <2>5, <2>6, <2>7 DEF Ended, NothingUnderway
  <2>9. \A u \in Callers : OwnEnd(u)'
    BY <2>5, <2>7 DEF PhaseInv, OwnEnd
  <2> QED
    BY <2>1, <2>2, <2>8, <2>9, CallersAssumption DEF PhaseInv, Phase
<1>5. CASE ExecExit(t, app[t].pc = "send")
  <2> SUFFICES ASSUME ~stale PROVE PhaseInv'
    BY <1>5 DEF ExecExit, PhaseInv
  <2>1. /\ ex[t].pc = "exit" /\ resp' = None
        /\ lock' = IF app[t].pc = "send" THEN t ELSE None
        /\ ex' = [ex EXCEPT ![t] = [ex[t] EXCEPT !.pc = "done"]]
        /\ UNCHANGED <<resp_notice, toDevice, toClient, stale>>
    BY <1>1, <1>5 DEF ExecExit, RespAtExit
  <2>2. lock = t
    BY <1>1, <2>1 DEF Holding
  <2>3. app[t].pc \in Calling
    BY <1>1, <1>2, <2>1 DEF CallOK, InCall
  <2>4. Ended(t)
    BY <2>1, <2>2, <2>3 DEF PhaseInv, Phase, Asked, Answered, Confirms, Calling
  <2>5. /\ socket_event = {} /\ NothingUnderway /\ ex[t].end = ex[t].cmd
        /\ resp_notice = 0 /\ ex[t].result \in {"OK", "ERROR"}
        /\ prompt # None <=> (ex[t].line_num = 2 /\ ex[t].result = "OK")
    BY <2>1, <2>4 DEF Ended
  <2>6. /\ ex'[t].pc = "done" /\ ex'[t].result = ex[t].result /\ ex'[t].end = ex[t].end
        /\ ex'[t].cmd = ex[t].cmd /\ ex'[t].line_num = ex[t].line_num
        /\ \A u \in Callers \ {t} : ex'[u] = ex[u]
    BY <1>1, <2>1 DEF ExecCall
  <2>7. \A u \in Callers : OwnEnd(u)'
    BY <2>5, <2>6 DEF PhaseInv, OwnEnd
  <2>8. CASE app[t].pc = "send"
    <3>1. Ended(t)'
      BY <1>1, <2>1, <2>5, <2>6, <2>8 DEF Ended, NothingUnderway
    <3> QED
      BY <2>1, <2>7, <2>8, <3>1, CallersAssumption DEF PhaseInv, Phase
  <2>9. CASE app[t].pc # "send"
    <3>1. ex[t].line_num = 0
      BY <1>1, <2>3, <2>9 DEF CallOK, InCall, Sending, Calling, Confirming
    <3>2. Idle'
      BY <1>1, <2>1, <2>5, <3>1 DEF Idle, NothingUnderway
    <3> QED
      BY <2>1, <2>7, <2>9, <3>2, CallersAssumption DEF PhaseInv
  <2> QED
    BY <2>8, <2>9
<1> QED
  BY <1>3, <1>4, <1>5 DEF ExecStep

\* Lines the module sends on its own pass through every phase.
LEMMA UrcPhase ==
    ASSUME NEW t \in Callers, Phase(t), ex'[t] = ex[t], app'[t] = app[t],
           UNCHANGED <<resp, resp_status, resp_notice, socket_event, prompt, toDevice>>,
           Quiet(toClient) => Quiet(toClient'),
           \A kinds, cmd : One(toClient, kinds, cmd) => One(toClient', kinds, cmd),
           \A cmd : Two(toClient, cmd) => Two(toClient', cmd)
    PROVE  Phase(t)'
<1>1. Asked(t) => Asked(t)'
  BY DEF Asked
<1>2. Answered(t) => Answered(t)'
  BY DEF Answered
<1>3. Ended(t) => Ended(t)'
  BY DEF Ended, NothingUnderway
<1>4. Confirms(t) => Confirms(t)'
  BY DEF Confirms, NothingUnderway
<1> QED
  BY <1>1, <1>2, <1>3, <1>4 DEF Phase

\* Lines of the servers do not belong to a command.
LEMMA ServerPhase ==
    ASSUME TypeInv, PhaseInv, NEW s \in Slots, ServerSends(s) \/ ServerCloses(s)
    PROVE  PhaseInv'
<1>1. /\ UNCHANGED <<restOfClient, ex, toDevice, socket_event, app, prompt>>
      /\ toClient \in Seq(Lines) /\ link[s] \in 0 .. MaxCmds /\ link[s] # 0
  BY DEF ServerSends, ServerCloses, TypeInv, LineType, DeviceType
<1>2. PICK l \in Lines : l.kind \in Urc /\ toClient' = toClient \o <<l>>
  <2>1. Line("+IPD", s, link[s]) \in Lines /\ Line("CLOSED", s, link[s]) \in Lines
    BY <1>1, LineTypes DEF Kinds
  <2>2. Line("+IPD", s, link[s]).kind \in Urc /\ Line("CLOSED", s, link[s]).kind \in Urc
    BY DEF Line, Urc
  <2> QED
    BY <2>1, <2>2 DEF ServerSends, ServerCloses, Answer
<1>3. /\ Quiet(toClient) => Quiet(toClient')
      /\ \A kinds, cmd : One(toClient, kinds, cmd) => One(toClient', kinds, cmd)
      /\ \A cmd : Two(toClient, cmd) => Two(toClient', cmd)
  BY <1>1, <1>2, UrcAdded
<1> SUFFICES ASSUME ~stale PROVE PhaseInv'
  BY <1>1 DEF PhaseInv, restOfClient
<1>4. lock' = None => Idle'
  BY <1>1, <1>3 DEF PhaseInv, Idle, NothingUnderway, restOfClient
<1>5. \A t \in Callers : lock' = t => Phase(t)'
  BY <1>1, <1>3, UrcPhase DEF PhaseInv, restOfClient
<1>6. \A t \in Callers : OwnEnd(t)'
  BY <1>1 DEF PhaseInv, OwnEnd
<1> QED
  BY <1>4, <1>5, <1>6 DEF PhaseInv

\* The module takes a command and answers it.
LEMMA ModulePhase ==
    ASSUME TypeInv, PhaseInv, Module
    PROVE  PhaseInv'
<1> DEFINE c == Head(toDevice)
           ok == Line("OK", c.slot, c.cmd)
           error == Line("ERROR", c.slot, c.cmd)
           info == Line("INFO", c.slot, c.cmd)
           closed == Line("CLOSED", c.slot, link[c.slot])
           confirm(result) == Line(result, prompt, c.cmd)
<1>1. /\ toDevice \in Seq(Commands) /\ toDevice # <<>> /\ toDevice' = Tail(toDevice)
      /\ UNCHANGED <<restOfClient, ex, app, socket_event>> /\ toClient \in Seq(Lines)
  BY DEF Module, TypeInv, LineType
<1>2. c \in Commands
  BY <1>1, HeadTailProperties
<1>3. /\ c.slot \in Slots /\ c.cmd \in 0 .. MaxCmds /\ link[c.slot] \in 0 .. MaxCmds
      /\ prompt \in Slots \cup {None} /\ c.slot # None
  BY <1>2, NoneAssumption DEF Commands, TypeInv, DeviceType
<1>4. ok \in Lines /\ error \in Lines /\ info \in Lines /\ closed \in Lines
  BY <1>3, LineTypes DEF Kinds
<1>5. prompt # None => \A result \in SendResults : confirm(result) \in Lines
  BY <1>3, LineTypes DEF Kinds, SendResults
<1>6. /\ ok.kind = "OK" /\ ok.cmd = c.cmd /\ error.kind = "ERROR" /\ error.cmd = c.cmd
      /\ info.kind = "INFO" /\ info.cmd = c.cmd /\ closed.kind \in Urc
      /\ \A result : confirm(result).kind = result /\ confirm(result).cmd = c.cmd
  BY DEF Line, Urc
<1>7. \/ /\ prompt # None
         /\ \E result \in SendResults : toClient' = toClient \o <<confirm(result)>>
         /\ prompt' = None
      \/ /\ prompt = None /\ c.name = "START"
         /\ toClient' = toClient \o <<ok>>
         /\ UNCHANGED prompt
      \/ /\ prompt = None /\ c.name = "CLOSE"
         /\ toClient' = toClient \o <<closed, ok>>
         /\ UNCHANGED prompt
      \/ /\ prompt = None /\ c.name = "SEND"
         /\ toClient' = toClient \o <<info, ok>>
         /\ prompt' = c.slot
      \/ /\ prompt = None /\ c.name \in {"START", "CLOSE", "SEND"}
         /\ toClient' = toClient \o <<error>>
         /\ UNCHANGED prompt
      \/ prompt = None /\ c.name = "DATA"
  BY DEF Module, Answer
<1> SUFFICES ASSUME ~stale PROVE PhaseInv'
  BY <1>1 DEF PhaseInv, restOfClient
<1>8. \A t \in Callers : OwnEnd(t)'
  BY <1>1 DEF PhaseInv, OwnEnd
<1>9. lock # None
  BY <1>1 DEF PhaseInv, Idle, NothingUnderway
<1>10. ASSUME NEW t \in Callers, lock = t PROVE Phase(t)'
  <2>1. Asked(t) \/ Confirms(t)
    BY <1>1, <1>10 DEF PhaseInv, Phase, Answered, Ended, NothingUnderway
  <2>2. CASE Asked(t)
    <3>1. PICK d \in Commands :
            /\ toDevice = <<d>>
            /\ d.cmd = ex[t].cmd
            /\ d.name # "DATA"
            /\ d.name = "SEND" <=> ex[t].line_num = 2
      BY <2>2 DEF Asked
    <3>2. d = c /\ toDevice' = <<>>
      BY <1>1, <3>1
    <3>3. /\ ex[t].pc = "wait" /\ resp = t /\ resp_notice = 0 /\ ex[t].line_counts = 0
          /\ socket_event = {} /\ prompt = None /\ Quiet(toClient)
      BY <2>2 DEF Asked
    <3> HIDE DEF c, ok, error, info, closed, confirm
    <3>4. ex[t].line_num \in {0, 2}
      BY DEF TypeInv, ClientTypeOK
    <3>5. CASE c.name = "START" /\ toClient' = toClient \o <<ok>> /\ UNCHANGED prompt
      <4>1. One(toClient', {"OK", "ERROR"}, c.cmd)
        BY <1>1, <1>4, <1>6, <3>3, <3>5, AnswerAdded
      <4> QED
        BY <1>1, <3>1, <3>2, <3>3, <3>4, <3>5, <4>1 DEF Phase, Answered, restOfClient
    <3>6. CASE c.name = "CLOSE" /\ toClient' = toClient \o <<closed, ok>> /\ UNCHANGED prompt
      <4>1. One(toClient', {"OK", "ERROR"}, c.cmd)
        BY <1>1, <1>4, <1>6, <3>3, <3>6, AnswerAdded
      <4> QED
        BY <1>1, <3>1, <3>2, <3>3, <3>4, <3>6, <4>1 DEF Phase, Answered, restOfClient
    <3>7. CASE c.name = "SEND" /\ toClient' = toClient \o <<info, ok>> /\ prompt' = c.slot
      <4>1. Two(toClient', c.cmd)
        BY <1>1, <1>4, <1>6, <3>3, <3>7, AnswerAdded
      <4> QED
        BY <1>1, <1>3, <3>1, <3>2, <3>3, <3>7, <4>1 DEF Phase, Answered, restOfClient
    <3>8. CASE toClient' = toClient \o <<error>> /\ UNCHANGED prompt
      <4>1. One(toClient', {"OK", "ERROR"}, c.cmd) /\ One(toClient', {"ERROR"}, c.cmd)
        BY <1>1, <1>4, <1>6, <3>3, <3>8, AnswerAdded
      <4> QED
        BY <1>1, <3>1, <3>2, <3>3, <3>4, <3>8, <4>1 DEF Phase, Answered, restOfClient
    <3> QED
      BY <1>7, <3>1, <3>2, <3>3, <3>5, <3>6, <3>7, <3>8
  <2>3. CASE Confirms(t)
    <3>1. /\ resp = None /\ resp_notice = 0 /\ app[t].pc = "send_socket"
          /\ socket_event = {} /\ prompt # None /\ Len(toDevice) = 1 /\ Quiet(toClient)
      BY <1>1, <2>3 DEF Confirms, NothingUnderway
    <3> HIDE DEF c, ok, error, info, closed, confirm
    <3>2. PICK result \in SendResults :
            toClient' = toClient \o <<confirm(result)>> /\ prompt' = None
      BY <1>7, <3>1
    <3>3. One(toClient', SendResults, c.cmd)
      <4>1. confirm(result) \in Lines /\ confirm(result).kind \in SendResults
        BY <1>5, <1>6, <3>1
      <4> QED
        BY <1>1, <1>6, <3>1, <3>2, <4>1, AnswerAdded
    <3>4. toDevice' = <<>>
      <4>1. Tail(toDevice) \in Seq(Commands) /\ Len(Tail(toDevice)) = 0
        BY <1>1, <3>1, HeadTailProperties
      <4> QED
        BY <1>1, <4>1, EmptySeq
    <3> QED
      BY <1>1, <1>3, <3>1, <3>2, <3>3, <3>4 DEF Phase, Confirms, restOfClient
  <2> QED
    BY <2>1, <2>2, <2>3
<1> QED
  BY <1>1, <1>8, <1>9, <1>10 DEF PhaseInv, restOfClient

\* The line of an answer that the parser reads belongs to the call that waits.
LEMMA ResponsePhase ==
    ASSUME TypeInv, CallInv, PhaseInv, ~stale, NEW h \in Lines, NEW t \in Callers, lock = t,
           toClient # <<>>, h = Head(toClient), toClient' = Tail(toClient),
           h.kind \in {"OK", "ERROR", "INFO"}, ParseResponse(h),
           UNCHANGED <<socket_event, toDevice, app, prompt>>
    PROVE  /\ Phase(t)' /\ OwnEnd(t)'
           /\ \A u \in Callers \ {t} : ex'[u] = ex[u]
<1>1. toClient \in Seq(Lines) /\ h.kind \notin Urc /\ h.kind \notin SendResults
  BY DEF TypeInv, LineType, Urc, SendResults
<1>2. /\ Quiet(toClient) => h.kind \in Urc /\ Quiet(toClient')
      /\ \A kinds, cmd : One(toClient, kinds, cmd) =>
            \/ h.kind \in Urc /\ One(toClient', kinds, cmd)
            \/ h.kind \in kinds /\ h.cmd = cmd /\ Quiet(toClient')
      /\ \A cmd : Two(toClient, cmd) =>
            \/ h.kind \in Urc /\ Two(toClient', cmd)
            \/ h.kind = "INFO" /\ h.cmd = cmd /\ One(toClient', {"OK"}, cmd)
  BY <1>1, LineRead
<1>3. Answered(t)
  BY <1>1, <1>2 DEF PhaseInv, Phase, Asked, Ended, Confirms, NothingUnderway
<1>4. /\ ex[t].pc = "wait" /\ resp = t /\ resp_notice = 0
      /\ socket_event = {} /\ toDevice = <<>> /\ resp # None
  BY <1>3, CallersAssumption DEF Answered
<1>5. ex \in [Callers -> ExecCall] /\ ex[t] \in ExecCall
  BY DEF TypeInv, ClientTypeOK, ExecCall
<1> DEFINE end == EndStatus(ex[t], h)
<1>6. /\ end = "none" => /\ ex' = [ex EXCEPT ![t].line_counts = @ + 1]
                          /\ UNCHANGED <<resp, resp_status, resp_notice>>
      /\ end # "none" => /\ ex' = [ex EXCEPT ![t].line_counts = @ + 1, ![t].end = h.cmd]
                          /\ resp_status' = end
                          /\ resp' = None
                          /\ resp_notice' = resp_notice + 1
  <2> HIDE DEF end
  <2>1. end = EndStatus(ex[resp], h)
    BY <1>4 DEF end
  <2> QED
    BY <1>4, <2>1, Zenon DEF ParseResponse
<1>7. ASSUME end \in {"OK", "ERROR"}, h.cmd = ex[t].cmd, Quiet(toClient'),
             prompt # None <=> (ex[t].line_num = 2 /\ end = "OK")
      PROVE  /\ Phase(t)' /\ OwnEnd(t)'
             /\ \A u \in Callers \ {t} : ex'[u] = ex[u]
  <2>1. /\ ex' = [ex EXCEPT ![t].line_counts = @ + 1, ![t].end = h.cmd]
        /\ resp_status' = end /\ resp' = None /\ resp_notice' = 1
    BY <1>4, <1>6, <1>7
  <2>2. /\ ex'[t].pc = "wait" /\ ex'[t].end = h.cmd /\ ex'[t].cmd = ex[t].cmd
        /\ ex'[t].line_num = ex[t].line_num
        /\ \A u \in Callers \ {t} : ex'[u] = ex[u]
    BY <1>4, <1>5, <2>1 DEF ExecCall
  <2> HIDE DEF end
  <2>3. Ended(t)'
    BY <1>4, <1>7, <2>1, <2>2 DEF Ended, NothingUnderway
  <2>4. OwnEnd(t)'
    BY <1>7, <2>2 DEF OwnEnd
  <2> QED
    BY <2>2, <2>3, <2>4 DEF Phase
<1>8. CASE /\ ex[t].line_num = 0 /\ prompt = None
           /\ One(toClient, {"OK", "ERROR"}, ex[t].cmd)
  <2>1. h.kind \in {"OK", "ERROR"} /\ h.cmd = ex[t].cmd /\ Quiet(toClient')
    BY <1>1, <1>2, <1>8
  <2>2. end \in {"OK", "ERROR"}
    BY <1>8, <2>1 DEF EndStatus
  <2> QED
    BY <1>7, <1>8, <2>1, <2>2
<1>9. CASE /\ ex[t].line_num = 2 /\ ex[t].line_counts = 0 /\ prompt = None
           /\ One(toClient, {"ERROR"}, ex[t].cmd)
  <2>1. h.kind = "ERROR" /\ h.cmd = ex[t].cmd /\ Quiet(toClient')
    BY <1>1, <1>2, <1>9
  <2>2. end = "ERROR"
    BY <1>9, <2>1 DEF EndStatus
  <2> QED
    BY <1>7, <1>9, <2>1, <2>2
<1>10. CASE /\ ex[t].line_num = 2 /\ ex[t].line_counts = 0 /\ prompt # None
            /\ Two(toClient, ex[t].cmd)
  <2>1. h.kind = "INFO" /\ h.cmd = ex[t].cmd /\ One(toClient', {"OK"}, ex[t].cmd)
    BY <1>1, <1>2, <1>10
  <2>2. end = "none"
    BY <1>10, <2>1 DEF EndStatus
  <2>3. ex' = [ex EXCEPT ![t].line_counts = @ + 1] /\ UNCHANGED <<resp, resp_status, resp_notice>>
    BY <1>6, <2>2
  <2>4. /\ ex'[t].pc = "wait" /\ ex'[t].end = ex[t].end /\ ex'[t].cmd = ex[t].cmd
        /\ ex'[t].line_num = 2 /\ ex'[t].line_counts = 1 /\ ex'[t].result = ex[t].result
        /\ \A u \in Callers \ {t} : ex'[u] = ex[u]
    BY <1>4, <1>5, <1>10, <2>3 DEF ExecCall
  <2>5. Answered(t)'
    BY <1>4, <1>10, <2>1, <2>3, <2>4 DEF Answered
  <2>6. OwnEnd(t)'
    BY <2>4 DEF PhaseInv, OwnEnd
  <2> QED
    BY <2>4, <2>5, <2>6 DEF Phase
<1>11. CASE /\ ex[t].line_num = 2 /\ ex[t].line_counts = 1 /\ prompt # None
            /\ One(toClient, {"OK"}, ex[t].cmd)
  <2>1. h.kind = "OK" /\ h.cmd = ex[t].cmd /\ Quiet(toClient')
    BY <1>1, <1>2, <1>11
  <2>2. end = "OK"
    BY <1>11, <2>1 DEF EndStatus
  <2> QED
    BY <1>7, <1>11, <2>1, <2>2
<1> QED
  BY <1>3, <1>8, <1>9, <1>10, <1>11 DEF Answered

\* The parser takes a line of the command that is under way.
LEMMA ParsePhase ==
    ASSUME TypeInv, CallInv, SendingInv, PhaseInv, Parse
    PROVE  PhaseInv'
<1> DEFINE h == Head(toClient)
<1>1. /\ toClient \in Seq(Lines) /\ toClient # <<>> /\ toClient' = Tail(toClient)
      /\ UNCHANGED <<lock, toDevice, stale, app, prompt>>
  BY DEF Parse, TypeInv, LineType
<1>2. h \in Lines
  BY <1>1, HeadTailProperties
<1>3. /\ Quiet(toClient) => h.kind \in Urc /\ Quiet(toClient')
      /\ \A kinds, cmd : One(toClient, kinds, cmd) =>
            \/ h.kind \in Urc /\ One(toClient', kinds, cmd)
            \/ h.kind \in kinds /\ h.cmd = cmd /\ Quiet(toClient')
      /\ \A cmd : Two(toClient, cmd) =>
            \/ h.kind \in Urc /\ Two(toClient', cmd)
            \/ h.kind = "INFO" /\ h.cmd = cmd /\ One(toClient', {"OK"}, cmd)
  BY <1>1, LineRead
<1>4. \/ /\ h.kind \in {"OK", "ERROR", "INFO"}
         /\ ParseResponse(h)
         /\ UNCHANGED socket_event
      \/ /\ h.kind \in Urc
         /\ UNCHANGED <<resp, resp_status, resp_notice, ex, socket_event>>
      \/ /\ h.kind \in SendResults
         /\ ParseSend(h)
         /\ UNCHANGED <<resp, resp_status, resp_notice, ex>>
  BY DEF Parse, ParseData, ParseClosed, Urc
<1> HIDE DEF h
<1> SUFFICES ASSUME ~stale PROVE PhaseInv'
  BY <1>1 DEF PhaseInv
<1>5. lock \in Callers \cup {None} /\ resp \in Callers \cup {None}
  BY DEF TypeInv, ClientTypeOK
<1>6. CASE /\ h.kind \in Urc
           /\ UNCHANGED <<resp, resp_status, resp_notice, ex, socket_event>>
  <2>1. /\ Quiet(toClient) => Quiet(toClient')
        /\ \A kinds, cmd : kinds \cap Urc = {} /\ One(toClient, kinds, cmd) =>
              One(toClient', kinds, cmd)
        /\ \A cmd : Two(toClient, cmd) => Two(toClient', cmd)
    BY <1>3, <1>6 DEF Urc
  <2>2. lock' = None => Idle'
    BY <1>1, <1>6, <2>1 DEF PhaseInv, Idle, NothingUnderway
  <2>3. ASSUME NEW t \in Callers, lock' = t PROVE Phase(t)'
    <3>1. Phase(t)
      BY <1>1, <2>3 DEF PhaseInv
    <3>2. /\ {"OK", "ERROR"} \cap Urc = {} /\ {"OK"} \cap Urc = {} /\ {"ERROR"} \cap Urc = {}
          /\ SendResults \cap Urc = {}
      BY DEF Urc, SendResults
    <3>3. Asked(t) => Asked(t)'
      BY <1>1, <1>6, <2>1 DEF Asked
    <3>4. Answered(t) => Answered(t)'
      BY <1>1, <1>6, <2>1, <3>2 DEF Answered
    <3>5. Ended(t) => Ended(t)'
      BY <1>1, <1>6, <2>1 DEF Ended, NothingUnderway
    <3>6. Confirms(t) => Confirms(t)'
      BY <1>1, <1>6, <2>1, <3>2 DEF Confirms, NothingUnderway
    <3> QED
      BY <3>1, <3>3, <3>4, <3>5, <3>6 DEF Phase
  <2>4. \A t \in Callers : OwnEnd(t)'
    BY <1>6 DEF PhaseInv, OwnEnd
  <2> QED
    BY <2>2, <2>3, <2>4 DEF PhaseInv
<1>7. ASSUME h.kind \notin Urc PROVE lock \in Callers
  BY <1>3, <1>5, <1>7 DEF PhaseInv, Idle, NothingUnderway
<1>8. CASE /\ h.kind \in {"OK", "ERROR", "INFO"}
           /\ ParseResponse(h)
           /\ UNCHANGED socket_event
  <2>1. lock \in Callers
    BY <1>7, <1>8 DEF Urc
  <2>2. /\ Phase(lock)' /\ OwnEnd(lock)' /\ \A u \in Callers \ {lock} : ex'[u] = ex[u]
    <3> DEFINE t == lock
    <3>1. t \in Callers /\ lock' = t
      BY <1>1, <2>1
    <3>2. ASSUME NEW u \in Callers, lock = u
          PROVE  Phase(u)' /\ OwnEnd(u)' /\ \A v \in Callers \ {u} : ex'[v] = ex[v]
      BY <1>1, <1>2, <1>8, <3>2, ResponsePhase DEF h
    <3> QED
      BY <1>1, <2>1, <3>2 DEF Phase, Asked, Answered, Ended, Confirms, OwnEnd
  <2>3. \A u \in Callers : OwnEnd(u)'
    BY <1>1, <2>2 DEF PhaseInv, OwnEnd
  <2> QED
    BY <1>1, <2>1, <2>2, <2>3, CallersAssumption DEF PhaseInv
<1>9. CASE /\ h.kind \in SendResults
           /\ ParseSend(h)
           /\ UNCHANGED <<resp, resp_status, resp_notice, ex>>
  <2>1. lock \in Callers /\ h.kind \notin Urc /\ h.kind \notin {"OK", "ERROR", "INFO"}
    BY <1>7, <1>9 DEF Urc, SendResults
  <2>2. ASSUME NEW t \in Callers, lock = t PROVE Confirms(t)'
    <3>1. Phase(t)
      BY <2>2 DEF PhaseInv
    <3>2. ~Asked(t) /\ ~Answered(t) /\ ~Ended(t)
      BY <1>3, <2>1 DEF Asked, Answered, Ended, NothingUnderway
    <3>3. Confirms(t)
      BY <3>1, <3>2 DEF Phase
    <3>4. /\ resp = None /\ resp_notice = 0 /\ app[t].pc = "send_socket" /\ socket_event = {}
          /\ prompt = None /\ toDevice = <<>>
          /\ \E cmd \in 0 .. MaxCmds : One(toClient, SendResults, cmd)
      BY <1>3, <2>1, <3>3 DEF Confirms, NothingUnderway
    <3>5. Quiet(toClient')
      BY <1>3, <2>1, <3>4
    <3>6. sending = app[t].slot
      BY <3>4 DEF SendingInv, Sending, Confirming
    <3>7. ResultBit(h.kind) \in ResultBits
      BY EventBits
    <3>8. socket_event' \subseteq SocketBits(app[t].slot) \cup ResultBits
      BY <1>9, <3>4, <3>6, <3>7 DEF ParseSend
    <3> QED
      BY <1>1, <1>9, <3>4, <3>5, <3>8 DEF Confirms, NothingUnderway
  <2>3. \A u \in Callers : OwnEnd(u)'
    BY <1>9 DEF PhaseInv, OwnEnd
  <2> QED
    BY <1>1, <2>1, <2>2, <2>3, CallersAssumption DEF PhaseInv, Phase
<1> QED
  BY <1>4, <1>6, <1>8, <1>9

\* Once the remains of an abandoned command are gone, the phases start anew.
LEMMA SettlePhase ==
    ASSUME CallInv, Settle
    PROVE  PhaseInv'
<1>1. NoExec.result = "none" /\ NoExec.pc = "idle"
  BY DEF NoExec
<1>2. \A t \in Callers : OwnEnd(t)'
  BY <1>1 DEF Settle, OwnEnd
<1>3. resp = None
  BY DEF Settle, CallInv, RespOfHolder
<1>4. Quiet(<<>>)
  BY DEF Quiet
<1>5. Idle'
  BY <1>3, <1>4 DEF Settle, Idle, NothingUnderway, socketVars
<1> QED
  BY <1>2, <1>5, CallersAssumption DEF Settle, PhaseInv

\* The socket of the send in progress: only the holder of the lock sets it.
LEMMA NextSending == TypeInv /\ CallInv /\ SendingInv /\ [Next]_vars => SendingInv'
<1> SUFFICES ASSUME TypeInv, CallInv, SendingInv, [Next]_vars PROVE SendingInv'
  OBVIOUS
<1>1. ASSUME UNCHANGED <<app, sending>> PROVE SendingInv'
  BY <1>1 DEF SendingInv
<1>2. CASE Module \/ Settle \/ Parse \/ UNCHANGED vars
  BY <1>1, <1>2 DEF Module, Settle, Parse, vars, socketVars
<1>3. CASE \E s \in Slots : ServerSends(s) \/ ServerCloses(s) \/ LinkSettles(s)
  BY <1>1, <1>3 DEF ServerSends, ServerCloses, LinkSettles
<1>4. CASE \E t \in Callers : ExecStep(t)
  BY <1>1, <1>4 DEF ExecStep, socketVars
<1>5. ASSUME NEW t \in Callers, CallerStep(t) PROVE SendingInv'
  <2>1. app \in [Callers -> AppState] /\ app[t] \in AppState
    BY DEF TypeInv, AppType
  <2>2. CASE Local(t) \/ Finishes(t)
    <3>1. PICK a \in AppState : a.pc \notin InCall /\ app' = [app EXCEPT ![t] = a]
      BY <2>2 DEF Local, Finishes
    <3>2. sending' = sending
      BY <2>2 DEF Local, Finishes
    <3> QED
      BY <2>1, <3>1, <3>2 DEF SendingInv, InCall, Sending, Calling
  <2>3. CASE Starts(t)
    <3>1. PICK label \in Calling, name \in {"START", "CLOSE", "SEND"} :
            /\ ExecStart(t, IF label = "send" THEN 2 ELSE 0, Cmd(name, app[t].slot))
            /\ AppGoto(t, label)
            /\ sending' = IF label = "send" THEN app[t].slot ELSE sending
      BY <2>3 DEF Starts
    <3>2. lock \in {None, t}
      BY <3>1 DEF ExecStart, LockFree
    <3>3. \A u \in Callers \ {t} : app[u].pc \notin Sending
      BY <3>2, CallersAssumption DEF CallInv, Holding
    <3>4. /\ app'[t].pc = label /\ app'[t].slot = app[t].slot
          /\ \A u \in Callers \ {t} : app'[u] = app[u]
      BY <2>1, <3>1 DEF AppGoto, AppState
    <3> QED
      BY <3>1, <3>3, <3>4 DEF SendingInv, Sending, Calling, Confirming
  <2>4. CASE SendData(t) \/ SendSocketEvent(t) \/ SendResult(t) \/ SendTimeout(t)
    <3>1. PICK label : AppGoto(t, label) /\ app[t].pc \in Sending /\ sending' = sending
      BY <2>4 DEF SendData, SendSocketEvent, SendResult, SendTimeout, Sending, Confirming
    <3>2. /\ app'[t].slot = app[t].slot /\ \A u \in Callers \ {t} : app'[u] = app[u]
      BY <2>1, <3>1 DEF AppGoto, AppState
    <3> QED
      BY <3>1, <3>2 DEF SendingInv
  <2> QED
    BY <1>5, <2>2, <2>3, <2>4, CallerSteps
<1> QED
  BY <1>2, <1>3, <1>4, <1>5 DEF Next

\* At the start nothing is under way.
LEMMA InitPhase == Init => SendingInv /\ PhaseInv
<1> SUFFICES ASSUME Init PROVE SendingInv /\ PhaseInv
  OBVIOUS
<1>1. NoExec.result = "none" /\ NoApp.pc = "none" /\ Quiet(<<>>)
  BY DEF NoExec, NoApp, Quiet
<1>2. SendingInv
  BY <1>1 DEF Init, SendingInv, Sending, Confirming
<1>3. Idle
  BY <1>1 DEF Init, ClientInit, Idle, NothingUnderway
<1> QED
  BY <1>1, <1>2, <1>3, CallersAssumption DEF Init, ClientInit, PhaseInv, OwnEnd

\* PhaseInv is inductive.
LEMMA NextPhase ==
    TypeInv /\ CallInv /\ SendingInv /\ PhaseInv /\ [Next]_vars => PhaseInv'
<1> SUFFICES ASSUME TypeInv, CallInv, SendingInv, PhaseInv, [Next]_vars PROVE PhaseInv'
  OBVIOUS
<1>1. CASE UNCHANGED vars \/ \E s \in Slots : LinkSettles(s)
  <2>1. UNCHANGED <<lock, resp, resp_status, resp_notice, ex, toDevice, toClient, stale, app,
                    socket_event, prompt>>
    BY <1>1 DEF vars, clientVars, socketVars, LinkSettles
  <2> QED
    BY <2>1, PhaseKept, IdleKept DEF PhaseInv, OwnEnd
<1> QED
  BY <1>1, CallerPhase, ExecPhase, ParsePhase, ModulePhase, ServerPhase, SettlePhase DEF Next

(***************************************************************************)
(* For every number of callers, sockets and commands: as long as no wait   *)
(* has timed out (or all that a timed-out wait left behind is gone), the   *)
(* line that ends a response belongs to the command of the caller that     *)
(* gets it, and nobody finds a leftover notice when the client is free.    *)
(* Nothing in the protocol ties an answer to its command; it is the place  *)
(* of the command, of the lines of its answer, of the notice and of the    *)
(* prompt, followed from phase to phase under the lock (PhaseInv), that    *)
(* makes the answers come out right, data of other links in between.       *)
(***************************************************************************)
THEOREM AtOwnResponse == Spec => []OwnResponse
<1>1. PhaseInv => OwnResponse
  BY DEF PhaseInv, OwnResponse, OwnEnd, Idle
<1> QED
  BY <1>1, InitType, NextType, InitCall, NextCall, InitPhase, NextSending, NextPhase, PTL DEF Spec

-----------------------------------------------------------------------------
(***************************************************************************)
(* The entries of the table and their owners, whatever timed out.          *)
(***************************************************************************)

\* Where a caller's socket can be connected.
Usable == {"up", "recv"} \cup Sending

\* A free entry is cleared; one without its objects is not connected, and its
\* owner, if it has one, is making or deleting them; a connected entry is in
\* use; and the command that connects a socket is known to it.
EntryInv ==
    /\ \A s \in Slots : ~sock[s].magic => sock[s] = NoSocket
    /\ \A s \in Slots : sock[s].dead => sock[s].state # "connect"
    /\ \A t \in Callers : HasSocket(t) /\ Mine(t).dead => app[t].pc \in {"alloc", "erase"}
    /\ \A t \in Callers : HasSocket(t) /\ Mine(t).state = "connect" => app[t].pc \in Usable
    /\ \A t \in Callers : app[t].pc = "connecting" => Mine(t).conn = ex[t].cmd

-----------------------------------------------------------------------------
(***************************************************************************)
(* The links and the lines about them, while nothing of an abandoned       *)
(* command is around and no link was given up for want of memory.          *)
(***************************************************************************)
About(l, s) == l.kind \in Urc /\ l.slot = s

NoneAbout(q, s) == \A i \in 1 .. Len(q) : ~About(q[i], s)

\* No link, and no line of an earlier one on its way.
Clear(s) == link[s] = 0 /\ NoneAbout(toClient, s)

\* All that belongs to a slot belongs to the command that connected it.
OwnLink(s) ==
    /\ link[s] # 0 => link[s] = sock[s].conn
    /\ \A i \in 1 .. Len(toClient) :
          About(toClient[i], s) /\ toClient[i].kind = "+IPD" => toClient[i].cmd = sock[s].conn
    /\ \A i \in 1 .. Len(sock[s].recvpkt) : sock[s].recvpkt[i] = sock[s].conn

\* CLOSED is the last line about a link.
ClosedLast(s) ==
    \A i \in 1 .. Len(toClient) :
        About(toClient[i], s) /\ toClient[i].kind = "CLOSED" =>
            /\ link[s] = 0
            /\ \A j \in 1 .. Len(toClient) : j > i => ~About(toClient[j], s)

\* The command of t that the module has not read is the one for its place.
CommandFor(t) ==
    Asked(t) => /\ Head(toDevice).slot = app[t].slot
                /\ Head(toDevice).name = "START" <=> app[t].pc = "connecting"
                /\ Head(toDevice).name = "CLOSE" <=> app[t].pc \in {"reclosing", "closing"}

\* The command of t succeeds or has succeeded.
Succeeds(t) ==
    \/ ex[t].pc = "wait" /\ resp = t /\ One(toClient, {"OK"}, ex[t].cmd)
    \/ ex[t].pc = "wait" /\ resp = None /\ resp_status = "OK"
    \/ ex[t].pc \in {"exit", "done"} /\ ex[t].result = "OK"

\* The answer of the module comes after the last line about the link.
AnswerLast(s) ==
    /\ link[s] = 0
    /\ \E i \in 1 .. Len(toClient) :
          /\ toClient[i].kind \notin Urc
          /\ \A j \in 1 .. Len(toClient) : j > i => ~About(toClient[j], s)

\* Where a caller's socket has no link.
Unlinked == {"alloc", "open", "reclose", "reclosing", "failed", "free", "erase"}

OwnerLink(t) ==
    LET s == app[t].slot IN
    /\ app[t].pc \in Unlinked => Clear(s)
    /\ app[t].pc \in {"open", "reclose", "reclosing"} => sock[s].recvpkt = <<>>
    /\ app[t].pc = "connecting" => Succeeds(t) \/ (Clear(s) /\ sock[s].recvpkt = <<>>)
    /\ app[t].pc = "closing" =>
          Clear(s) \/ (ex[t].pc = "wait" /\ resp = t /\ (Asked(t) \/ AnswerLast(s)))
    /\ app[t].pc \in Usable /\ sock[s].state = "closed" => Clear(s)

LinkInv ==
    ~stale => /\ \A s \in Slots \ orphans : OwnLink(s) /\ ClosedLast(s)
              /\ \A s \in Slots \ orphans : sock[s].dead => Clear(s)
              /\ \A t \in Callers : lock = t => CommandFor(t)
              /\ \A t \in Callers : app[t].slot \notin orphans => OwnerLink(t)

DeadInv == (timeouts = 0 => ~stale) /\ NoDeadUse

-----------------------------------------------------------------------------
(***************************************************************************)
(* What a step of a caller leaves to the others.                           *)
(***************************************************************************)
AllInv == TypeInv /\ CallInv /\ SlotInv /\ SendingInv /\ PhaseInv /\ EntryInv /\ LinkInv

\* The lines and the links are the module's and the parser's; a caller that
\* moves while another one holds the lock changes nothing of the client.
LEMMA OthersSafe ==
    ASSUME TypeInv, CallInv, NEW t \in Callers, CallerStep(t)
    PROVE  /\ \A u \in Callers \ {t} : app'[u] = app[u] /\ ex'[u] = ex[u]
           /\ UNCHANGED <<toClient, link>>
           /\ lock \in Callers \ {t} =>
                 UNCHANGED <<lock, resp, resp_status, resp_notice, socket_event, prompt, toDevice,
                             stale>>
           /\ lock' = lock \/ lock' \in {None, t}
           /\ stale => stale'
           /\ orphans \subseteq orphans' /\ orphans' \subseteq orphans \cup {app[t].slot}
<1>0. orphans \subseteq orphans' /\ orphans' \subseteq orphans \cup {app[t].slot}
  BY CallerGhosts DEF CloseNoMemory
<1>1. /\ app \in [Callers -> AppState] /\ ex \in [Callers -> ExecCall]
      /\ (Holding(t) <=> lock = t) /\ lock \in Callers \cup {None}
  BY DEF TypeInv, AppType, ClientTypeOK, ExecCall, CallInv
<1>2. CASE Local(t)
  BY <1>1, <1>2, <1>0 DEF Local, clientVars
<1>3. CASE Starts(t)
  BY <1>1, <1>3, <1>0, CallersAssumption DEF Starts, ExecStart, AppGoto, LockFree
<1>4. CASE Finishes(t)
  BY <1>1, <1>4, <1>0 DEF Finishes, Forget, restOfClient
<1>5. CASE SendData(t)
  <2>1. lock = t
    BY <1>1, <1>5 DEF SendData, Holding, Sending
  <2> QED
    BY <1>1, <1>5, <1>0, <2>1 DEF SendData, Forget, AppGoto
<1>6. CASE SendSocketEvent(t)
  <2>1. lock = t
    BY <1>1, <1>6 DEF SendSocketEvent, Holding, Sending, Confirming
  <2> QED
    BY <1>1, <1>6, <1>0, <2>1 DEF SendSocketEvent, clientVars, AppGoto
<1>7. CASE SendResult(t) \/ SendTimeout(t)
  <2>1. lock = t
    BY <1>1, <1>7 DEF SendResult, SendTimeout, Holding, Sending, Confirming
  <2> QED
    BY <1>1, <1>7, <1>0, <2>1 DEF SendResult, SendTimeout, Forget, AppGoto
<1> QED
  BY <1>2, <1>3, <1>4, <1>5, <1>6, <1>7, CallerSteps

\* The commands that a caller starts are asked, when nothing else is around.
LEMMA StartAsked ==
    ASSUME TypeInv, CallInv, PhaseInv, PhaseInv', ~stale, NEW t \in Callers, app[t].pc \notin InCall,
           NEW n \in {0, 2}, NEW name \in Names, ExecStart(t, n, Cmd(name, app[t].slot))
    PROVE  /\ Asked(t)' /\ ex'[t].pc = "wait" /\ resp' = t /\ ex'[t].cmd = sent + 1
           /\ Head(toDevice').slot = app[t].slot /\ Head(toDevice').name = name
<1> DEFINE r == [NoExec EXCEPT !.pc = "wait", !.cmd = sent + 1, !.line_num = n]
           c == [Cmd(name, app[t].slot) EXCEPT !.cmd = sent + 1]
<1>1. /\ ex \in [Callers -> ExecCall] /\ CallOK(t) /\ (Holding(t) <=> lock = t)
  BY DEF TypeInv, ClientTypeOK, ExecCall, CallInv
<1>2. /\ ex' = [ex EXCEPT ![t] = r] /\ toDevice' = Append(toDevice, c)
      /\ lock' = t /\ resp' = t /\ lock \in {None, t} /\ stale' = stale
  BY DEF ExecStart, LockFree
<1>3. lock = None
  <2>1. NoExec.pc = "idle"
    BY DEF NoExec
  <2> QED
    BY <1>1, <1>2, <2>1 DEF CallOK, Holding, InCall, Calling, Sending
<1>4. r.pc = "wait" /\ r.cmd = sent + 1
  BY DEF NoExec
<1>5. c.slot = app[t].slot /\ c.name = name
  BY DEF Cmd
<1> HIDE DEF r, c
<1>6. ex'[t] = r
  BY <1>1, <1>2
<1>7. toDevice' = <<c>>
  BY <1>2, <1>3 DEF PhaseInv, Idle, NothingUnderway
<1>8. Head(toDevice') = c /\ toDevice' # <<>>
  BY <1>7
<1>9. Phase(t)'
  BY <1>2 DEF PhaseInv
<1>10. Asked(t)'
  BY <1>2, <1>8, <1>9, CallersAssumption DEF Phase, Answered, Ended, Confirms, NothingUnderway
<1> QED
  BY <1>2, <1>4, <1>5, <1>6, <1>8, <1>10

\* A link of which nothing is left.
LEMMA GoneClear ==
    ASSUME TypeInv, NEW s \in Slots, LinkGone(s)
    PROVE  Clear(s) /\ sock[s].recvpkt = <<>>
<1>1. DOMAIN toClient = 1 .. Len(toClient)
  <2>1. toClient \in Seq(Lines)
    BY DEF TypeInv, LineType
  <2> QED
    BY <2>1, LenProperties
<1> QED
  BY <1>1 DEF LinkGone, Clear, NoneAbout, About, Urc

\* What the steps of the owner t have to keep, of its entry and its link.
Keeps(t) ==
    LET s == app[t].slot
        pc == app'[t].pc
        v == sock'[app[t].slot]
    IN
    /\ ~v.magic => v = NoSocket
    /\ v.dead => v.state # "connect"
    /\ pc # "none" /\ v.dead => pc \in {"alloc", "erase"}
    /\ pc # "none" /\ v.state = "connect" => pc \in Usable
    /\ pc = "connecting" => v.conn = ex'[t].cmd
    /\ ~stale' => CommandFor(t)'
    /\ ~stale' /\ s \notin orphans' =>
          /\ \A e \in Slots : e = s => OwnLink(e)'
          /\ v.dead \/ pc \in Unlinked => Clear(s)
          /\ pc \in {"open", "reclose", "reclosing"} => v.recvpkt = <<>>
          /\ pc = "connecting" => Succeeds(t)' \/ (Clear(s) /\ v.recvpkt = <<>>)
          /\ pc = "closing" =>
                Clear(s) \/ (ex'[t].pc = "wait" /\ resp' = t /\ Asked(t)')
          /\ pc \in Usable /\ v.state = "closed" => Clear(s)

\* A step of a caller that keeps its link and its entry keeps the invariants.
LEMMA KeepsAll ==
    ASSUME AllInv, NEW t \in Callers, CallerStep(t), OwnSlot(t), SlotInv', Keeps(t)
    PROVE  EntryInv' /\ LinkInv'
<1> DEFINE s == app[t].slot
<1>1. /\ \A u \in Callers \ {t} : app'[u] = app[u] /\ ex'[u] = ex[u]
      /\ UNCHANGED <<toClient, link>>
      /\ lock \in Callers \ {t} =>
            UNCHANGED <<lock, resp, resp_status, resp_notice, socket_event, prompt, toDevice, stale>>
      /\ lock' = lock \/ lock' \in {None, t}
      /\ stale => stale'
      /\ orphans \subseteq orphans' /\ orphans' \subseteq orphans \cup {s}
  BY OthersSafe DEF AllInv
<1>2. /\ s \in Slots /\ \A u \in Callers : app[u].slot \in Slots
      /\ \A e \in Slots \ {s} : sock'[e] = sock[e]
      /\ HasSocket(t)
  BY DEF AllInv, TypeInv, AppType, AppState, OwnSlot
<1>3. \A u \in Callers \ {t} : HasSocket(u) =>
        app[u].slot # s /\ Mine(u)' = Mine(u) /\ Mine(u) = sock[app[u].slot]
  BY <1>1, <1>2 DEF AllInv, SlotInv, Mine
<1>4. \A e \in Slots : Clear(e)' <=> Clear(e)
  BY <1>1 DEF Clear
<1>5. app'[t].pc = "none" \/ (app'[t].slot = s /\ sock'[s].magic)
  BY DEF OwnSlot
<1>6. /\ ~sock'[s].magic => sock'[s] = NoSocket
      /\ sock'[s].dead => sock'[s].state # "connect"
      /\ app'[t].pc # "none" /\ sock'[s].dead => app'[t].pc \in {"alloc", "erase"}
      /\ app'[t].pc # "none" /\ sock'[s].state = "connect" => app'[t].pc \in Usable
      /\ app'[t].pc = "connecting" => sock'[s].conn = ex'[t].cmd
  BY DEF Keeps
<1>7. EntryInv'
  <2>1. \A e \in Slots : /\ ~sock'[e].magic => sock'[e] = NoSocket
                         /\ sock'[e].dead => sock'[e].state # "connect"
    BY <1>2, <1>5, <1>6 DEF AllInv, EntryInv
  <2>2. ASSUME NEW u \in Callers, HasSocket(u)', Mine(u)'.dead
        PROVE  app'[u].pc \in {"alloc", "erase"}
    <3>1. CASE u = t
      BY <1>5, <1>6, <2>2, <3>1 DEF Mine, HasSocket
    <3>2. CASE u # t
      BY <1>1, <1>3, <2>2, <3>2 DEF AllInv, EntryInv, HasSocket
    <3> QED
      BY <3>1, <3>2
  <2>3. ASSUME NEW u \in Callers, HasSocket(u)', Mine(u)'.state = "connect"
        PROVE  app'[u].pc \in Usable
    <3>1. CASE u = t
      BY <1>5, <1>6, <2>3, <3>1 DEF Mine, HasSocket
    <3>2. CASE u # t
      BY <1>1, <1>3, <2>3, <3>2 DEF AllInv, EntryInv, HasSocket
    <3> QED
      BY <3>1, <3>2
  <2>4. ASSUME NEW u \in Callers, app'[u].pc = "connecting"
        PROVE  Mine(u)'.conn = ex'[u].cmd
    <3>1. CASE u = t
      BY <1>5, <1>6, <2>4, <3>1 DEF Mine
    <3>2. CASE u # t
      BY <1>1, <1>3, <2>4, <3>2 DEF AllInv, EntryInv, HasSocket
    <3> QED
      BY <3>1, <3>2
  <2> QED
    BY <2>1, <2>2, <2>3, <2>4 DEF EntryInv
<1>8. LinkInv'
  <2> SUFFICES ASSUME ~stale'
               PROVE  /\ \A e \in Slots \ orphans' : OwnLink(e)' /\ ClosedLast(e)'
                      /\ \A e \in Slots \ orphans' : sock'[e].dead => Clear(e)'
                      /\ \A u \in Callers : lock' = u => CommandFor(u)'
                      /\ \A u \in Callers : app'[u].slot \notin orphans' => OwnerLink(u)'
    BY DEF LinkInv
  <2>1. ~stale /\ \A e \in Slots \ orphans' : e \in Slots \ orphans
    BY <1>1
  <2>0. CommandFor(t)'
    BY DEF Keeps
  <2>2. s \notin orphans' =>
        /\ \A e \in Slots : e = s => OwnLink(e)'
        /\ sock'[s].dead \/ app'[t].pc \in Unlinked => Clear(s)
        /\ app'[t].pc \in {"open", "reclose", "reclosing"} => sock'[s].recvpkt = <<>>
        /\ app'[t].pc = "connecting" => Succeeds(t)' \/ (Clear(s) /\ sock'[s].recvpkt = <<>>)
        /\ app'[t].pc = "closing" =>
              Clear(s) \/ (ex'[t].pc = "wait" /\ resp' = t /\ Asked(t)')
        /\ app'[t].pc \in Usable /\ sock'[s].state = "closed" => Clear(s)
    BY DEF Keeps
  <2>3. \A e \in Slots \ orphans' : OwnLink(e)'
    <3> SUFFICES ASSUME NEW e \in Slots \ orphans', e # s PROVE OwnLink(e)'
      BY <2>2
    <3>1. OwnLink(e)
      BY <2>1 DEF AllInv, LinkInv
    <3>2. sock'[e] = sock[e]
      BY <1>2
    <3> QED
      BY <1>1, <3>1, <3>2 DEF OwnLink
  <2>4. \A e \in Slots \ orphans' : ClosedLast(e)'
    BY <1>1, <2>1 DEF AllInv, LinkInv, ClosedLast
  <2>5. \A e \in Slots \ orphans' : sock'[e].dead => Clear(e)'
    BY <1>2, <1>4, <2>1, <2>2 DEF AllInv, LinkInv
  <2>6. \A u \in Callers : lock' = u => CommandFor(u)'
    <3> SUFFICES ASSUME NEW u \in Callers, u # t, lock' = u PROVE CommandFor(u)'
      BY <2>0
    <3>1. lock = u
      BY <1>1, CallersAssumption
    <3>2. UNCHANGED <<resp, resp_notice, socket_event, prompt, toDevice>>
      BY <1>1, <3>1
    <3>3. Asked(u)' <=> Asked(u)
      BY <1>1, <3>2 DEF Asked
    <3> QED
      BY <1>1, <2>1, <3>1, <3>2, <3>3 DEF AllInv, LinkInv, CommandFor
  <2>7. \A u \in Callers : app'[u].slot \notin orphans' => OwnerLink(u)'
    <3>1. app'[t].slot \notin orphans' => OwnerLink(t)'
      <4>1. app'[t].pc # "none" => app'[t].slot = s
        BY <1>5
      <4>2. CASE app'[t].pc = "none"
        BY <4>2 DEF OwnerLink, Unlinked, Usable, Sending, Confirming
      <4>3. CASE app'[t].slot = s
        BY <1>2, <1>4, <2>2, <4>3 DEF OwnerLink
      <4> QED
        BY <4>1, <4>2, <4>3
    <3>2. ASSUME NEW u \in Callers, u # t, app'[u].slot \notin orphans' PROVE OwnerLink(u)'
      <4> DEFINE e == app[u].slot
      <4>1. OwnerLink(u) /\ app'[u] = app[u] /\ ex'[u] = ex[u] /\ e \in Slots
        BY <1>1, <1>2, <2>1, <3>2 DEF AllInv, LinkInv
      <4>2. CASE ~HasSocket(u)
        BY <4>1, <4>2 DEF HasSocket, OwnerLink, Unlinked, Usable, Sending, Confirming
      <4>3. CASE HasSocket(u)
        <5>1. sock'[e] = sock[e]
          BY <1>2, <1>3, <3>2, <4>1, <4>3
        <5>2. ex[u].pc = "wait" => lock = u
          BY DEF AllInv, CallInv, Holding
        <5>3. ex[u].pc = "wait" =>
                UNCHANGED <<resp, resp_status, resp_notice, socket_event, prompt, toDevice>>
          BY <1>1, <3>2, <5>2
        <5>4. Succeeds(u) => Succeeds(u)'
          BY <1>1, <4>1, <5>3 DEF Succeeds
        <5>5. ex[u].pc = "wait" /\ Asked(u) => Asked(u)'
          BY <1>1, <4>1, <5>3 DEF Asked
        <5>6. AnswerLast(e) => AnswerLast(e)'
          BY <1>1, <4>1 DEF AnswerLast
        <5> QED
          BY <1>4, <4>1, <5>1, <5>3, <5>4, <5>5, <5>6 DEF OwnerLink
      <4> QED
        BY <4>2, <4>3
    <3> QED
      BY <3>1, <3>2
  <2> QED
    BY <2>3, <2>4, <2>5, <2>6, <2>7
<1> QED
  BY <1>7, <1>8

\* Every step of an owner keeps what it has to.
LEMMA OwnerKeeps ==
    ASSUME AllInv, NEW t \in Callers, CallerStep(t), PhaseInv', OwnSlot(t), ~Socket(t)
    PROVE  Keeps(t)
<1> DEFINE s == app[t].slot
           w == sock[s]
           pc == app[t].pc
           clean == ~stale' /\ s \notin orphans'
<1> USE DEF Unlinked, Usable, Sending, Confirming
<1>1. /\ app \in [Callers -> AppState] /\ app[t] \in AppState /\ s \in Slots
      /\ sock \in [Slots -> SocketEntry] /\ w \in SocketEntry /\ Mine(t) = w
      /\ ex \in [Callers -> ExecCall] /\ CallOK(t) /\ HasSocket(t)
  BY DEF AllInv, TypeInv, AppType, AppState, SockType, ClientTypeOK, ExecCall, Mine, CallInv, OwnSlot
<1>2. /\ w.magic /\ (w.dead => w.state # "connect")
      /\ (w.dead => pc \in {"alloc", "erase"}) /\ (w.state = "connect" => pc \in Usable)
      /\ (app'[t].pc # "none" => sock'[s].magic)
  BY <1>1 DEF AllInv, SlotInv, EntryInv, OwnSlot
<1>3. /\ UNCHANGED <<toClient, link>> /\ (~stale' => ~stale) /\ (clean => s \notin orphans)
  BY OthersSafe DEF AllInv
<1>4. clean =>
        /\ OwnLink(s)
        /\ pc \in Unlinked => Clear(s)
        /\ pc \in {"open", "reclose", "reclosing"} => w.recvpkt = <<>>
        /\ pc = "connecting" => Succeeds(t) \/ (Clear(s) /\ w.recvpkt = <<>>)
        /\ pc = "closing" => Clear(s) \/ ex[t].pc = "wait"
        /\ pc \in Usable /\ w.state = "closed" => Clear(s)
  BY <1>1, <1>3 DEF AllInv, LinkInv, OwnerLink
<1>5. ASSUME ex'[t].pc # "wait" PROVE CommandFor(t)'
  BY <1>5 DEF CommandFor, Asked
<1>6. ASSUME ex'[t] = ex[t], pc \notin Calling PROVE CommandFor(t)'
  <2>1. NoExec.pc = "idle"
    BY DEF NoExec
  <2>2. ex[t].pc # "wait"
    BY <1>1, <1>6, <2>1 DEF CallOK, InCall
  <2> QED
    BY <1>5, <1>6, <2>2
<1>7. ASSUME Forget(t) PROVE CommandFor(t)'
  <2>1. ex'[t].pc = "idle"
    BY <1>1, <1>7 DEF Forget, NoExec
  <2> QED
    BY <1>5, <2>1
<1>8. ASSUME NEW label, AppGoto(t, label) PROVE app'[t].pc = label
  BY <1>1, <1>8 DEF AppGoto, AppState
<1>9. ASSUME clean, sock'[s].conn = w.conn, sock'[s].recvpkt = w.recvpkt
      PROVE  \A e \in Slots : e = s => OwnLink(e)'
  BY <1>3, <1>4, <1>9 DEF OwnLink
<1>10. ASSUME clean, Clear(s), sock'[s].recvpkt = <<>>
       PROVE  \A e \in Slots : e = s => OwnLink(e)'
  BY <1>3, <1>10 DEF OwnLink, Clear, NoneAbout
<1>11. ASSUME UNCHANGED sock, NEW label, app'[t].pc = label,
              label \notin {"none", "connecting"}, pc \notin {"alloc", "erase"},
              pc \in Usable => label \in Usable,
              ~stale' => CommandFor(t)',
              clean =>
                /\ label \in Unlinked => Clear(s)
                /\ label \in {"open", "reclose", "reclosing"} => w.recvpkt = <<>>
                /\ label = "closing" =>
                      Clear(s) \/ (ex'[t].pc = "wait" /\ resp' = t /\ Asked(t)')
                /\ label \in Usable /\ w.state = "closed" => Clear(s)
       PROVE  Keeps(t)
  <2>1. ~w.dead /\ (w.state = "connect" => label \in Usable)
    BY <1>2, <1>11
  <2>2. clean => \A e \in Slots : e = s => OwnLink(e)'
    BY <1>9, <1>11
  <2> HIDE DEF Unlinked, Usable
  <2> QED
    BY <1>2, <1>11, <2>1, <2>2 DEF Keeps
<1>12. CASE SocketOpen(t)
  <2>1. /\ sock' = [sock EXCEPT ![s] = FreshSocket] /\ AppGoto(t, "open") /\ pc = "alloc"
        /\ ex' = ex
    BY <1>12 DEF SocketOpen, clientVars
  <2>2. sock'[s] = FreshSocket /\ app'[t].pc = "open"
    BY <1>1, <1>8, <2>1
  <2>3. /\ FreshSocket.recvpkt = <<>> /\ ~FreshSocket.dead /\ FreshSocket.state = "open"
    BY DEF FreshSocket, NoSocket
  <2>4. CommandFor(t)'
    BY <1>6, <2>1 DEF Calling
  <2>5. clean => Clear(s) /\ \A e \in Slots : e = s => OwnLink(e)'
    BY <1>4, <1>10, <2>1, <2>2, <2>3
  <2> QED
    BY <1>2, <2>2, <2>3, <2>4, <2>5 DEF Keeps
<1>13. CASE ConnectSkipped(t)
  <2>1. /\ UNCHANGED sock /\ pc = "open" /\ ex' = ex
        /\ AppGoto(t, IF t \in UdpCallers THEN "up" ELSE "failed")
    BY <1>13 DEF ConnectSkipped, clientVars
  <2>2. app'[t].pc \in {"up", "failed"}
    BY <1>8, <2>1
  <2>3. CommandFor(t)'
    BY <1>6, <2>1 DEF Calling
  <2> QED
    BY <1>4, <1>11, <2>1, <2>2, <2>3
<1>14. CASE Connect(t)
  <2>1. /\ sock' = [sock EXCEPT ![s].conn = sent + 1] /\ AppGoto(t, "connecting") /\ pc = "open"
        /\ ExecStart(t, 0, Cmd("START", s))
    BY <1>14 DEF Connect
  <2>2. /\ sock'[s].conn = sent + 1 /\ sock'[s].recvpkt = w.recvpkt /\ sock'[s].state = w.state
        /\ (sock'[s].dead <=> w.dead)
    BY <1>1, <2>1 DEF SocketEntry
  <2>3. app'[t].pc = "connecting"
    BY <1>8, <2>1
  <2>4. ex'[t].cmd = sent + 1
    <3> DEFINE r == [NoExec EXCEPT !.pc = "wait", !.cmd = sent + 1, !.line_num = 0]
    <3>1. ex' = [ex EXCEPT ![t] = r] /\ r.cmd = sent + 1
      BY <2>1 DEF ExecStart, NoExec
    <3> HIDE DEF r
    <3> QED
      BY <1>1, <3>1
  <2>5. ~stale' => CommandFor(t)'
    <3> SUFFICES ASSUME ~stale' PROVE CommandFor(t)'
      OBVIOUS
    <3>1. Head(toDevice').slot = s /\ Head(toDevice').name = "START"
      BY <1>3, <2>1, StartAsked DEF AllInv, Names, InCall, Calling
    <3>2. app'[t].slot = s
      BY <2>3 DEF OwnSlot
    <3> QED
      BY <2>3, <3>1, <3>2 DEF CommandFor
  <2>6. clean => Clear(s) /\ w.recvpkt = <<>>
    BY <1>4, <2>1
  <2>7. clean => \A e \in Slots : e = s => OwnLink(e)'
    BY <1>10, <2>2, <2>6
  <2> QED
    BY <1>2, <2>1, <2>2, <2>3, <2>4, <2>5, <2>6, <2>7 DEF Keeps
<1>15. CASE Connected(t)
  <2>1. StateTo(s, "connect") /\ AppGoto(t, "up") /\ Forget(t) /\ pc = "connecting"
    BY <1>15 DEF Connected
  <2>2. /\ sock'[s].conn = w.conn /\ sock'[s].recvpkt = w.recvpkt /\ sock'[s].state = "connect"
        /\ (sock'[s].dead <=> w.dead)
    BY <1>1, <2>1 DEF SocketEntry, StateTo
  <2>3. app'[t].pc = "up" /\ CommandFor(t)'
    BY <1>7, <1>8, <2>1
  <2>4. clean => \A e \in Slots : e = s => OwnLink(e)'
    BY <1>9, <2>2
  <2> QED
    BY <1>2, <2>1, <2>2, <2>3, <2>4 DEF Keeps
<1>16. CASE ConnectFailed(t)
  <2>1. /\ UNCHANGED sock /\ pc = "connecting" /\ Forget(t) /\ Done(t) /\ ex[t].result # "OK"
        /\ AppGoto(t, IF app[t].retried THEN "failed" ELSE "reclose")
    BY <1>16 DEF ConnectFailed, AppGoto
  <2>2. app'[t].pc \in {"failed", "reclose"}
    BY <1>8, <2>1
  <2>3. CommandFor(t)'
    BY <1>7, <2>1
  <2>4. ~Succeeds(t)
    BY <2>1 DEF Succeeds, Done
  <2> QED
    BY <1>4, <1>11, <2>1, <2>2, <2>3, <2>4
<1>17. CASE Reclose(t)
  <2>1. /\ UNCHANGED sock /\ pc = "reclose" /\ AppGoto(t, "reclosing")
        /\ ExecStart(t, 0, Cmd("CLOSE", s))
    BY <1>17 DEF Reclose
  <2>2. app'[t].pc = "reclosing"
    BY <1>8, <2>1
  <2>3. ~stale' => CommandFor(t)'
    <3> SUFFICES ASSUME ~stale' PROVE CommandFor(t)'
      OBVIOUS
    <3>1. Head(toDevice').slot = s /\ Head(toDevice').name = "CLOSE"
      BY <1>3, <2>1, StartAsked DEF AllInv, Names, InCall, Calling
    <3>2. app'[t].slot = s
      BY <2>2 DEF OwnSlot
    <3> QED
      BY <2>2, <3>1, <3>2 DEF CommandFor
  <2> QED
    BY <1>4, <1>11, <2>1, <2>2, <2>3
<1>18. CASE Reclosed(t)
  <2>1. UNCHANGED sock /\ pc = "reclosing" /\ Forget(t)
    BY <1>18 DEF Reclosed
  <2>2. app'[t].pc \in {"open", "failed"}
    BY <1>1, <1>18 DEF Reclosed, AppState
  <2>3. CommandFor(t)'
    BY <1>7, <2>1
  <2> QED
    BY <1>4, <1>11, <2>1, <2>2, <2>3
<1>19. CASE Send(t)
  <2>1. /\ UNCHANGED sock /\ pc = "up" /\ AppGoto(t, "send") /\ ExecStart(t, 2, Cmd("SEND", s))
    BY <1>19 DEF Send
  <2>2. app'[t].pc = "send"
    BY <1>8, <2>1
  <2>3. ~stale' => CommandFor(t)'
    <3> SUFFICES ASSUME ~stale' PROVE CommandFor(t)'
      OBVIOUS
    <3>1. Head(toDevice').slot = s /\ Head(toDevice').name = "SEND"
      BY <1>3, <2>1, StartAsked DEF AllInv, Names, InCall, Calling
    <3>2. app'[t].slot = s
      BY <2>2 DEF OwnSlot
    <3> QED
      BY <2>2, <3>1, <3>2 DEF CommandFor
  <2> QED
    BY <1>4, <1>11, <2>1, <2>2, <2>3
<1>20. CASE SendData(t) \/ SendSocketEvent(t) \/ SendResult(t) \/ SendTimeout(t)
  <2>1. PICK label \in {"send_socket", "send_result", "up"} :
          UNCHANGED sock /\ pc \in Sending /\ AppGoto(t, label)
    <3>1. CASE SendData(t)
      BY <3>1 DEF SendData
    <3>2. CASE SendSocketEvent(t) \/ SendResult(t) \/ SendTimeout(t)
      BY <3>2 DEF SendSocketEvent, SendResult, SendTimeout
    <3> QED
      BY <1>20, <3>1, <3>2
  <2>2. app'[t].pc = label
    BY <1>8, <2>1
  <2>3. CommandFor(t)'
    <3>1. CASE Forget(t)
      BY <1>7, <3>1
    <3>2. CASE SendData(t) /\ ~Forget(t)
      <4>1. ex' = ex /\ Done(t)
        BY <3>2 DEF SendData
      <4> QED
        BY <1>5, <4>1 DEF Done
    <3>3. CASE SendSocketEvent(t)
      BY <1>6, <3>3 DEF SendSocketEvent, clientVars, Calling
    <3> QED
      BY <1>20, <3>1, <3>2, <3>3 DEF SendResult, SendTimeout
  <2> QED
    BY <1>4, <1>11, <2>1, <2>2, <2>3
<1>21. CASE RecvBlock(t) \/ RecvTimeout(t)
  <2>1. PICK label \in {"recv", "up"} :
          UNCHANGED sock /\ pc \in {"up", "recv"} /\ AppGoto(t, label) /\ ex' = ex
    BY <1>21 DEF RecvBlock, RecvTimeout, clientVars
  <2>2. app'[t].pc = label
    BY <1>8, <2>1
  <2>3. CommandFor(t)'
    BY <1>6, <2>1 DEF Calling
  <2> QED
    BY <1>4, <1>11, <2>1, <2>2, <2>3
<1>22. ASSUME NEW r \in SocketEntry, (r.magic <=> w.magic), (r.dead <=> w.dead), r.state = w.state,
              r.conn = w.conn, r.recvpkt = w.recvpkt, pc \in {"up", "recv"}, ex' = ex,
              app'[t].pc \in {"up", "recv"}, TakePackets(s, r) \/ sock' = [sock EXCEPT ![s] = r]
       PROVE  Keeps(t)
  <2>1. CommandFor(t)'
    BY <1>6, <1>22 DEF Calling
  <2>2. CASE sock' = [sock EXCEPT ![s] = r]
    <3>1. sock'[s] = r
      BY <1>1, <2>2
    <3>2. clean => \A e \in Slots : e = s => OwnLink(e)'
      BY <1>9, <1>22, <3>1
    <3> QED
      BY <1>2, <1>4, <1>22, <2>1, <3>1, <3>2 DEF Keeps
  <2>3. CASE TakePackets(s, r)
    <3>1. PICK n \in 0 .. Len(r.recvpkt) :
            sock' = [sock EXCEPT ![s] = [r EXCEPT !.recvpkt = SubSeq(@, n + 1, Len(@))]]
      BY <2>3 DEF TakePackets
    <3> DEFINE q == r.recvpkt
               m == n + 1
               c == SubSeq(q, m, Len(q))
               v == [r EXCEPT !.recvpkt = c]
    <3>2. sock' = [sock EXCEPT ![s] = v]
      BY <3>1
    <3> HIDE DEF c
    <3>3. /\ (v.dead <=> r.dead) /\ v.state = r.state /\ v.conn = r.conn /\ v.recvpkt = c
      BY DEF SocketEntry
    <3> HIDE DEF v
    <3>4. sock'[s] = v
      BY <1>1, <3>2
    <3>5. q \in Seq(1 .. MaxCmds) /\ Len(q) \in Nat /\ m \in Nat /\ m >= 1
      <4>1. q \in Seq(1 .. MaxCmds)
        BY DEF SocketEntry
      <4> QED
        BY <4>1, LenProperties
    <3>6. clean => \A i \in 1 .. Len(c) : c[i] = w.conn
      <4> SUFFICES ASSUME clean PROVE \A i \in 1 .. Len(c) : c[i] = w.conn
        OBVIOUS
      <4>1. \A i \in 1 .. Len(q) : q[i] = w.conn
        BY <1>4, <1>22 DEF OwnLink
      <4> HIDE DEF q, m
      <4>2. \A i \in m .. Len(q) : q[i] \in {w.conn}
        BY <3>5, <4>1
      <4>3. SubSeq(q, m, Len(q)) \in Seq({w.conn})
        BY <3>5, <4>2, SubSeqProperties
      <4>4. c \in Seq({w.conn})
        BY <4>3 DEF c
      <4> QED
        BY <4>4, ElementOfSeq
    <3>7. clean => \A e \in Slots : e = s => OwnLink(e)'
      BY <1>3, <1>4, <1>22, <3>3, <3>4, <3>6 DEF OwnLink
    <3> QED
      BY <1>2, <1>4, <1>22, <2>1, <3>3, <3>4, <3>7 DEF Keeps
  <2> QED
    BY <1>22, <2>2, <2>3
<1>23. CASE RecvLeftover(t)
  <2>1. TakePackets(s, w) /\ app' = app /\ ex' = ex /\ pc = "up"
    BY <1>1, <1>23 DEF RecvLeftover, clientVars
  <2> QED
    BY <1>1, <1>22, <2>1
<1>24. CASE RecvNotice(t)
  <2> DEFINE n == w.recv_notice - 1
             r == [w EXCEPT !.recv_notice = n]
             taken == [Mine(t) EXCEPT !.recv_notice = @ - 1]
  <2>1. n \in Nat /\ taken = r /\ ex' = ex /\ pc = "recv"
    BY <1>1, <1>24 DEF RecvNotice, SocketEntry, clientVars
  <2>2. \/ TakePackets(s, taken) /\ AppGoto(t, "up")
        \/ sock' = [sock EXCEPT ![s] = taken] /\ app' = app
    BY <1>24 DEF RecvNotice
  <2> HIDE DEF taken, n
  <2>3. /\ r \in SocketEntry /\ (r.magic <=> w.magic) /\ (r.dead <=> w.dead) /\ r.state = w.state
        /\ r.conn = w.conn /\ r.recvpkt = w.recvpkt
    BY <1>1, <2>1 DEF SocketEntry
  <2> HIDE DEF r
  <2>4. app'[t].pc \in {"up", "recv"}
    BY <1>8, <2>1, <2>2
  <2> QED
    BY <1>22, <2>1, <2>2, <2>3, <2>4
<1>25. CASE Close(t)
  <2>1. /\ StateTo(s, "closed") /\ pc \in {"up", "failed"} /\ ex' = ex
        /\ AppGoto(t, IF w.state = "closed" THEN "free" ELSE "close")
    BY <1>1, <1>25 DEF Close, clientVars
  <2>2. /\ sock'[s].conn = w.conn /\ sock'[s].recvpkt = w.recvpkt /\ sock'[s].state = "closed"
        /\ (sock'[s].dead <=> w.dead)
    BY <1>1, <2>1 DEF SocketEntry, StateTo
  <2>3. /\ app'[t].pc \in {"free", "close"} /\ (app'[t].pc = "free" => w.state = "closed")
        /\ CommandFor(t)'
    BY <1>6, <1>8, <2>1 DEF Calling
  <2>4. clean => \A e \in Slots : e = s => OwnLink(e)'
    BY <1>9, <2>2
  <2>5. clean /\ app'[t].pc = "free" => Clear(s)
    BY <1>4, <2>1, <2>3
  <2> QED
    BY <1>2, <2>1, <2>2, <2>3, <2>4, <2>5 DEF Keeps
<1>26. CASE CloseLink(t)
  <2>1. /\ UNCHANGED sock /\ pc = "close" /\ AppGoto(t, "closing")
        /\ ExecStart(t, 0, Cmd("CLOSE", s))
    BY <1>26 DEF CloseLink
  <2>2. app'[t].pc = "closing"
    BY <1>8, <2>1
  <2>3. ~stale' => CommandFor(t)' /\ ex'[t].pc = "wait" /\ resp' = t /\ Asked(t)'
    <3> SUFFICES ASSUME ~stale' PROVE CommandFor(t)' /\ ex'[t].pc = "wait" /\ resp' = t /\ Asked(t)'
      OBVIOUS
    <3>1. /\ Head(toDevice').slot = s /\ Head(toDevice').name = "CLOSE"
          /\ ex'[t].pc = "wait" /\ resp' = t /\ Asked(t)'
      BY <1>3, <2>1, StartAsked DEF AllInv, Names, InCall, Calling
    <3>2. app'[t].slot = s
      BY <2>2 DEF OwnSlot
    <3> QED
      BY <2>2, <3>1, <3>2 DEF CommandFor
  <2> QED
    BY <1>11, <2>1, <2>2, <2>3
<1>27. CASE FreeObjects(t)
  <2>1. /\ sock' = [sock EXCEPT ![s].dead = TRUE, ![s].recvpkt = <<>>]
        /\ AppGoto(t, "erase") /\ Forget(t)
        /\ (pc = "closing" /\ Done(t)) \/ pc = "free"
    BY <1>27 DEF FreeObjects, LinkClosed
  <2>2. sock'[s].recvpkt = <<>> /\ sock'[s].state = w.state
    BY <1>1, <2>1 DEF SocketEntry
  <2>3. app'[t].pc = "erase" /\ CommandFor(t)'
    BY <1>7, <1>8, <2>1
  <2>4. clean => Clear(s)
    BY <1>4, <2>1 DEF Done
  <2>5. clean => \A e \in Slots : e = s => OwnLink(e)'
    BY <1>10, <2>2, <2>4
  <2> QED
    BY <1>2, <2>1, <2>2, <2>3, <2>4, <2>5 DEF Keeps
<1>28. CASE FreeEntry(t)
  <2>1. /\ sock' = [sock EXCEPT ![s] = NoSocket] /\ app' = [app EXCEPT ![t] = NoApp]
        /\ pc = "erase" /\ ex' = ex
    BY <1>28 DEF FreeEntry, clientVars
  <2>2. sock'[s] = NoSocket /\ app'[t].pc = "none"
    BY <1>1, <2>1 DEF NoApp
  <2>3. NoSocket.recvpkt = <<>> /\ NoSocket.state = "none"
    BY DEF NoSocket
  <2>4. CommandFor(t)'
    BY <1>6, <2>1 DEF Calling
  <2>5. clean => Clear(s)
    BY <1>4, <2>1
  <2>6. clean => \A e \in Slots : e = s => OwnLink(e)'
    BY <1>10, <2>2, <2>3, <2>5
  <2> QED
    BY <1>2, <2>2, <2>3, <2>4, <2>5, <2>6 DEF Keeps
<1>29. CASE SocketFails(t)
  <2>1. /\ UNCHANGED sock /\ app' = [app EXCEPT ![t] = NoApp] /\ pc = "alloc" /\ ex' = ex
    BY <1>29 DEF SocketFails, clientVars
  <2>2. app'[t].pc = "none"
    BY <1>1, <2>1 DEF NoApp
  <2>3. CommandFor(t)'
    BY <1>6, <2>1 DEF Calling
  <2>4. clean => Clear(s) /\ \A e \in Slots : e = s => OwnLink(e)'
    BY <1>4, <1>9, <2>1
  <2> QED
    BY <1>2, <2>1, <2>2, <2>3, <2>4 DEF Keeps
<1>30. CASE ConnectNoMemory(t)
  <2>1. /\ UNCHANGED sock /\ pc \in {"open", "reclose"} /\ ex' = ex /\ AppGoto(t, "failed")
    BY <1>30 DEF ConnectNoMemory, clientVars
  <2>2. app'[t].pc = "failed"
    BY <1>8, <2>1
  <2>3. CommandFor(t)'
    BY <1>6, <2>1 DEF Calling
  <2> QED
    BY <1>4, <1>11, <2>1, <2>2, <2>3
<1>31. CASE CloseNoMemory(t)
  <2>1. /\ UNCHANGED sock /\ pc = "close" /\ ex' = ex /\ AppGoto(t, "free")
        /\ s \notin orphans' => LinkGone(s)
    BY <1>31 DEF CloseNoMemory, clientVars
  <2>2. app'[t].pc = "free"
    BY <1>8, <2>1
  <2>3. CommandFor(t)'
    BY <1>6, <2>1 DEF Calling
  <2>4. clean => Clear(s)
    BY <1>1, <2>1, GoneClear DEF AllInv
  <2> QED
    BY <1>11, <2>1, <2>2, <2>3, <2>4
<1> QED
  BY <1>12, <1>13, <1>14, <1>15, <1>16, <1>17, <1>18, <1>19, <1>20, <1>21, <1>23, <1>24, <1>25,
     <1>26, <1>27, <1>28, <1>29, <1>30, <1>31 DEF CallerStep

\* A caller gets an entry that was free.
LEMMA SocketLink ==
    ASSUME AllInv, NEW t \in Callers, Socket(t)
    PROVE  EntryInv' /\ LinkInv'
<1> DEFINE n == Min(Free)
           a == [NoApp EXCEPT !.pc = "alloc", !.slot = n]
           v == [NoSocket EXCEPT !.magic = TRUE]
<1>1. n \in Slots /\ ~sock[n].magic
  <2>1. Free \in SUBSET Nat /\ Free # {} /\ Free \subseteq Slots
    BY SocketNumAssumption DEF Free, Slots, Socket
  <2>2. n \in Free
    BY <2>1, LeastOf
  <2> QED
    BY <2>2 DEF Free
<1>2. /\ app \in [Callers -> AppState] /\ sock \in [Slots -> SocketEntry]
      /\ \A u \in Callers : app[u].slot \in Slots
  BY DEF AllInv, TypeInv, AppType, AppState, SockType
<1>3. /\ app' = [app EXCEPT ![t] = a] /\ app[t].pc = "none"
      /\ sock' = [sock EXCEPT ![n].magic = TRUE]
      /\ UNCHANGED <<clientVars, socket_event, link, prompt, orphans>>
  BY DEF Socket, ghosts
<1>4. a.pc = "alloc" /\ a.slot = n
  BY DEF NoApp
<1>5. /\ v.magic /\ v.dead /\ v.state = "none" /\ v.recvpkt = NoSocket.recvpkt
      /\ v.conn = NoSocket.conn
  BY DEF NoSocket
<1> HIDE DEF n, a
<1>6. sock[n] = NoSocket /\ NoSocket.dead
  BY <1>1 DEF AllInv, EntryInv, NoSocket
<1>7. sock'[n] = v /\ \A e \in Slots \ {n} : sock'[e] = sock[e]
  BY <1>1, <1>2, <1>3, <1>6
<1> HIDE DEF v
<1>8. app'[t] = a /\ \A u \in Callers \ {t} : app'[u] = app[u]
  BY <1>2, <1>3
<1>9. \A u \in Callers \ {t} : HasSocket(u) => app[u].slot # n
  BY <1>1 DEF AllInv, SlotInv, Mine
<1>10. \A u \in Callers \ {t} : HasSocket(u) => Mine(u)' = Mine(u)
  BY <1>2, <1>7, <1>8, <1>9 DEF Mine
<1>11. ex' = ex /\ toClient' = toClient /\ link' = link /\ stale' = stale /\ lock' = lock
  BY <1>3 DEF clientVars
<1>12. EntryInv'
  <2>1. \A e \in Slots : /\ ~sock'[e].magic => sock'[e] = NoSocket
                         /\ sock'[e].dead => sock'[e].state # "connect"
    BY <1>5, <1>7 DEF AllInv, EntryInv
  <2>2. ASSUME NEW u \in Callers, HasSocket(u)', Mine(u)'.dead
        PROVE  app'[u].pc \in {"alloc", "erase"}
    BY <1>4, <1>8, <1>10, <2>2 DEF AllInv, EntryInv, HasSocket
  <2>3. ASSUME NEW u \in Callers, HasSocket(u)', Mine(u)'.state = "connect"
        PROVE  app'[u].pc \in Usable
    <3>1. CASE u = t
      BY <1>4, <1>5, <1>7, <1>8, <2>3, <3>1 DEF Mine
    <3>2. CASE u # t
      BY <1>8, <1>10, <2>3, <3>2 DEF AllInv, EntryInv, HasSocket
    <3> QED
      BY <3>1, <3>2
  <2>4. ASSUME NEW u \in Callers, app'[u].pc = "connecting"
        PROVE  Mine(u)'.conn = ex'[u].cmd
    BY <1>4, <1>8, <1>10, <1>11, <2>4 DEF AllInv, EntryInv, HasSocket
  <2> QED
    BY <2>1, <2>2, <2>3, <2>4 DEF EntryInv
<1>13. LinkInv'
  <2> SUFFICES ASSUME ~stale
               PROVE  /\ \A e \in Slots \ orphans : OwnLink(e)' /\ ClosedLast(e)'
                      /\ \A e \in Slots \ orphans : sock'[e].dead => Clear(e)'
                      /\ \A u \in Callers : lock' = u => CommandFor(u)'
                      /\ \A u \in Callers : app'[u].slot \notin orphans => OwnerLink(u)'
    BY <1>3, <1>11 DEF LinkInv
  <2>1. \A e \in Slots : sock'[e].conn = sock[e].conn /\ sock'[e].recvpkt = sock[e].recvpkt
    BY <1>5, <1>6, <1>7
  <2>2. \A e \in Slots \ orphans : OwnLink(e)' /\ ClosedLast(e)'
    BY <1>11, <2>1 DEF AllInv, LinkInv, OwnLink, ClosedLast
  <2>3. \A e \in Slots : Clear(e)' <=> Clear(e)
    BY <1>11 DEF Clear
  <2>4. \A e \in Slots \ orphans : sock'[e].dead => Clear(e)'
    BY <1>6, <1>7, <2>3 DEF AllInv, LinkInv
  <2>5. UNCHANGED <<resp, resp_status, resp_notice, toDevice, prompt, socket_event>>
    BY <1>3 DEF clientVars
  <2>6. \A u \in Callers : Asked(u)' <=> Asked(u)
    BY <1>11, <2>5 DEF Asked
  <2>7. lock # t
    BY <1>3 DEF AllInv, CallInv, CallOK, Holding, InCall, Calling, Confirming, Sending, NoExec
  <2>8. \A u \in Callers : lock' = u => CommandFor(u)'
    BY <1>8, <1>11, <2>5, <2>6, <2>7 DEF AllInv, LinkInv, CommandFor
  <2>9. app'[t].slot \notin orphans => OwnerLink(t)'
    <3>1. n \notin orphans => Clear(n)
      BY <1>1, <1>6 DEF AllInv, LinkInv
    <3> QED
      BY <1>1, <1>4, <1>8, <2>3, <3>1 DEF OwnerLink, Usable, Sending, Confirming
  <2>10. ASSUME NEW u \in Callers, u # t, app'[u].slot \notin orphans PROVE OwnerLink(u)'
    <3> DEFINE e == app[u].slot
    <3>1. OwnerLink(u) /\ app'[u] = app[u] /\ e \in Slots
      BY <1>2, <1>8, <2>10 DEF AllInv, LinkInv
    <3>2. CASE ~HasSocket(u)
      BY <3>1, <3>2 DEF HasSocket, OwnerLink, Unlinked, Usable, Sending, Confirming
    <3>3. CASE HasSocket(u)
      <4>1. sock'[e] = sock[e]
        BY <1>7, <1>9, <2>10, <3>1, <3>3
      <4>2. Succeeds(u)' <=> Succeeds(u)
        BY <1>11, <2>5 DEF Succeeds
      <4>3. AnswerLast(e)' <=> AnswerLast(e)
        BY <1>11, <3>1 DEF AnswerLast
      <4> QED
        BY <1>11, <2>3, <2>5, <2>6, <3>1, <4>1, <4>2, <4>3 DEF OwnerLink
    <3> QED
      BY <3>2, <3>3
  <2> QED
    BY <2>2, <2>4, <2>8, <2>9, <2>10
<1> QED
  BY <1>12, <1>13

\* Every step of a caller keeps the entries and the links.
LEMMA CallerLink ==
    ASSUME AllInv, NEW t \in Callers, CallerStep(t), SlotInv', PhaseInv'
    PROVE  EntryInv' /\ LinkInv'
<1>1. CASE Socket(t)
  BY <1>1, SocketLink
<1>2. CASE ~Socket(t)
  <2>1. OwnSlot(t)
    BY <1>2, SlotSteps DEF AllInv
  <2>2. Keeps(t)
    BY <1>2, <2>1, OwnerKeeps
  <2> QED
    BY <2>1, <2>2, KeepsAll
<1> QED
  BY <1>1, <1>2

\* So does every step of at_obj_exec_cmd.
LEMMA ExecLink ==
    ASSUME AllInv, NEW t \in Callers, ExecStep(t)
    PROVE  EntryInv' /\ LinkInv'
<1>1. /\ ex \in [Callers -> ExecCall] /\ ex[t] \in ExecCall
      /\ UNCHANGED <<sock, app, link, socket_event, prompt, toClient, toDevice, orphans>>
      /\ (Holding(t) <=> lock = t)
  BY DEF AllInv, TypeInv, ClientTypeOK, ExecCall, CallInv, ExecStep, socketVars, ExecWake, ExecTimeout,
         ExecExit, ghosts
<1>2. /\ ex[t].pc \in {"wait", "exit"} /\ ex'[t].pc \in {"exit", "done"} /\ ex'[t].cmd = ex[t].cmd
      /\ \A u \in Callers \ {t} : ex'[u] = ex[u]
  <2>1. CASE ExecWake(t)
    BY <1>1, <2>1 DEF ExecWake, ExecCall
  <2>2. CASE ExecTimeout(t)
    BY <1>1, <2>2 DEF ExecTimeout, ExecCall
  <2>3. CASE ExecExit(t, app[t].pc = "send")
    BY <1>1, <2>3 DEF ExecExit, ExecCall
  <2> QED
    BY <2>1, <2>2, <2>3 DEF ExecStep
<1>3. lock = t
  BY <1>1, <1>2 DEF Holding
<1>4. EntryInv'
  <2>1. \A u \in Callers : ex'[u].cmd = ex[u].cmd
    BY <1>2
  <2> QED
    BY <1>1, <2>1 DEF AllInv, EntryInv, HasSocket, Mine
<1>5. LinkInv'
  <2> SUFFICES ASSUME ~stale' PROVE LinkInv'
    BY DEF LinkInv
  <2>1. ~stale /\ (ExecWake(t) \/ ExecExit(t, app[t].pc = "send"))
    BY DEF ExecStep, ExecWake, ExecTimeout, ExecExit
  <2>2. /\ \A e \in Slots \ orphans : OwnLink(e)' /\ ClosedLast(e)'
        /\ \A e \in Slots : Clear(e)' <=> Clear(e)
    BY <1>1, <2>1 DEF AllInv, LinkInv, OwnLink, ClosedLast, Clear
  <2>3. lock' \in {None, t}
    BY <1>3, <2>1 DEF ExecWake, ExecExit
  <2>4. \A u \in Callers : lock' = u => CommandFor(u)'
    BY <1>2, <2>3, CallersAssumption DEF CommandFor, Asked
  <2>5. ASSUME NEW u \in Callers, u # t, app[u].slot \notin orphans PROVE OwnerLink(u)'
    <3>1. OwnerLink(u) /\ app[u].slot \in Slots /\ ex'[u] = ex[u]
      BY <1>2, <2>1, <2>5 DEF AllInv, LinkInv, TypeInv, AppType, AppState
    <3>2. ex[u].pc # "wait"
      BY <1>3, <2>5 DEF AllInv, CallInv, Holding
    <3>3. Succeeds(u)' <=> Succeeds(u)
      BY <3>1, <3>2 DEF Succeeds
    <3> QED
      BY <1>1, <2>2, <3>1, <3>2, <3>3 DEF OwnerLink
  <2>6. ASSUME app[t].slot \notin orphans PROVE OwnerLink(t)'
    <3> DEFINE e == app[t].slot
    <3>1. OwnerLink(t) /\ e \in Slots /\ CallOK(t)
      BY <2>1, <2>6 DEF AllInv, LinkInv, TypeInv, AppType, AppState, CallInv
    <3>2. app[t].pc \in Calling
      <4>1. NoExec.pc = "idle"
        BY DEF NoExec
      <4> QED
        BY <1>2, <3>1, <4>1 DEF CallOK, InCall
    <3>3. Ended(t)
      <4>1. Phase(t)
        BY <1>3, <2>1 DEF AllInv, PhaseInv
      <4>2. CASE ExecWake(t)
        BY <3>2, <4>1, <4>2 DEF ExecWake, Phase, Asked, Answered, Confirms, Calling
      <4>3. CASE ExecExit(t, app[t].pc = "send")
        BY <3>2, <4>1, <4>3 DEF ExecExit, Phase, Asked, Answered, Confirms, Calling
      <4> QED
        BY <2>1, <4>2, <4>3
    <3>4. resp # t
      BY <3>3, CallersAssumption DEF Ended
    <3>5. Succeeds(t) => Succeeds(t)'
      <4>1. CASE ExecWake(t)
        <5>1. ex[t].pc = "wait" /\ ex'[t].result = IF resp_status = "OK" THEN "OK" ELSE "ERROR"
          BY <1>1, <4>1 DEF ExecWake, ExecCall
        <5> QED
          BY <1>2, <3>4, <5>1 DEF Succeeds
      <4>2. CASE ExecExit(t, app[t].pc = "send")
        <5>1. ex[t].pc = "exit" /\ ex'[t].result = ex[t].result
          BY <1>1, <4>2 DEF ExecExit, ExecCall
        <5> QED
          BY <1>2, <5>1 DEF Succeeds
      <4> QED
        BY <2>1, <4>1, <4>2
    <3>6. app[t].pc = "closing" => Clear(e)
      BY <3>1, <3>4 DEF OwnerLink
    <3> QED
      BY <1>1, <2>2, <3>1, <3>5, <3>6 DEF OwnerLink
  <2>7. \A e \in Slots \ orphans : sock'[e].dead => Clear(e)'
    BY <1>1, <2>1, <2>2 DEF AllInv, LinkInv
  <2> QED
    BY <1>1, <2>2, <2>4, <2>5, <2>6, <2>7 DEF LinkInv
<1> QED
  BY <1>4, <1>5

-----------------------------------------------------------------------------
(***************************************************************************)
(* The parser.                                                             *)
(***************************************************************************)

\* What reading the line h does to the table: the callbacks touch the entry
\* of their link, never a free one, and change no more than its list, its
\* notices and its state.
LEMMA ParseEntries ==
    ASSUME TypeInv, Parse, NEW h, h = Head(toClient)
    PROVE  /\ h \in Lines /\ h.slot \in Slots
           /\ \A e \in Slots : /\ sock'[e].magic <=> sock[e].magic
                               /\ sock'[e].dead <=> sock[e].dead
                               /\ sock'[e].conn = sock[e].conn
                               /\ ~sock[e].magic => sock'[e] = sock[e]
                               /\ ~About(h, e) => sock'[e] = sock[e]
                               /\ \/ sock'[e].recvpkt = sock[e].recvpkt
                                  \/ /\ About(h, e) /\ h.kind = "+IPD"
                                     /\ sock'[e].recvpkt = Append(sock[e].recvpkt, h.cmd)
                               /\ \/ sock'[e].state = sock[e].state
                                  \/ About(h, e) /\ h.kind = "CLOSED" /\ sock'[e].state = "closed"
           /\ deadUse' => deadUse \/ \E e \in Slots \ orphans : About(h, e) /\ sock[e].dead
<1> DEFINE s == h.slot
           n == sock[s].recv_notice + 1
           q == Append(sock[s].recvpkt, h.cmd)
           full == [sock[s] EXCEPT !.recvpkt = q, !.recv_notice = n]
           bare == [sock[s] EXCEPT !.recv_notice = n]
           shut == [sock[s] EXCEPT !.state = "closed", !.recv_notice = n]
<1>1. toClient \in Seq(Lines) /\ toClient # <<>>
  BY DEF Parse, TypeInv, LineType
<1>2. h \in Lines
  BY <1>1, HeadTailProperties
<1>3. /\ s \in Slots /\ sock \in [Slots -> SocketEntry] /\ sock[s] \in SocketEntry
  BY <1>2 DEF Lines, TypeInv, SockType
<1>4. \/ UNCHANGED <<sock, deadUse>>
      \/ h.kind = "+IPD" /\ ParseData(h)
      \/ h.kind = "CLOSED" /\ ParseClosed(h)
  BY DEF Parse, ParseSend
<1>5. \/ sock' = sock /\ deadUse' = deadUse
      \/ /\ sock[s].magic /\ deadUse' = (deadUse \/ UsesDead(h))
         /\ \/ h.kind = "+IPD" /\ sock' = [sock EXCEPT ![s] = full]
            \/ h.kind = "+IPD" /\ sock' = [sock EXCEPT ![s] = bare]
            \/ h.kind = "CLOSED" /\ sock' = [sock EXCEPT ![s] = shut]
  <2>1. CASE ParseData(h) /\ h.kind = "+IPD"
    BY <1>3, <2>1 DEF ParseData, Received
  <2>2. CASE ParseClosed(h) /\ h.kind = "CLOSED"
    BY <1>3, <2>2 DEF ParseClosed
  <2> QED
    BY <1>4, <2>1, <2>2
<1> HIDE DEF q, n
<1>6. /\ (full.magic <=> sock[s].magic) /\ (full.dead <=> sock[s].dead)
      /\ full.conn = sock[s].conn /\ full.recvpkt = q /\ full.state = sock[s].state
  BY <1>3 DEF SocketEntry
<1>7. /\ (bare.magic <=> sock[s].magic) /\ (bare.dead <=> sock[s].dead)
      /\ bare.conn = sock[s].conn /\ bare.recvpkt = sock[s].recvpkt /\ bare.state = sock[s].state
  BY <1>3 DEF SocketEntry
<1>8. /\ (shut.magic <=> sock[s].magic) /\ (shut.dead <=> sock[s].dead)
      /\ shut.conn = sock[s].conn /\ shut.recvpkt = sock[s].recvpkt /\ shut.state = "closed"
  BY <1>3 DEF SocketEntry
<1> HIDE DEF full, bare, shut
<1>9. h.kind \in {"+IPD", "CLOSED"} => About(h, s)
  BY DEF About, Urc
<1>10. \A e \in Slots : e # s => sock'[e] = sock[e]
  BY <1>3, <1>5
<1>11. deadUse' => deadUse \/ \E e \in Slots \ orphans : About(h, e) /\ sock[e].dead
  BY <1>3, <1>5, <1>9 DEF UsesDead
<1>12. /\ sock'[s].magic <=> sock[s].magic
       /\ sock'[s].dead <=> sock[s].dead
       /\ sock'[s].conn = sock[s].conn
       /\ ~sock[s].magic => sock'[s] = sock[s]
       /\ ~About(h, s) => sock'[s] = sock[s]
       /\ \/ sock'[s].recvpkt = sock[s].recvpkt
          \/ About(h, s) /\ h.kind = "+IPD" /\ sock'[s].recvpkt = q
       /\ \/ sock'[s].state = sock[s].state
          \/ About(h, s) /\ h.kind = "CLOSED" /\ sock'[s].state = "closed"
  BY <1>3, <1>5, <1>6, <1>7, <1>8, <1>9
<1> QED
  BY <1>2, <1>3, <1>10, <1>11, <1>12 DEF q

\* ... and to the calls: it may end the one whose response is in place.
LEMMA ParseCalls ==
    ASSUME TypeInv, Parse, NEW h, h = Head(toClient), NEW t \in Callers
    PROVE  /\ ex'[t].pc = ex[t].pc /\ ex'[t].cmd = ex[t].cmd /\ ex'[t].result = ex[t].result
           /\ resp' \in {resp, None}
           /\ h.kind \in Urc =>
                 UNCHANGED <<resp, resp_status, resp_notice, ex, socket_event>>
           /\ resp = None => UNCHANGED <<resp, resp_status>>
           /\ resp = t /\ ex[t].line_num = 0 /\ h.kind = "OK" => resp' = None /\ resp_status' = "OK"
<1>1. ex \in [Callers -> ExecCall] /\ ex[t] \in ExecCall /\ resp \in Callers \cup {None}
  BY DEF TypeInv, ClientTypeOK, ExecCall
<1>2. \/ h.kind \in {"OK", "ERROR", "INFO"} /\ ParseResponse(h)
      \/ /\ h.kind \notin {"OK", "ERROR", "INFO"}
         /\ UNCHANGED <<resp, resp_status, resp_notice, ex>>
         /\ h.kind \in Urc => UNCHANGED socket_event
  BY DEF Parse, ParseData, ParseClosed, SendResults, Urc
<1>3. CASE h.kind \in {"OK", "ERROR", "INFO"} /\ ParseResponse(h)
  <2>1. h.kind \notin Urc
    BY <1>3 DEF Urc
  <2>2. CASE resp = None
    BY <1>3, <2>1, <2>2, CallersAssumption DEF ParseResponse
  <2>3. CASE resp # None
    <3> DEFINE r == resp
               end == EndStatus(ex[resp], h)
    <3>1. \/ /\ end = "none" /\ ex' = [ex EXCEPT ![r].line_counts = @ + 1]
             /\ UNCHANGED <<resp, resp_status, resp_notice>>
          \/ /\ end # "none"
             /\ ex' = [ex EXCEPT ![r].line_counts = @ + 1, ![r].end = h.cmd]
             /\ resp_status' = end /\ resp' = None
      BY <1>3, <2>3 DEF ParseResponse
    <3>2. r \in Callers /\ ex[r] \in ExecCall
      BY <1>1, <2>3
    <3>3. resp = t /\ ex[t].line_num = 0 /\ h.kind = "OK" => end = "OK"
      BY DEF EndStatus
    <3> HIDE DEF r, end
    <3>4. ex'[t].pc = ex[t].pc /\ ex'[t].cmd = ex[t].cmd /\ ex'[t].result = ex[t].result
      BY <1>1, <3>1, <3>2 DEF ExecCall
    <3> QED
      BY <2>1, <2>3, <3>1, <3>3, <3>4
  <2> QED
    BY <2>2, <2>3
<1>4. CASE /\ h.kind \notin {"OK", "ERROR", "INFO"}
           /\ UNCHANGED <<resp, resp_status, resp_notice, ex>>
           /\ h.kind \in Urc => UNCHANGED socket_event
  BY <1>4
<1> QED
  BY <1>2, <1>3, <1>4

\* The command that a caller waits for while the module has not read it.
LEMMA AskedBefore ==
    ASSUME PhaseInv, ~stale, NEW t \in Callers, lock = t, resp = t, toDevice # <<>>
    PROVE  Asked(t)
BY CallersAssumption DEF PhaseInv, Phase, Answered, Ended, Confirms, NothingUnderway

\* The parser reads a line: the lines about a link only get fewer, what it
\* puts into a list came over the socket's own link, and CLOSED, the last of
\* them, is what makes it mark the socket closed.
LEMMA ParseLink ==
    ASSUME AllInv, Parse
    PROVE  EntryInv' /\ LinkInv'
<1> DEFINE h == Head(toClient)
           q == toClient
           n == Len(toClient)
<1>1. /\ q \in Seq(Lines) /\ q # <<>> /\ toClient' = Tail(q)
      /\ UNCHANGED <<lock, toDevice, stale, app, link, prompt, orphans>>
  BY DEF Parse, AllInv, TypeInv, LineType
<1>2. /\ h \in Lines /\ h.slot \in Slots
      /\ \A e \in Slots : /\ sock'[e].magic <=> sock[e].magic
                          /\ sock'[e].dead <=> sock[e].dead
                          /\ sock'[e].conn = sock[e].conn
                          /\ ~sock[e].magic => sock'[e] = sock[e]
                          /\ ~About(h, e) => sock'[e] = sock[e]
                          /\ \/ sock'[e].recvpkt = sock[e].recvpkt
                             \/ /\ About(h, e) /\ h.kind = "+IPD"
                                /\ sock'[e].recvpkt = Append(sock[e].recvpkt, h.cmd)
                          /\ \/ sock'[e].state = sock[e].state
                             \/ About(h, e) /\ h.kind = "CLOSED" /\ sock'[e].state = "closed"
  BY ParseEntries DEF AllInv
<1>3. \A t \in Callers :
        /\ ex'[t].pc = ex[t].pc /\ ex'[t].cmd = ex[t].cmd /\ ex'[t].result = ex[t].result
        /\ resp' \in {resp, None}
        /\ h.kind \in Urc => UNCHANGED <<resp, resp_status, resp_notice, ex, socket_event>>
        /\ resp = None => UNCHANGED <<resp, resp_status>>
        /\ resp = t /\ ex[t].line_num = 0 /\ h.kind = "OK" => resp' = None /\ resp_status' = "OK"
  BY ParseCalls DEF AllInv
<1>4. /\ h = q[1] /\ n \in Nat \ {0} /\ Len(toClient') = n - 1
      /\ \A i \in 1 .. n - 1 : toClient'[i] = q[i + 1]
  BY <1>1, ReadPlaces
<1>5. /\ 1 \in 1 .. n
      /\ \A i \in 1 .. n - 1 : i + 1 \in 1 .. n /\ i + 1 > 1
      /\ \A i \in 1 .. n : i # 1 => i > 1 /\ i - 1 \in 1 .. n - 1 /\ (i - 1) + 1 = i
      /\ \A i, j \in 1 .. n - 1 : j > i <=> j + 1 > i + 1
  BY <1>4
<1>6. \A t \in Callers : app[t].slot \in Slots /\ app'[t] = app[t]
  BY <1>1 DEF AllInv, TypeInv, AppType, AppState
<1>7. /\ Quiet(toClient) => h.kind \in Urc /\ Quiet(toClient')
      /\ \A kinds, cmd : One(toClient, kinds, cmd) =>
            \/ h.kind \in Urc /\ One(toClient', kinds, cmd)
            \/ h.kind \in kinds /\ h.cmd = cmd /\ Quiet(toClient')
  BY <1>1, LineRead
<1> HIDE DEF h, q, n
<1>8. EntryInv'
  <2>1. \A e \in Slots : /\ ~sock'[e].magic => sock'[e] = NoSocket
                         /\ sock'[e].dead => sock'[e].state # "connect"
    BY <1>2 DEF AllInv, EntryInv
  <2>2. ASSUME NEW t \in Callers, HasSocket(t)', Mine(t)'.dead
        PROVE  app'[t].pc \in {"alloc", "erase"}
    <3>1. HasSocket(t) /\ sock'[app[t].slot].dead
      BY <1>1, <2>2 DEF HasSocket, Mine
    <3>2. Mine(t).dead
      BY <1>2, <1>6, <3>1 DEF Mine
    <3> QED
      BY <1>6, <3>1, <3>2 DEF AllInv, EntryInv
  <2>3. ASSUME NEW t \in Callers, HasSocket(t)', Mine(t)'.state = "connect"
        PROVE  app'[t].pc \in Usable
    <3>1. HasSocket(t) /\ sock'[app[t].slot].state = "connect"
      BY <1>1, <2>3 DEF HasSocket, Mine
    <3>2. Mine(t).state = "connect"
      BY <1>2, <1>6, <3>1 DEF Mine
    <3> QED
      BY <1>6, <3>1, <3>2 DEF AllInv, EntryInv
  <2>4. \A t \in Callers : app'[t].pc = "connecting" => Mine(t)'.conn = ex'[t].cmd
    BY <1>1, <1>2, <1>3, <1>6 DEF AllInv, EntryInv, Mine
  <2> QED
    BY <2>1, <2>2, <2>3, <2>4 DEF EntryInv
<1>9. LinkInv'
  <2> SUFFICES ASSUME ~stale
               PROVE  /\ \A e \in Slots \ orphans : OwnLink(e)' /\ ClosedLast(e)'
                      /\ \A e \in Slots \ orphans : sock'[e].dead => Clear(e)'
                      /\ \A t \in Callers : lock' = t => CommandFor(t)'
                      /\ \A t \in Callers : app[t].slot \notin orphans => OwnerLink(t)'
    BY <1>1 DEF LinkInv
  <2>1. \A e \in Slots \ orphans : OwnLink(e) /\ ClosedLast(e) /\ (sock[e].dead => Clear(e))
    BY DEF AllInv, LinkInv
  <2>2. \A t \in Callers : (lock = t => CommandFor(t)) /\ CallOK(t)
    BY DEF AllInv, LinkInv, CallInv
  <2>3. ASSUME NEW e \in Slots, link[e] = 0, \A j \in 1 .. n : j > 1 => ~About(q[j], e)
        PROVE  Clear(e)'
    BY <1>1, <1>4, <1>5, <2>3 DEF Clear, NoneAbout
  <2>4. \A e \in Slots : Clear(e) => Clear(e)' /\ ~About(h, e)
    BY <1>4, <1>5, <2>3 DEF Clear, NoneAbout, q, n
  <2>5. ASSUME NEW e \in Slots \ orphans PROVE OwnLink(e)'
    <3>1. link'[e] # 0 => link'[e] = sock'[e].conn
      BY <1>1, <1>2, <2>1 DEF OwnLink
    <3>2. \A i \in 1 .. n : About(q[i], e) /\ q[i].kind = "+IPD" => q[i].cmd = sock[e].conn
      BY <2>1 DEF OwnLink, q, n
    <3>3. \A i \in 1 .. n - 1 : About(toClient'[i], e) /\ toClient'[i].kind = "+IPD" =>
            toClient'[i].cmd = sock'[e].conn
      BY <1>2, <1>4, <1>5, <3>2
    <3>4. \A i \in 1 .. Len(sock'[e].recvpkt) : sock'[e].recvpkt[i] = sock'[e].conn
      <4> DEFINE p == sock[e].recvpkt
                 k == sock[e].conn
      <4>1. p \in Seq(1 .. MaxCmds) /\ \A i \in 1 .. Len(p) : p[i] = k
        BY <2>1 DEF OwnLink, AllInv, TypeInv, SockType, SocketEntry
      <4>2. CASE sock'[e].recvpkt = p
        BY <1>2, <4>1, <4>2
      <4>3. CASE About(h, e) /\ h.kind = "+IPD" /\ sock'[e].recvpkt = Append(p, h.cmd)
        <5>1. h.cmd = k
          BY <1>4, <1>5, <3>2, <4>3
        <5> HIDE DEF p, k
        <5>2. \A i \in 1 .. Len(Append(p, k)) : Append(p, k)[i] = k
          BY <4>1
        <5> QED
          BY <1>2, <4>3, <5>1, <5>2 DEF k
      <4> QED
        BY <1>2, <4>2, <4>3
    <3> QED
      BY <1>4, <3>1, <3>3, <3>4 DEF OwnLink
  <2>6. ASSUME NEW e \in Slots \ orphans PROVE ClosedLast(e)'
    <3>1. \A i \in 1 .. n : About(q[i], e) /\ q[i].kind = "CLOSED" =>
            link[e] = 0 /\ \A j \in 1 .. n : j > i => ~About(q[j], e)
      BY <2>1 DEF ClosedLast, q, n
    <3>2. ASSUME NEW i \in 1 .. n - 1, About(toClient'[i], e), toClient'[i].kind = "CLOSED"
          PROVE  link'[e] = 0 /\ \A j \in 1 .. n - 1 : j > i => ~About(toClient'[j], e)
      <4>1. i + 1 \in 1 .. n /\ About(q[i + 1], e) /\ q[i + 1].kind = "CLOSED"
        BY <1>4, <1>5, <3>2
      <4>2. link[e] = 0 /\ \A j \in 1 .. n : j > i + 1 => ~About(q[j], e)
        BY <3>1, <4>1
      <4> QED
        BY <1>1, <1>4, <1>5, <4>2
    <3> QED
      BY <1>4, <3>2 DEF ClosedLast
  <2>7. \A e \in Slots \ orphans : sock'[e].dead => Clear(e)'
    BY <1>2, <2>1, <2>4
  <2>8. ASSUME NEW t \in Callers, lock' = t PROVE CommandFor(t)'
    <3> SUFFICES ASSUME Asked(t)' PROVE CommandFor(t)'
      BY DEF CommandFor
    <3>1. resp' = t /\ toDevice # <<>>
      <4>1. PICK c \in Commands : toDevice' = <<c>>
        BY DEF Asked
      <4>2. toDevice' # <<>>
        BY <4>1
      <4> QED
        BY <1>1, <4>2 DEF Asked
    <3>2. lock = t /\ resp = t
      BY <1>1, <1>3, <2>8, <3>1, CallersAssumption
    <3>3. Asked(t)
      BY <3>1, <3>2, AskedBefore DEF AllInv
    <3> QED
      BY <1>1, <2>2, <3>2, <3>3 DEF CommandFor
  <2>9. ASSUME NEW t \in Callers, app[t].slot \notin orphans PROVE OwnerLink(t)'
    <3> DEFINE s == app[t].slot
    <3>0. OwnerLink(t) /\ CallOK(t)
      BY <2>2, <2>9 DEF AllInv, LinkInv
    <3>1. s \in Slots \ orphans /\ s \in Slots /\ app'[t] = app[t]
      BY <1>6, <2>9
    <3>2. app[t].pc \in Unlinked => Clear(s)'
      BY <2>4, <3>0, <3>1 DEF OwnerLink
    <3>3. Clear(s) => sock'[s] = sock[s]
      BY <1>2, <2>4, <3>1
    <3>4. app[t].pc \in {"open", "reclose", "reclosing"} => sock'[s].recvpkt = <<>>
      BY <3>0, <3>3 DEF OwnerLink, Unlinked
    <3>5. app[t].pc = "connecting" => Succeeds(t)' \/ (Clear(s)' /\ sock'[s].recvpkt = <<>>)
      <4> SUFFICES ASSUME app[t].pc = "connecting", Succeeds(t) PROVE Succeeds(t)'
        BY <2>4, <3>0, <3>1, <3>3 DEF OwnerLink
      <4>1. ex[t].line_num = 0
        BY <3>0 DEF CallOK, InCall, Calling, Sending, Confirming
      <4>2. CASE ex[t].pc = "wait" /\ resp = t /\ One(toClient, {"OK"}, ex[t].cmd)
        <5>1. \/ h.kind \in Urc /\ One(toClient', {"OK"}, ex[t].cmd)
              \/ h.kind = "OK"
          BY <1>7, <4>2
        <5> QED
          BY <1>3, <4>1, <4>2, <5>1 DEF Succeeds
      <4>3. CASE ex[t].pc = "wait" /\ resp = None /\ resp_status = "OK"
        BY <1>3, <4>3 DEF Succeeds
      <4>4. CASE ex[t].pc \in {"exit", "done"} /\ ex[t].result = "OK"
        BY <1>3, <4>4 DEF Succeeds
      <4> QED
        BY <4>2, <4>3, <4>4 DEF Succeeds
    <3>6. app[t].pc = "closing" =>
            \/ Clear(s)'
            \/ ex'[t].pc = "wait" /\ resp' = t /\ (Asked(t)' \/ AnswerLast(s)')
      <4> SUFFICES ASSUME app[t].pc = "closing", ex[t].pc = "wait", resp = t,
                          Asked(t) \/ AnswerLast(s)
                   PROVE  \/ Clear(s)'
                          \/ ex'[t].pc = "wait" /\ resp' = t /\ (Asked(t)' \/ AnswerLast(s)')
        BY <2>4, <3>0, <3>1 DEF OwnerLink
      <4>1. CASE Asked(t)
        <5>1. h.kind \in Urc /\ Quiet(toClient')
          BY <1>7, <4>1 DEF Asked
        <5>2. UNCHANGED <<resp, resp_notice, ex, socket_event>>
          BY <1>3, <5>1
        <5> QED
          BY <1>1, <4>1, <5>1, <5>2 DEF Asked
      <4>2. CASE ~Asked(t)
        <5>1. PICK i \in 1 .. n : /\ link[s] = 0 /\ q[i].kind \notin Urc
                                  /\ \A j \in 1 .. n : j > i => ~About(q[j], s)
          BY <4>2 DEF AnswerLast, q, n
        <5>2. CASE i = 1
          BY <2>3, <3>1, <5>1, <5>2
        <5>3. CASE i # 1
          <6>1. h.kind \in Urc
            <7> SUFFICES ASSUME h.kind \notin Urc PROVE FALSE
              OBVIOUS
            <7>1. lock = t
              BY CallersAssumption DEF AllInv, CallInv, RespOfHolder
            <7>2. Answered(t)
              BY <4>2, <7>1, CallersAssumption DEF AllInv, PhaseInv, Phase, Ended, Confirms
            <7>3. ex[t].line_num = 0
              BY <3>0 DEF CallOK, InCall, Calling, Sending, Confirming
            <7>4. One(toClient, {"OK", "ERROR"}, ex[t].cmd)
              BY <7>2, <7>3 DEF Answered
            <7>5. Quiet(toClient')
              BY <1>7, <7>4
            <7> QED
              BY <1>4, <1>5, <5>1, <5>3, <7>5 DEF Quiet
          <6> DEFINE k == i - 1
          <6>2. k \in 1 .. n - 1 /\ k + 1 = i
            BY <1>5, <5>3
          <6> HIDE DEF k
          <6>3. toClient'[k].kind \notin Urc /\ \A j \in 1 .. n - 1 : j > k => j + 1 > i
            BY <1>4, <1>5, <5>1, <6>2
          <6>4. \A j \in 1 .. n - 1 : j > k => ~About(toClient'[j], s)
            BY <1>4, <1>5, <5>1, <6>3
          <6>5. AnswerLast(s)'
            BY <1>1, <1>4, <5>1, <6>2, <6>3, <6>4 DEF AnswerLast
          <6> QED
            BY <1>3, <6>1, <6>5
        <5> QED
          BY <5>2, <5>3
      <4> QED
        BY <4>1, <4>2
    <3>7. app[t].pc \in Usable /\ sock'[s].state = "closed" => Clear(s)'
      <4> SUFFICES ASSUME app[t].pc \in Usable, sock'[s].state = "closed" PROVE Clear(s)'
        OBVIOUS
      <4>1. CASE sock[s].state = "closed"
        BY <2>4, <3>0, <3>1, <4>1 DEF OwnerLink
      <4>2. CASE sock[s].state # "closed"
        <5>1. About(h, s) /\ h.kind = "CLOSED"
          BY <1>2, <3>1, <4>2
        <5>2. ClosedLast(s) /\ About(q[1], s) /\ q[1].kind = "CLOSED"
          BY <1>4, <2>1, <3>1, <5>1
        <5>3. link[s] = 0 /\ \A j \in 1 .. n : j > 1 => ~About(q[j], s)
          BY <1>5, <5>2 DEF ClosedLast, q, n
        <5> QED
          BY <2>3, <3>1, <5>3
      <4> QED
        BY <4>1, <4>2
    <3> QED
      BY <3>1, <3>2, <3>4, <3>5, <3>6, <3>7 DEF OwnerLink
  <2> QED
    BY <2>5, <2>6, <2>7, <2>8, <2>9
<1> QED
  BY <1>8, <1>9

-----------------------------------------------------------------------------
(***************************************************************************)
(* The module and the servers.                                             *)
(***************************************************************************)

\* The module adds the line l, and perhaps the line that ends an answer.
Adds(l) ==
    LET n == Len(toClient)
        m == Len(toClient')
    IN
    /\ n \in Nat /\ m \in {n + 1, n + 2}
    /\ \A i \in 1 .. n : toClient'[i] = toClient[i]
    /\ toClient'[n + 1] = l
    /\ m = n + 2 => toClient'[n + 2].kind \notin Urc

\* One or two lines at the end.
LEMMA LinesAdded ==
    ASSUME TypeInv, NEW l \in Lines, NEW m \in Lines,
           \/ toClient' = toClient \o <<l>>
           \/ toClient' = toClient \o <<l, m>> /\ m.kind \notin Urc
    PROVE  Adds(l)
<1>1. toClient \in Seq(Lines) /\ Len(toClient) \in Nat
  BY LenProperties DEF TypeInv, LineType
<1>2. CASE toClient' = toClient \o <<l>>
  <2>1. /\ Len(toClient') = Len(toClient) + 1 /\ toClient'[Len(toClient) + 1] = l
        /\ \A i \in 1 .. Len(toClient) : toClient'[i] = toClient[i]
    BY <1>1, <1>2, AddedPlaces
  <2> QED
    BY <1>1, <2>1 DEF Adds
<1>3. CASE toClient' = toClient \o <<l, m>> /\ m.kind \notin Urc
  <2>1. /\ Len(toClient') = Len(toClient) + 2 /\ toClient'[Len(toClient) + 1] = l
        /\ toClient'[Len(toClient) + 2] = m
        /\ \A i \in 1 .. Len(toClient) : toClient'[i] = toClient[i]
    BY <1>1, <1>3, AddedPlaces
  <2> QED
    BY <1>1, <1>3, <2>1 DEF Adds
<1> QED
  BY <1>2, <1>3

\* The lines about a slot the added line is not about stay as they are ...
LEMMA OtherAdded ==
    ASSUME NEW l, Adds(l), NEW s \in Slots, ~About(l, s), link'[s] = link[s], sock'[s] = sock[s]
    PROVE  /\ Clear(s) => Clear(s)'
           /\ OwnLink(s) => OwnLink(s)'
           /\ ClosedLast(s) => ClosedLast(s)'
           /\ AnswerLast(s) => AnswerLast(s)'
<1> DEFINE n == Len(toClient)
           m == Len(toClient')
           q == toClient
           x == toClient'
<1>1. /\ n \in Nat /\ m \in {n + 1, n + 2} /\ \A i \in 1 .. n : x[i] = q[i]
      /\ ~About(x[n + 1], s) /\ (m = n + 2 => ~About(x[n + 2], s))
  BY DEF Adds, About
<1>2. /\ \A i \in 1 .. n : i \in 1 .. m
      /\ \A i \in 1 .. m : i \in 1 .. n \/ i = n + 1 \/ (i = n + 2 /\ m = n + 2)
  BY <1>1
<1>3. \A i \in 1 .. m : About(x[i], s) => i \in 1 .. n /\ x[i] = q[i]
  BY <1>1, <1>2
<1>4. Clear(s) => Clear(s)'
  BY <1>3 DEF Clear, NoneAbout
<1>5. OwnLink(s) => OwnLink(s)'
  BY <1>3 DEF OwnLink
<1>6. ClosedLast(s) => ClosedLast(s)'
  BY <1>3 DEF ClosedLast
<1>7. AnswerLast(s) => AnswerLast(s)'
  <2> SUFFICES ASSUME AnswerLast(s) PROVE AnswerLast(s)'
    OBVIOUS
  <2>1. PICK i \in 1 .. n : /\ link[s] = 0 /\ q[i].kind \notin Urc
                            /\ \A j \in 1 .. n : j > i => ~About(q[j], s)
    BY DEF AnswerLast
  <2>2. i \in 1 .. m /\ x[i].kind \notin Urc
    BY <1>1, <1>2, <2>1
  <2>3. \A j \in 1 .. m : j > i => ~About(x[j], s)
    BY <1>3, <2>1
  <2> QED
    BY <2>1, <2>2, <2>3 DEF AnswerLast
<1> QED
  BY <1>4, <1>5, <1>6, <1>7

\* ... and the one it is about has a link, whose lines it follows.
LEMMA OwnAdded ==
    ASSUME NEW l, Adds(l), NEW s \in Slots, About(l, s), l.cmd = link[s], link[s] # 0,
           sock'[s] = sock[s], OwnLink(s), ClosedLast(s),
           link'[s] = 0 \/ (link'[s] = link[s] /\ l.kind = "+IPD")
    PROVE  OwnLink(s)' /\ ClosedLast(s)'
<1> DEFINE n == Len(toClient)
           m == Len(toClient')
           q == toClient
           x == toClient'
<1>1. /\ n \in Nat /\ m \in {n + 1, n + 2} /\ \A i \in 1 .. n : x[i] = q[i]
      /\ x[n + 1] = l /\ (m = n + 2 => ~About(x[n + 2], s))
  BY DEF Adds, About
<1>2. \A i \in 1 .. m : About(x[i], s) => (i \in 1 .. n /\ x[i] = q[i]) \/ i = n + 1
  <2>1. \A i \in 1 .. m : i \in 1 .. n \/ i = n + 1 \/ (i = n + 2 /\ m = n + 2)
    BY <1>1
  <2> QED
    BY <1>1, <2>1
<1>3. link[s] = sock[s].conn
  BY DEF OwnLink
<1>4. \A i \in 1 .. n : About(q[i], s) => q[i].kind # "CLOSED"
  BY DEF ClosedLast
<1>5. OwnLink(s)'
  BY <1>1, <1>2, <1>3 DEF OwnLink
<1>6. ClosedLast(s)'
  <2>1. ASSUME NEW i \in 1 .. m, About(x[i], s), x[i].kind = "CLOSED"
        PROVE  i = n + 1 /\ link'[s] = 0
    <3>1. i = n + 1
      BY <1>2, <1>4, <2>1
    <3> QED
      BY <1>1, <2>1, <3>1
  <2>2. \A j \in 1 .. m : About(x[j], s) => ~(j > n + 1)
    BY <1>1, <1>2
  <2> QED
    BY <2>1, <2>2 DEF ClosedLast
<1> QED
  BY <1>5, <1>6

\* While the module works for t, the sockets of the others stay as they are.
LEMMA OthersLink ==
    ASSUME AllInv, ~stale, NEW t \in Callers, lock = t,
           UNCHANGED <<sock, app, ex, resp, resp_status>>,
           \A e \in Slots : e # app[t].slot /\ Clear(e) => Clear(e)'
    PROVE  \A u \in Callers \ {t} : app[u].slot \notin orphans => OwnerLink(u)'
<1> SUFFICES ASSUME NEW u \in Callers, u # t, app[u].slot \notin orphans PROVE OwnerLink(u)'
  OBVIOUS
<1>1. OwnerLink(u) /\ app[u].slot \in Slots /\ ex[u].pc # "wait"
  BY DEF AllInv, LinkInv, TypeInv, AppType, AppState, CallInv, Holding
<1>2. HasSocket(t)
  <2>1. Holding(t) /\ CallOK(t) /\ NoExec.pc = "idle"
    BY DEF AllInv, CallInv, NoExec
  <2> QED
    BY <2>1 DEF Holding, CallOK, HasSocket, InCall, Calling, Sending, Confirming
<1>3. CASE ~HasSocket(u)
  BY <1>3 DEF HasSocket, OwnerLink, Unlinked, Usable, Sending, Confirming
<1>4. CASE HasSocket(u)
  <2>1. app[u].slot # app[t].slot
    BY <1>2, <1>4 DEF AllInv, SlotInv
  <2>2. Clear(app[u].slot) => Clear(app[u].slot)'
    BY <1>1, <2>1
  <2>3. Succeeds(u) => Succeeds(u)'
    BY <1>1 DEF Succeeds
  <2> QED
    BY <1>1, <2>2, <2>3 DEF OwnerLink
<1> QED
  BY <1>3, <1>4

\* The module answers the command of the caller that holds the lock: it starts
\* a link only for a slot without lines of an earlier one, and the answer to
\* AT+CIPCLOSE comes after the last line of the link.
LEMMA ModuleLink ==
    ASSUME AllInv, Module
    PROVE  EntryInv' /\ LinkInv'
<1> DEFINE c == Head(toDevice)
           ok == Line("OK", c.slot, c.cmd)
           error == Line("ERROR", c.slot, c.cmd)
           info == Line("INFO", c.slot, c.cmd)
           closed == Line("CLOSED", c.slot, link[c.slot])
           confirm(result) == Line(result, prompt, c.cmd)
           n == Len(toClient)
<1>1. /\ toDevice \in Seq(Commands) /\ toDevice # <<>> /\ toDevice' = Tail(toDevice)
      /\ UNCHANGED <<restOfClient, ex, sock, app, socket_event, orphans>> /\ toClient \in Seq(Lines)
      /\ link \in [Slots -> 0 .. MaxCmds]
  BY DEF Module, AllInv, TypeInv, LineType, DeviceType, ghosts
<1>2. UNCHANGED <<lock, resp, resp_status, resp_notice, stale>>
  BY <1>1 DEF restOfClient
<1>3. c \in Commands
  BY <1>1, HeadTailProperties
<1>4. /\ c.slot \in Slots /\ c.cmd \in 0 .. MaxCmds /\ link[c.slot] \in 0 .. MaxCmds
      /\ prompt \in Slots \cup {None}
  BY <1>3 DEF Commands, AllInv, TypeInv, DeviceType
<1>5. ok \in Lines /\ error \in Lines /\ info \in Lines /\ closed \in Lines
  BY <1>4, LineTypes DEF Kinds
<1>6. prompt # None => \A result \in SendResults : confirm(result) \in Lines
  BY <1>4, LineTypes DEF Kinds, SendResults
<1>7. /\ ok.kind = "OK" /\ ok.cmd = c.cmd /\ ok.kind \notin Urc
      /\ error.kind \notin Urc /\ info.kind \notin Urc
      /\ \A e : About(closed, e) <=> e = c.slot
      /\ closed.cmd = link[c.slot] /\ closed.kind = "CLOSED"
      /\ \A result \in SendResults : confirm(result).kind \notin Urc
  BY DEF Line, Urc, About, SendResults
<1>8. \/ /\ prompt # None /\ link' = link
         /\ \E result \in SendResults : toClient' = toClient \o <<confirm(result)>>
      \/ /\ prompt = None /\ c.name = "START"
         /\ link' = [link EXCEPT ![c.slot] = c.cmd]
         /\ toClient' = toClient \o <<ok>>
      \/ /\ prompt = None /\ c.name = "CLOSE" /\ link[c.slot] # 0
         /\ link' = [link EXCEPT ![c.slot] = 0]
         /\ toClient' = toClient \o <<closed, ok>>
      \/ /\ prompt = None /\ c.name = "SEND" /\ link' = link
         /\ toClient' = toClient \o <<info, ok>>
      \/ /\ prompt = None /\ link' = link
         /\ c.name = "START" \/ (c.name \in {"CLOSE", "SEND"} /\ link[c.slot] = 0)
         /\ toClient' = toClient \o <<error>>
      \/ prompt = None /\ c.name = "DATA"
  BY DEF Module, Answer
<1>9. EntryInv'
  BY <1>1 DEF AllInv, EntryInv, HasSocket, Mine
<1>10. LinkInv'
  <2> SUFFICES ASSUME ~stale PROVE LinkInv'
    BY <1>2 DEF LinkInv
  <2>1. /\ \A e \in Slots \ orphans : OwnLink(e) /\ ClosedLast(e) /\ (sock[e].dead => Clear(e))
        /\ \A u \in Callers : /\ app[u].slot \notin orphans => OwnerLink(u)
                              /\ lock = u => CommandFor(u)
    BY DEF AllInv, LinkInv
  <2>2. PICK t \in Callers : lock = t
    <3>1. lock # None
      BY <1>1 DEF AllInv, PhaseInv, Idle, NothingUnderway
    <3> QED
      BY <3>1 DEF AllInv, TypeInv, ClientTypeOK
  <2> DEFINE s == app[t].slot
  <2>3. s \in Slots /\ HasSocket(t) /\ ~sock[s].dead /\ Mine(t) = sock[s]
    <3>1. Holding(t) /\ CallOK(t) /\ NoExec.pc = "idle"
      BY <2>2 DEF AllInv, CallInv, NoExec
    <3>2. HasSocket(t)
      BY <3>1 DEF Holding, CallOK, HasSocket, InCall, Calling, Sending, Confirming
    <3>3. app[t].pc \notin {"alloc", "erase"}
      BY <3>1 DEF Holding, CallOK, InCall, Calling, Sending, Confirming
    <3> QED
      BY <3>2, <3>3 DEF AllInv, TypeInv, AppType, AppState, EntryInv, Mine
  <2>4. Asked(t) \/ Confirms(t)
    BY <1>1, <2>2 DEF AllInv, PhaseInv, Phase, Answered, Ended, NothingUnderway
  <2>5. Confirms(t) => /\ resp = None /\ prompt # None /\ Len(toDevice) = 1
                       /\ app[t].pc = "send_socket"
    BY <1>1 DEF Confirms, NothingUnderway
  <2>6. toDevice' = <<>>
    <3>1. CASE Asked(t)
      BY <1>1, <3>1 DEF Asked
    <3>2. CASE Confirms(t)
      <4>1. Tail(toDevice) \in Seq(Commands) /\ Len(Tail(toDevice)) = 0
        BY <1>1, <2>5, <3>2, HeadTailProperties
      <4> QED
        BY <1>1, <4>1, EmptySeq
    <3> QED
      BY <2>4, <3>1, <3>2
  <2>7. \A u \in Callers : CommandFor(u)'
    BY <2>6 DEF CommandFor, Asked
  <2> HIDE DEF c, ok, error, info, closed, confirm
  <2>8. ASSUME \A e \in Slots \ orphans : OwnLink(e)' /\ ClosedLast(e)',
               \A e \in Slots : e # s /\ Clear(e) => Clear(e)',
               s \notin orphans => OwnerLink(t)'
        PROVE  LinkInv'
    <3>1. \A u \in Callers \ {t} : app[u].slot \notin orphans => OwnerLink(u)'
      BY <1>1, <1>2, <2>2, <2>8, OthersLink
    <3>2. \A e \in Slots \ orphans : sock'[e].dead => Clear(e)'
      BY <1>1, <2>1, <2>3, <2>8
    <3> QED
      BY <1>1, <2>7, <2>8, <3>1, <3>2 DEF LinkInv
  <2>9. ASSUME NEW l \in Lines, l.kind \notin Urc, Adds(l), link' = link
        PROVE  /\ \A e \in Slots \ orphans : OwnLink(e)' /\ ClosedLast(e)'
               /\ \A e \in Slots : Clear(e) => Clear(e)'
    <3>1. \A e \in Slots : ~About(l, e)
      BY <2>9 DEF About
    <3> QED
      BY <1>1, <2>1, <2>9, <3>1, OtherAdded
  <2>10. ASSUME NEW l \in Lines, l.kind \notin Urc, Adds(l), link' = link,
                app[t].pc # "connecting", app[t].pc # "closing"
         PROVE  LinkInv'
    <3>1. /\ \A e \in Slots \ orphans : OwnLink(e)' /\ ClosedLast(e)'
          /\ \A e \in Slots : Clear(e) => Clear(e)'
      BY <2>9, <2>10
    <3>2. s \notin orphans => OwnerLink(t)'
      BY <1>1, <2>1, <2>3, <2>10, <3>1 DEF OwnerLink
    <3> QED
      BY <2>8, <3>1, <3>2
  <2>11. CASE Confirms(t)
    <3>1. PICK result \in SendResults : toClient' = toClient \o <<confirm(result)>> /\ link' = link
      BY <1>8, <2>5, <2>11
    <3> DEFINE l == confirm(result)
    <3>2. l \in Lines /\ l.kind \notin Urc /\ toClient' = toClient \o <<l>>
      BY <1>6, <1>7, <2>5, <2>11, <3>1
    <3> HIDE DEF l
    <3>3. Adds(l)
      BY <3>2, LinesAdded DEF AllInv
    <3> QED
      BY <2>5, <2>10, <2>11, <3>1, <3>2, <3>3
  <2>12. CASE Asked(t)
    <3>1. /\ c.slot = s /\ (c.name = "START" <=> app[t].pc = "connecting")
          /\ c.name = "CLOSE" <=> app[t].pc \in {"reclosing", "closing"}
      BY <2>1, <2>2, <2>12 DEF CommandFor, c
    <3>2. /\ ex[t].pc = "wait" /\ resp = t /\ prompt = None /\ Quiet(toClient)
          /\ c.cmd = ex[t].cmd /\ c.name # "DATA"
      <4>1. PICK d \in Commands : toDevice = <<d>> /\ d.cmd = ex[t].cmd /\ d.name # "DATA"
        BY <2>12 DEF Asked
      <4>2. d = c
        BY <4>1 DEF c
      <4> QED
        BY <2>12, <4>1, <4>2 DEF Asked
    <3>3. app[t].pc = "connecting" /\ s \notin orphans => Clear(s) /\ sock[s].recvpkt = <<>>
      <4>1. ~One(toClient, {"OK"}, ex[t].cmd)
        BY <3>2 DEF Quiet, One, Urc
      <4>2. ~Succeeds(t)
        BY <3>2, <4>1, CallersAssumption DEF Succeeds
      <4> QED
        BY <2>1, <4>2 DEF OwnerLink
    <3>4. CASE /\ c.name = "START" /\ link' = [link EXCEPT ![s] = c.cmd]
               /\ toClient' = toClient \o <<ok>>
      <4>1. app[t].pc = "connecting" /\ (s \notin orphans => Clear(s) /\ sock[s].recvpkt = <<>>)
        BY <3>1, <3>3, <3>4
      <4>2. Adds(ok) /\ \A e \in Slots : ~About(ok, e)
        BY <1>5, <1>7, <3>4, LinesAdded DEF About, AllInv
      <4>3. \A e \in Slots : e # s => /\ e \notin orphans => OwnLink(e)' /\ ClosedLast(e)'
                                      /\ Clear(e) => Clear(e)'
        BY <1>1, <2>1, <2>3, <3>4, <4>2, OtherAdded
      <4>4. /\ link'[s] = c.cmd /\ sock'[s].conn = c.cmd
            /\ s \notin orphans => sock'[s].recvpkt = <<>>
        BY <1>1, <2>3, <3>2, <3>4, <4>1 DEF AllInv, EntryInv
      <4>5. ASSUME s \notin orphans PROVE NoneAbout(toClient', s)
        <5> DEFINE m == Len(toClient')
        <5>1. /\ n \in Nat /\ m = n + 1 /\ \A i \in 1 .. n : toClient'[i] = toClient[i]
              /\ toClient'[n + 1] = ok
          BY <1>1, <1>5, <3>4, AddedPlaces, LenProperties
        <5>2. \A i \in 1 .. m : i \in 1 .. n \/ i = n + 1
          BY <5>1
        <5>3. \A i \in 1 .. n : ~About(toClient[i], s)
          BY <4>1, <4>5 DEF Clear, NoneAbout
        <5> QED
          BY <2>3, <4>2, <5>1, <5>2, <5>3 DEF NoneAbout
      <4>6. \A e \in Slots \ orphans : e = s => OwnLink(e)' /\ ClosedLast(e)'
        BY <4>4, <4>5 DEF OwnLink, ClosedLast, NoneAbout
      <4>7. Succeeds(t)'
        <5>1. One(toClient', {"OK"}, ok.cmd)
          BY <1>1, <1>5, <1>7, <3>2, <3>4, AnswerAdded
        <5> QED
          BY <1>1, <1>2, <1>7, <3>2, <5>1 DEF Succeeds
      <4>8. OwnerLink(t)'
        BY <1>1, <4>1, <4>7 DEF OwnerLink, Unlinked, Usable, Sending, Confirming
      <4> QED
        BY <2>8, <4>3, <4>6, <4>8
    <3>5. CASE /\ c.name = "CLOSE" /\ link[s] # 0 /\ link' = [link EXCEPT ![s] = 0]
               /\ toClient' = toClient \o <<closed, ok>>
      <4>1. s \notin orphans => app[t].pc = "closing"
        BY <2>1, <3>1, <3>5 DEF OwnerLink, Unlinked, Clear
      <4>2. Adds(closed) /\ \A e \in Slots : About(closed, e) <=> e = s
        BY <1>5, <1>7, <3>1, <3>5, LinesAdded DEF AllInv
      <4>3. \A e \in Slots : e # s => /\ e \notin orphans => OwnLink(e)' /\ ClosedLast(e)'
                                      /\ Clear(e) => Clear(e)'
        BY <1>1, <2>1, <2>3, <3>5, <4>2, OtherAdded
      <4>4. link'[s] = 0 /\ sock'[s] = sock[s]
        BY <1>1, <2>3, <3>5
      <4>5. \A e \in Slots \ orphans : e = s => OwnLink(e)' /\ ClosedLast(e)'
        BY <1>7, <2>1, <3>1, <3>5, <4>2, <4>4, OwnAdded
      <4>6. \A e \in Slots : e = s => AnswerLast(e)'
        <5> DEFINE m == Len(toClient')
        <5>1. n \in Nat /\ m = n + 2 /\ toClient'[n + 2] = ok
          BY <1>1, <1>5, <3>5, AddedPlaces, LenProperties
        <5>2. n + 2 \in 1 .. m /\ \A j \in 1 .. m : ~(j > n + 2)
          BY <5>1
        <5> QED
          BY <1>7, <4>4, <5>1, <5>2 DEF AnswerLast
      <4>7. s \notin orphans => OwnerLink(t)'
        BY <1>1, <1>2, <2>3, <3>2, <4>1, <4>6 DEF OwnerLink, Unlinked, Usable, Sending, Confirming
      <4> QED
        BY <2>8, <4>3, <4>5, <4>7
    <3>6. CASE c.name = "SEND" /\ link' = link /\ toClient' = toClient \o <<info, ok>>
      <4>1. Adds(info)
        BY <1>5, <1>7, <3>6, LinesAdded DEF AllInv
      <4> QED
        BY <1>5, <1>7, <2>10, <3>1, <3>6, <4>1
    <3>7. CASE /\ c.name = "START" \/ (c.name \in {"CLOSE", "SEND"} /\ link[s] = 0)
               /\ link' = link /\ toClient' = toClient \o <<error>>
      <4>1. Adds(error)
        BY <1>5, <3>7, LinesAdded DEF AllInv
      <4>2. /\ \A e \in Slots \ orphans : OwnLink(e)' /\ ClosedLast(e)'
            /\ \A e \in Slots : Clear(e) => Clear(e)'
        BY <1>5, <1>7, <2>9, <3>7, <4>1
      <4>3. app[t].pc = "closing" => AnswerLast(s)'
        <5> DEFINE m == Len(toClient')
        <5>1. n \in Nat /\ m = n + 1 /\ toClient'[n + 1] = error
          BY <1>1, <1>5, <3>7, AddedPlaces, LenProperties
        <5>2. n + 1 \in 1 .. m /\ \A j \in 1 .. m : ~(j > n + 1)
          BY <5>1
        <5>3. app[t].pc = "closing" => link[s] = 0
          BY <3>1, <3>7
        <5> QED
          BY <1>1, <1>7, <3>7, <5>1, <5>2, <5>3 DEF AnswerLast
      <4>4. s \notin orphans => OwnerLink(t)'
        BY <1>1, <1>2, <2>1, <2>3, <3>2, <3>3, <4>2, <4>3 DEF OwnerLink
      <4> QED
        BY <2>8, <4>2, <4>4
    <3> QED
      BY <1>8, <3>1, <3>2, <3>4, <3>5, <3>6, <3>7
  <2> QED
    BY <2>4, <2>11, <2>12
<1> QED
  BY <1>9, <1>10

\* A server sends or closes: its link is one that its socket knows, and not
\* one whose socket is being made or deleted.
LEMMA ServerLink ==
    ASSUME AllInv, NEW s \in Slots, ServerSends(s) \/ ServerCloses(s)
    PROVE  EntryInv' /\ LinkInv'
<1>1. /\ UNCHANGED <<restOfClient, ex, toDevice, sock, socket_event, app, prompt, orphans>>
      /\ toClient \in Seq(Lines) /\ link \in [Slots -> 0 .. MaxCmds] /\ link[s] # 0
  BY DEF ServerSends, ServerCloses, AllInv, TypeInv, LineType, DeviceType, ghosts
<1>2. UNCHANGED <<lock, resp, resp_status, resp_notice, stale>>
  BY <1>1 DEF restOfClient
<1>3. PICK l \in Lines :
        /\ l.kind \in Urc /\ l.slot = s /\ l.cmd = link[s]
        /\ toClient' = toClient \o <<l>>
        /\ link'[s] = 0 \/ (link'[s] = link[s] /\ l.kind = "+IPD")
        /\ \A e \in Slots : e # s => link'[e] = link[e]
  <2> DEFINE data == Line("+IPD", s, link[s])
             closed == Line("CLOSED", s, link[s])
  <2>1. data \in Lines /\ closed \in Lines
    BY <1>1, LineTypes DEF Kinds
  <2>2. /\ data.kind = "+IPD" /\ data.slot = s /\ data.cmd = link[s]
        /\ closed.kind = "CLOSED" /\ closed.slot = s /\ closed.cmd = link[s]
    BY DEF Line
  <2>3. \/ toClient' = toClient \o <<data>> /\ link' = link
        \/ toClient' = toClient \o <<closed>> /\ link' = [link EXCEPT ![s] = 0]
    BY DEF ServerSends, ServerCloses, Answer
  <2> HIDE DEF data, closed
  <2> QED
    BY <1>1, <2>1, <2>2, <2>3 DEF Urc
<1>4. EntryInv'
  BY <1>1 DEF AllInv, EntryInv, HasSocket, Mine
<1>5. LinkInv'
  <2> SUFFICES ASSUME ~stale PROVE LinkInv'
    BY <1>2 DEF LinkInv
  <2>1. /\ \A e \in Slots \ orphans : OwnLink(e) /\ ClosedLast(e) /\ (sock[e].dead => Clear(e))
        /\ \A u \in Callers : /\ app[u].slot \notin orphans => OwnerLink(u)
                              /\ lock = u => CommandFor(u)
    BY DEF AllInv, LinkInv
  <2>2. /\ Quiet(toClient) => Quiet(toClient')
        /\ \A kinds, cmd : One(toClient, kinds, cmd) => One(toClient', kinds, cmd)
    BY <1>1, <1>3, UrcAdded
  <2>3. Adds(l) /\ \A e \in Slots : About(l, e) <=> e = s
    BY <1>3, LinesAdded DEF AllInv, About
  <2>4. \A e \in Slots : e # s => /\ e \notin orphans => OwnLink(e)' /\ ClosedLast(e)'
                                  /\ Clear(e) => Clear(e)'
                                  /\ AnswerLast(e) => AnswerLast(e)'
    BY <1>1, <1>3, <2>1, <2>3, OtherAdded
  <2>5. \A e \in Slots \ orphans : e = s => OwnLink(e)' /\ ClosedLast(e)'
    BY <1>1, <1>3, <2>1, <2>3, OwnAdded
  <2>6. ~Clear(s) /\ ~AnswerLast(s)
    BY <1>1 DEF Clear, AnswerLast
  <2>7. \A e \in Slots \ orphans : sock'[e].dead => Clear(e)'
    BY <1>1, <2>1, <2>4, <2>6
  <2>8. ASSUME NEW u \in Callers, lock' = u PROVE CommandFor(u)'
    <3> SUFFICES ASSUME Asked(u)' PROVE CommandFor(u)'
      BY DEF CommandFor
    <3>1. lock = u /\ resp = u
      BY <1>2, <2>8 DEF Asked
    <3>2. toDevice # <<>>
      <4>1. PICK c \in Commands : toDevice' = <<c>>
        BY DEF Asked
      <4>2. toDevice' # <<>>
        BY <4>1
      <4> QED
        BY <1>1, <4>2
    <3>3. Asked(u)
      BY <3>1, <3>2, AskedBefore DEF AllInv
    <3> QED
      BY <1>1, <2>1, <3>1, <3>3 DEF CommandFor
  <2>9. ASSUME NEW u \in Callers, app[u].slot \notin orphans PROVE OwnerLink(u)'
    <3>1. OwnerLink(u) /\ app[u].slot \in Slots
      BY <2>1, <2>9 DEF AllInv, TypeInv, AppType, AppState
    <3>2. Clear(app[u].slot) => Clear(app[u].slot)'
      BY <1>1, <2>4, <2>6, <3>1
    <3>3. AnswerLast(app[u].slot) => AnswerLast(app[u].slot)'
      BY <1>1, <2>4, <2>6, <3>1
    <3>4. Succeeds(u) => Succeeds(u)'
      BY <1>1, <1>2, <2>2 DEF Succeeds
    <3>5. Asked(u) => Asked(u)'
      BY <1>1, <1>2, <2>2 DEF Asked
    <3> QED
      BY <1>1, <1>2, <3>1, <3>2, <3>3, <3>4, <3>5 DEF OwnerLink
  <2> QED
    BY <1>1, <2>4, <2>5, <2>7, <2>8, <2>9 DEF LinkInv
<1> QED
  BY <1>4, <1>5

\* When nothing of an abandoned command is around any more, the links are what
\* their sockets say.
LEMMA SettleLink ==
    ASSUME AllInv, Settle
    PROVE  EntryInv' /\ LinkInv'
<1>1. /\ toClient = <<>> /\ toDevice = <<>> /\ lock = None /\ ex = [t \in Callers |-> NoExec]
      /\ UNCHANGED <<lock, ex, toDevice, toClient, sock, app, link>>
      /\ \A s \in Slots : /\ sock[s].recvpkt = <<>>
                          /\ link[s] # 0 => sock[s].state = "connect" /\ link[s] = sock[s].conn
  BY DEF Settle, socketVars
<1>2. EntryInv'
  BY <1>1 DEF AllInv, EntryInv, HasSocket, Mine
<1>3. Len(toClient') = 0
  BY <1>1
<1>4. \A s \in Slots : OwnLink(s)' /\ ClosedLast(s)' /\ (Clear(s)' <=> link[s] = 0)
  <2> SUFFICES ASSUME NEW s \in Slots
               PROVE  OwnLink(s)' /\ ClosedLast(s)' /\ (Clear(s)' <=> link[s] = 0)
    OBVIOUS
  <2>1. Len(sock'[s].recvpkt) = 0
    BY <1>1
  <2> QED
    BY <1>1, <1>3, <2>1 DEF OwnLink, ClosedLast, Clear, NoneAbout
<1>5. \A s \in Slots : sock'[s].dead => Clear(s)'
  BY <1>1, <1>4 DEF AllInv, EntryInv
<1>6. \A t \in Callers : lock' # t
  BY <1>1, CallersAssumption
<1>7. ASSUME NEW t \in Callers PROVE OwnerLink(t)'
  <2>1. app[t].slot \in Slots /\ app'[t] = app[t] /\ Mine(t) = sock[app[t].slot]
    BY <1>1 DEF AllInv, TypeInv, AppType, AppState, Mine
  <2>2. app[t].pc \notin Calling
    BY <1>1 DEF AllInv, CallInv, CallOK, NoExec
  <2>3. app[t].pc \in Unlinked => Clear(app[t].slot)'
    <3> SUFFICES ASSUME app[t].pc \in Unlinked PROVE link[app[t].slot] = 0
      BY <1>4, <2>1
    <3>1. HasSocket(t) /\ app[t].pc \notin Usable
      BY DEF Unlinked, HasSocket, Usable, Sending, Confirming
    <3> QED
      BY <1>1, <2>1, <3>1 DEF AllInv, EntryInv
  <2>4. sock'[app[t].slot].recvpkt = <<>>
    BY <1>1, <2>1
  <2>5. sock'[app[t].slot].state = "closed" => Clear(app[t].slot)'
    BY <1>1, <1>4, <2>1
  <2> QED
    BY <2>1, <2>2, <2>3, <2>4, <2>5 DEF OwnerLink, Calling
<1> QED
  BY <1>2, <1>4, <1>5, <1>6, <1>7 DEF LinkInv

\* When nothing is left of a link that was given up, its slot is like any other.
LEMMA OrphanSettles ==
    ASSUME AllInv, NEW s \in Slots, LinkSettles(s)
    PROVE  EntryInv' /\ LinkInv'
<1>1. /\ UNCHANGED <<lock, resp, resp_status, resp_notice, ex, toDevice, toClient, stale, app,
                     sock, link, socket_event, prompt>>
      /\ orphans' = orphans \ {s}
  BY DEF LinkSettles, clientVars
<1>2. Clear(s) /\ sock[s].recvpkt = <<>>
  BY GoneClear DEF LinkSettles, AllInv
<1>3. EntryInv'
  BY <1>1 DEF AllInv, EntryInv, HasSocket, Mine
<1>4. LinkInv'
  <2> SUFFICES ASSUME ~stale PROVE LinkInv'
    BY <1>1 DEF LinkInv
  <2>1. \A e \in Slots : /\ OwnLink(e)' <=> OwnLink(e)
                         /\ ClosedLast(e)' <=> ClosedLast(e)
                         /\ Clear(e)' <=> Clear(e)
                         /\ AnswerLast(e)' <=> AnswerLast(e)
    BY <1>1 DEF OwnLink, ClosedLast, Clear, AnswerLast
  <2>2. \A t \in Callers : /\ Asked(t)' <=> Asked(t)
                           /\ Succeeds(t)' <=> Succeeds(t)
                           /\ app[t].slot \in Slots
    BY <1>1 DEF Asked, Succeeds, AllInv, TypeInv, AppType, AppState
  <2>3. \A t \in Callers : CommandFor(t)' <=> CommandFor(t)
    BY <1>1, <2>2 DEF CommandFor
  <2>4. \A t \in Callers : OwnerLink(t)' <=> OwnerLink(t)
    BY <1>1, <2>1, <2>2 DEF OwnerLink
  <2>5. ClosedLast(s)
    BY <1>2 DEF ClosedLast, Clear, NoneAbout
  <2>6. OwnLink(s)
    <3>1. Len(sock[s].recvpkt) = 0
      BY <1>2
    <3> QED
      BY <1>2, <3>1 DEF OwnLink, Clear, NoneAbout
  <2>7. \A t \in Callers : app[t].slot = s => OwnerLink(t)
    BY <1>2 DEF OwnerLink
  <2> QED
    BY <1>1, <1>2, <2>1, <2>2, <2>3, <2>4, <2>5, <2>6, <2>7 DEF AllInv, LinkInv
<1> QED
  BY <1>3, <1>4

\* At the start there is no socket, no link and no line.
LEMMA InitLink == Init => EntryInv /\ LinkInv
<1> SUFFICES ASSUME Init PROVE EntryInv /\ LinkInv
  OBVIOUS
<1>1. /\ NoApp.pc = "none" /\ NoSocket.recvpkt = <<>> /\ NoSocket.state = "none"
  BY DEF NoApp, NoSocket
<1>2. /\ \A t \in Callers : app[t].pc = "none"
      /\ \A s \in Slots : sock[s] = NoSocket /\ link[s] = 0
      /\ Len(toClient) = 0 /\ lock = None
  BY <1>1 DEF Init, ClientInit
<1>3. EntryInv
  BY <1>1, <1>2 DEF EntryInv, HasSocket
<1>4. \A s \in Slots : OwnLink(s) /\ ClosedLast(s) /\ Clear(s)
  <2> SUFFICES ASSUME NEW s \in Slots PROVE OwnLink(s) /\ ClosedLast(s) /\ Clear(s)
    OBVIOUS
  <2>1. Len(sock[s].recvpkt) = 0
    BY <1>1, <1>2
  <2> QED
    BY <1>2, <2>1 DEF OwnLink, ClosedLast, Clear, NoneAbout
<1>5. \A t \in Callers : OwnerLink(t)
  BY <1>2 DEF OwnerLink, Unlinked, Usable, Sending, Confirming
<1> QED
  BY <1>2, <1>3, <1>4, <1>5, CallersAssumption DEF LinkInv

\* Every step keeps the entries and the links.
LEMMA NextLink ==
    AllInv /\ SlotInv' /\ PhaseInv' /\ [Next]_vars => EntryInv' /\ LinkInv'
<1> SUFFICES ASSUME AllInv, SlotInv', PhaseInv', [Next]_vars PROVE EntryInv' /\ LinkInv'
  OBVIOUS
<1>1. CASE UNCHANGED vars
  <2>1. UNCHANGED <<lock, resp, resp_status, resp_notice, ex, toDevice, toClient, stale, app,
                    sock, link, socket_event, prompt, orphans>>
    BY <1>1 DEF vars, clientVars, socketVars, ghosts
  <2>2. EntryInv'
    BY <2>1 DEF AllInv, EntryInv, HasSocket, Mine
  <2>3. LinkInv'
    <3>1. /\ \A e \in Slots : /\ OwnLink(e)' <=> OwnLink(e)
                              /\ ClosedLast(e)' <=> ClosedLast(e)
                              /\ Clear(e)' <=> Clear(e)
                              /\ AnswerLast(e)' <=> AnswerLast(e)
      BY <2>1 DEF OwnLink, ClosedLast, Clear, AnswerLast
    <3>2. \A t \in Callers : /\ Asked(t)' <=> Asked(t)
                             /\ Succeeds(t)' <=> Succeeds(t)
                             /\ app[t].slot \in Slots
      BY <2>1 DEF Asked, Succeeds, AllInv, TypeInv, AppType, AppState
    <3>3. \A t \in Callers : CommandFor(t)' <=> CommandFor(t)
      BY <2>1, <3>2 DEF CommandFor
    <3>4. \A t \in Callers : OwnerLink(t)' <=> OwnerLink(t)
      BY <2>1, <3>1, <3>2 DEF OwnerLink
    <3> QED
      BY <2>1, <3>1, <3>3, <3>4 DEF AllInv, LinkInv
  <2> QED
    BY <2>2, <2>3
<1> QED
  BY <1>1, CallerLink, ExecLink, ParseLink, ModuleLink, ServerLink, SettleLink, OrphanSettles
  DEF Next

\* The invariant of the sockets holds throughout.
LEMMA AllKept == (Init => AllInv) /\ (AllInv /\ [Next]_vars => AllInv')
<1>1. Init => AllInv
  BY InitType, InitCall, InitSlot, InitPhase, InitLink DEF AllInv
<1>2. AllInv /\ [Next]_vars => AllInv'
  <2> SUFFICES ASSUME AllInv, [Next]_vars PROVE AllInv'
    OBVIOUS
  <2>1. TypeInv' /\ CallInv' /\ SlotInv' /\ SendingInv' /\ PhaseInv'
    BY NextType, NextCall, NextSlot, NextSending, NextPhase DEF AllInv
  <2> QED
    BY <2>1, NextLink DEF AllInv
<1> QED
  BY <1>1, <1>2

(***************************************************************************)
(* For every number of callers, sockets, commands and packets: unless a    *)
(* wait has timed out and its remains are still around, all the packets in *)
(* the list of a socket came over the connection the socket itself made,   *)
(* although the number of a link is the index of the table's entry and     *)
(* both are used again.  The argument follows the last line of the old     *)
(* link: it comes before the answer to AT+CIPCLOSE, or it is the CLOSED    *)
(* that marked the socket closed (OwnerLink), so the entry is given back   *)
(* only when nothing about its link is on the way (Clear).  The exception  *)
(* are the slots whose link esp8266_socket_close gave up for want of       *)
(* memory (orphans), until nothing is left of it; a fault on one slot      *)
(* harms no other, and any number of faults may happen.                    *)
(***************************************************************************)
THEOREM AtOwnData == Spec => []OwnData
<1>1. AllInv => OwnData
  <2> SUFFICES ASSUME AllInv, ~stale, NEW s \in Slots \ orphans, NEW i \in DOMAIN sock[s].recvpkt
               PROVE  sock[s].recvpkt[i] = sock[s].conn
    BY DEF OwnData
  <2>1. sock[s].recvpkt \in Seq(1 .. MaxCmds) /\ OwnLink(s)
    BY DEF AllInv, TypeInv, SockType, SocketEntry, LinkInv
  <2>2. i \in 1 .. Len(sock[s].recvpkt)
    BY <2>1, LenProperties
  <2> QED
    BY <2>1, <2>2 DEF OwnLink
<1> QED
  BY <1>1, AllKept, PTL DEF Spec

\* Only a wait that times out makes something stale, and only a callback of
\* the parser uses a socket.
LEMMA StepCounts ==
    ASSUME [Next]_vars
    PROVE  /\ timeouts' \in {timeouts, timeouts + 1}
           /\ stale' => stale \/ timeouts' = timeouts + 1
           /\ ~Parse => deadUse' = deadUse
<1>1. ASSUME NEW t \in Callers, CallerStep(t)
      PROVE  /\ (timeouts' = timeouts /\ stale' = stale) \/ timeouts' = timeouts + 1
             /\ deadUse' = deadUse
  BY <1>1 DEF CallerStep, Socket, SocketOpen, SocketFails, ConnectNoMemory, ConnectSkipped, Connect,
     Connected, ConnectFailed, Reclose, Reclosed, Send, SendData, SendSocketEvent, SendResult,
     SendTimeout, RecvLeftover, RecvBlock, RecvNotice, RecvTimeout, Close, CloseLink,
     CloseNoMemory, FreeObjects, FreeEntry, ExecStart, clientVars, restOfClient, ghosts
<1>2. ASSUME NEW t \in Callers, ExecStep(t)
      PROVE  /\ (timeouts' = timeouts /\ stale' = stale) \/ timeouts' = timeouts + 1
             /\ deadUse' = deadUse
  BY <1>2 DEF ExecStep, ExecWake, ExecTimeout, ExecExit, socketVars, ghosts
<1>3. CASE Module \/ Settle \/ Parse \/ UNCHANGED vars
  BY <1>3 DEF Module, Settle, Parse, vars, clientVars, socketVars, restOfClient, ghosts
<1>4. CASE \E s \in Slots : ServerSends(s) \/ ServerCloses(s) \/ LinkSettles(s)
  BY <1>4 DEF ServerSends, ServerCloses, LinkSettles, clientVars, restOfClient, ghosts
<1> QED
  BY <1>1, <1>2, <1>3, <1>4 DEF Next

(***************************************************************************)
(* For every number of callers, sockets, commands and packets: as long as  *)
(* no wait has timed out, no callback of the parser thread uses a socket   *)
(* whose semaphore and mutex do not exist.  at_socket marks the entry      *)
(* before it creates them and free_socket deletes them before it clears    *)
(* the entry, with no lock against the parser thread; the entry is in one  *)
(* of these two places, or left without them for ever by an at_socket that *)
(* had no memory, only while no line about its link is on the way (LinkInv).*)
(* As for the data, lines of a link given up for want of memory are        *)
(* excepted, and no others.                                                *)
(***************************************************************************)
THEOREM AtNoDeadUse == Spec => []NoDeadUse
<1>1. Init => AllInv /\ DeadInv
  BY AllKept DEF Init, ClientInit, DeadInv, NoDeadUse
<1>2. AllInv /\ DeadInv /\ [Next]_vars => DeadInv'
  <2> SUFFICES ASSUME AllInv, DeadInv, [Next]_vars PROVE DeadInv'
    OBVIOUS
  <2>1. timeouts \in Nat
    BY DEF AllInv, TypeInv, ClientTypeOK
  <2>2. /\ timeouts' \in {timeouts, timeouts + 1}
        /\ stale' => stale \/ timeouts' = timeouts + 1
        /\ ~Parse => deadUse' = deadUse
    BY StepCounts
  <2> SUFFICES ASSUME timeouts' = 0 PROVE ~stale' /\ ~deadUse'
    BY DEF DeadInv, NoDeadUse
  <2>3. timeouts = 0 /\ ~stale /\ ~deadUse
    BY <2>1, <2>2 DEF DeadInv, NoDeadUse
  <2>4. ~stale'
    BY <2>1, <2>2, <2>3
  <2>5. CASE Parse
    <3>1. deadUse' => deadUse \/ \E e \in Slots \ orphans :
                        About(Head(toClient), e) /\ sock[e].dead
      BY <2>5, ParseEntries DEF AllInv
    <3>2. ASSUME NEW e \in Slots \ orphans, About(Head(toClient), e), sock[e].dead
          PROVE  FALSE
      <4>2. Clear(e)
        BY <2>3, <3>2 DEF AllInv, LinkInv
      <4>3. Head(toClient) = toClient[1] /\ 1 \in 1 .. Len(toClient)
        <5>1. toClient \in Seq(Lines) /\ toClient # <<>>
          BY <2>5 DEF Parse, AllInv, TypeInv, LineType
        <5> QED
          BY <5>1, ReadPlaces
      <4> QED
        BY <3>2, <4>2, <4>3 DEF Clear, NoneAbout
    <3> QED
      BY <2>3, <2>4, <3>1, <3>2
  <2>6. CASE ~Parse
    BY <2>2, <2>3, <2>4, <2>6
  <2> QED
    BY <2>5, <2>6
<1>3. DeadInv => NoDeadUse
  BY DEF DeadInv
<1> QED
  BY <1>1, <1>2, <1>3, AllKept, PTL DEF Spec
=============================================================================
