------------------------------- MODULE AtSocket ------------------------------
(***************************************************************************)
(* The sockets of the clock's network: at_socket.c over the commands of    *)
(* the ESP8266 driver (at_socket_esp8266.c) over the AT client, with the   *)
(* module itself as the environment.                                       *)
(*                                                                         *)
(* A caller creates a socket, connects it, sends, receives and closes it,  *)
(* as the NTP client and the HTTP client do.  A socket is an entry of the  *)
(* device's table; its index is also the number of the link in the module. *)
(* The callbacks run in the parser thread.  The counters that only serve   *)
(* select and poll are left out (nothing here calls them).                 *)
(***************************************************************************)
EXTENDS AtClient, SequencesExt, FiniteSetsExt

CONSTANTS
    UdpCallers,     \* callers whose sockets are SOCK_DGRAM (NTP), not SOCK_STREAM
    SocketNum,      \* AT_DEVICE_ESP8266_SOCKETS_NUM
    MaxData,        \* bound: packets the servers send
    MaxFaults       \* bound: allocations that fail and packets cut short

ASSUME UdpAssumption == UdpCallers \subseteq Callers
ASSUME SocketNumAssumption == SocketNum \in Nat \ {0}
ASSUME DataAssumption == MaxData \in Nat /\ MaxFaults \in Nat

Slots == 0 .. SocketNum - 1

ASSUME NoneAssumption == None \notin Slots

VARIABLES
    sock,           \* slot -> struct at_socket
    socket_event,   \* bits of the event device->socket_event
    sending,        \* esp8266->user_data: the socket of the last send
    app,            \* caller -> what it does with its socket
    link,           \* slot -> the module's connection, 0 when there is none
    prompt,         \* the slot the module expects data for, or None
    packets,        \* number of packets the servers sent
    faults,         \* number of allocations that failed and packets cut short
    deadUse,        \* for the properties: a callback used a socket without
                    \* its semaphore and mutex
    orphans         \* for the properties: slots whose link was given up for
                    \* want of memory, open or with lines still to come

ghosts == <<faults, deadUse, orphans>>
socketVars == <<sock, socket_event, sending, app, link, prompt, packets, ghosts>>
vars == <<clientVars, socketVars>>

\* magic: allocated; dead: without its semaphore and mutex; conn: the command
\* that connected it (for the properties).
NoSocket == [magic |-> FALSE, state |-> "none", recvpkt |-> <<>>, recv_notice |-> 0,
             dead |-> TRUE, conn |-> 0]

NoApp == [pc |-> "none", slot |-> 0, retried |-> FALSE]

Init ==
    /\ ClientInit
    /\ sock = [s \in Slots |-> NoSocket]
    /\ socket_event = {}
    /\ sending = 0
    /\ app = [t \in Callers |-> NoApp]
    /\ link = [s \in Slots |-> 0]
    /\ prompt = None
    /\ packets = 0
    /\ faults = 0
    /\ deadUse = FALSE
    /\ orphans = {}

Mine(t) == sock[app[t].slot]
AppGoto(t, label) == app' = [app EXCEPT ![t].pc = label]
StateTo(s, state) == sock' = [sock EXCEPT ![s].state = state]

Cmd(name, s) == [name |-> name, slot |-> s, cmd |-> 0]
Line(kind, s, cmd) == [kind |-> kind, slot |-> s, cmd |-> cmd]

\* Bits of socket_event: (socket + 1) << 16 of SET_EVENT, which is more than
\* one bit for some sockets, ESP8266_EVENT_SEND_OK and ..._SEND_FAIL.
SocketBits(s) == {16 + b : b \in {b \in 0 .. 2 : ((s + 1) \div 2 ^ b) % 2 = 1}}
SendResults == {"SEND OK", "SEND FAIL"}
ResultBit(kind) == IF kind = "SEND OK" THEN 1 ELSE 5
ResultBits == {1, 5}

\* The heap is used up when memory is asked for, or a packet is cut short.
\* (The timeouts before it count towards the bound.)
Fault ==
    /\ faults + timeouts < MaxFaults
    /\ faults' = faults + 1

restOfClient == <<lock, resp, resp_status, resp_notice, sent, timeouts, stale>>

-----------------------------------------------------------------------------
(***************************************************************************)
(* at_socket: the first free entry of the table.                           *)
(***************************************************************************)
Free == {s \in Slots : ~sock[s].magic}

\* alloc_socket_by_device marks the entry before it creates the semaphore and
\* the mutex ...
Socket(t) ==
    /\ app[t].pc = "none"
    /\ Free # {}
    /\ LET s == Min(Free) IN
       /\ sock' = [sock EXCEPT ![s].magic = TRUE]
       /\ app' = [app EXCEPT ![t] = [NoApp EXCEPT !.pc = "alloc", !.slot = s]]
    /\ UNCHANGED <<clientVars, socket_event, sending, link, prompt, packets, ghosts>>

\* Mutant: the state is not set.
FreshSocket_NoState == [NoSocket EXCEPT !.magic = TRUE, !.dead = FALSE]

FreshSocket == [NoSocket EXCEPT !.magic = TRUE, !.dead = FALSE, !.state = "open"]

\* ... and at_socket opens it.
SocketOpen(t) ==
    /\ app[t].pc = "alloc"
    /\ sock' = [sock EXCEPT ![app[t].slot] = FreshSocket]
    /\ AppGoto(t, "open")
    /\ UNCHANGED <<clientVars, socket_event, sending, link, prompt, packets, ghosts>>

\* Without memory for them at_socket fails, and nobody frees the entry.
SocketFails(t) ==
    /\ Fault
    /\ app[t].pc = "alloc"
    /\ app' = [app EXCEPT ![t] = NoApp]
    /\ UNCHANGED <<clientVars, sock, socket_event, sending, link, prompt, packets,
                   deadUse, orphans>>

(***************************************************************************)
(* at_connect (and at_sendto on a UDP socket, which connects it first):    *)
(* esp8266_socket_connect starts the link; when that fails it closes the   *)
(* link and tries once more, without another look at the state.            *)
(***************************************************************************)
Connect(t) ==
    /\ app[t].pc = "open"
    /\ app[t].retried \/ Mine(t).state = "open"
    /\ ExecStart(t, 0, Cmd("START", app[t].slot))
    /\ sock' = [sock EXCEPT ![app[t].slot].conn = sent + 1]
    /\ AppGoto(t, "connecting")
    /\ UNCHANGED <<socket_event, sending, link, prompt, packets, ghosts>>

\* at_create_resp finds no memory, before the first try or for AT+CIPCLOSE.
ConnectNoMemory(t) ==
    /\ Fault
    /\ \/ app[t].pc = "open" /\ ~app[t].retried /\ Mine(t).state = "open"
       \/ app[t].pc = "reclose"
    /\ AppGoto(t, "failed")
    /\ UNCHANGED <<clientVars, sock, socket_event, sending, link, prompt, packets,
                   deadUse, orphans>>

\* A CLOSED meant for the last user of the link came first: at_connect fails,
\* at_sendto sends without connecting.
ConnectSkipped(t) ==
    /\ app[t].pc = "open"
    /\ ~app[t].retried /\ Mine(t).state # "open"
    /\ AppGoto(t, IF t \in UdpCallers THEN "up" ELSE "failed")
    /\ UNCHANGED <<clientVars, sock, socket_event, sending, link, prompt, packets,
                   ghosts>>

\* The state is set without a look at what became of it meanwhile.
Connected(t) ==
    /\ app[t].pc = "connecting"
    /\ Done(t) /\ ex[t].result = "OK"
    /\ Forget(t)
    /\ StateTo(app[t].slot, "connect")
    /\ AppGoto(t, "up")
    /\ UNCHANGED <<restOfClient, toDevice, toClient, socket_event, sending, link,
                   prompt, packets, ghosts>>

\* Forget the failed command and close the link, or give up.
ConnectFailed(t) ==
    /\ app[t].pc = "connecting"
    /\ Done(t) /\ ex[t].result # "OK"
    /\ Forget(t)
    /\ app' = [app EXCEPT ![t].pc = IF app[t].retried THEN "failed" ELSE "reclose"]
    /\ UNCHANGED <<restOfClient, toDevice, toClient, sock, socket_event, sending,
                   link, prompt, packets, ghosts>>

Reclose(t) ==
    /\ app[t].pc = "reclose"
    /\ ExecStart(t, 0, Cmd("CLOSE", app[t].slot))
    /\ AppGoto(t, "reclosing")
    /\ UNCHANGED <<sock, socket_event, sending, link, prompt, packets, ghosts>>

Reclosed(t) ==
    /\ app[t].pc = "reclosing"
    /\ Done(t)
    /\ Forget(t)
    /\ app' = [app EXCEPT ![t].pc = IF ex[t].result = "OK" THEN "open" ELSE "failed",
                          ![t].retried = TRUE]
    /\ UNCHANGED <<restOfClient, toDevice, toClient, sock, socket_event, sending,
                   link, prompt, packets, ghosts>>

-----------------------------------------------------------------------------
(***************************************************************************)
(* at_send: esp8266_socket_send keeps the client locked from the command   *)
(* AT+CIPSEND until the module has confirmed the data.  A closed TCP       *)
(* socket sends nothing; on a UDP socket nobody looks at the state.        *)
(* Without memory for the response the call fails before it does anything. *)
(***************************************************************************)
Send(t) ==
    /\ app[t].pc = "up"
    /\ t \in UdpCallers \/ Mine(t).state # "closed"
    /\ ExecStart(t, 2, Cmd("SEND", app[t].slot))
    /\ sending' = app[t].slot
    /\ AppGoto(t, "send")
    /\ UNCHANGED <<sock, socket_event, link, prompt, packets, ghosts>>

\* With the prompt the data are written, with an error the lock is released.
SendData(t) ==
    /\ app[t].pc = "send"
    /\ Done(t)
    /\ IF ex[t].result = "OK"
       THEN /\ toDevice' = Append(toDevice, [Cmd("DATA", app[t].slot)
                                               EXCEPT !.cmd = ex[t].cmd])
            /\ AppGoto(t, "send_socket")
            /\ UNCHANGED <<lock, ex>>
       ELSE /\ lock' = None
            /\ Forget(t)
            /\ AppGoto(t, "up")
            /\ UNCHANGED toDevice
    /\ UNCHANGED <<resp, resp_status, resp_notice, toClient, sent, timeouts, stale,
                   sock, socket_event, sending, link, prompt, packets, ghosts>>

\* rt_event_recv with OR and CLEAR: any bit of the mask will do, and all of
\* them are cleared.
TakeEvent(mask) ==
    /\ socket_event \cap mask # {}
    /\ socket_event' = socket_event \ mask

\* First the bits of the socket ...
SendSocketEvent(t) ==
    /\ app[t].pc = "send_socket"
    /\ TakeEvent(SocketBits(app[t].slot))
    /\ AppGoto(t, "send_result")
    /\ UNCHANGED <<clientVars, sock, sending, link, prompt, packets, ghosts>>

\* ... then the result, OK unless the bit for failure is set.
SendResult(t) ==
    /\ app[t].pc = "send_result"
    /\ TakeEvent(ResultBits)
    /\ lock' = None
    /\ Forget(t)
    /\ AppGoto(t, "up")
    /\ UNCHANGED <<resp, resp_status, resp_notice, toDevice, toClient, sent, timeouts,
                   stale, sock, sending, link, prompt, packets, ghosts>>

SendTimeout(t) ==
    /\ \/ app[t].pc = "send_socket" /\ socket_event \cap SocketBits(app[t].slot) = {}
       \/ app[t].pc = "send_result" /\ socket_event \cap ResultBits = {}
    /\ timeouts < MaxTimeouts
    /\ timeouts' = timeouts + 1
    /\ stale' = TRUE
    /\ lock' = None
    /\ Forget(t)
    /\ AppGoto(t, "up")
    /\ UNCHANGED <<resp, resp_status, resp_notice, toDevice, toClient, sent,
                   sock, socket_event, sending, link, prompt, packets, ghosts>>

-----------------------------------------------------------------------------
(***************************************************************************)
(* at_recvfrom.                                                            *)
(***************************************************************************)

\* at_recvpkt_get: as many packets as fit, from the front, and a part of the
\* next one, which stays (n = 0: only that).
TakePackets(s, r) ==
    /\ r.recvpkt # <<>>
    /\ \E n \in 0 .. Len(r.recvpkt) :
          sock' = [sock EXCEPT ![s] = [r EXCEPT !.recvpkt = SubSeq(@, n + 1, Len(@))]]

\* What was left over is returned at once, without a notice.
RecvLeftover(t) ==
    /\ app[t].pc = "up"
    /\ TakePackets(app[t].slot, Mine(t))
    /\ UNCHANGED <<clientVars, socket_event, sending, app, link, prompt, packets,
                   ghosts>>

\* Nothing there and not closed: a blocking call waits.
RecvBlock(t) ==
    /\ app[t].pc = "up"
    /\ Mine(t).recvpkt = <<>>
    /\ Mine(t).state # "closed"
    /\ AppGoto(t, "recv")
    /\ UNCHANGED <<clientVars, sock, socket_event, sending, link, prompt, packets,
                   ghosts>>

\* rt_sem_take succeeds; without packets the loop waits again.
RecvNotice(t) ==
    /\ app[t].pc = "recv"
    /\ Mine(t).recv_notice > 0
    /\ LET taken == [Mine(t) EXCEPT !.recv_notice = @ - 1] IN
       \/ TakePackets(app[t].slot, taken) /\ AppGoto(t, "up")
       \/ /\ taken.recvpkt = <<>>
          /\ sock' = [sock EXCEPT ![app[t].slot] = taken]
          /\ UNCHANGED app
    /\ UNCHANGED <<clientVars, socket_event, sending, link, prompt, packets, ghosts>>

\* rt_sem_take times out (the HTTP client waits 6 seconds).
RecvTimeout(t) ==
    /\ app[t].pc = "recv"
    /\ Mine(t).recv_notice = 0
    /\ AppGoto(t, "up")
    /\ UNCHANGED <<clientVars, sock, socket_event, sending, link, prompt, packets,
                   ghosts>>

-----------------------------------------------------------------------------
(***************************************************************************)
(* at_closesocket.                                                         *)
(***************************************************************************)

\* Mutant: the link is left to the module.
Close_NoLink(t) ==
    /\ app[t].pc \in {"up", "failed"}
    /\ StateTo(app[t].slot, "closed")
    /\ AppGoto(t, "free")
    /\ UNCHANGED <<clientVars, socket_event, sending, link, prompt, packets, ghosts>>

\* The state changes in advance; a link that is already closed is not closed
\* again.
Close(t) ==
    /\ app[t].pc \in {"up", "failed"}
    /\ StateTo(app[t].slot, "closed")
    /\ AppGoto(t, IF Mine(t).state = "closed" THEN "free" ELSE "close")
    /\ UNCHANGED <<clientVars, socket_event, sending, link, prompt, packets, ghosts>>

CloseLink(t) ==
    /\ app[t].pc = "close"
    /\ ExecStart(t, 0, Cmd("CLOSE", app[t].slot))
    /\ AppGoto(t, "closing")
    /\ UNCHANGED <<sock, socket_event, sending, link, prompt, packets, ghosts>>

\* For the properties: nothing is left of a link.
LinkGone(s) ==
    /\ link[s] = 0
    /\ \A i \in DOMAIN toClient :
          toClient[i].kind \in {"+IPD", "CLOSED"} => toClient[i].slot # s
    /\ sock[s].recvpkt = <<>>

\* at_create_resp finds no memory: no command is sent, and at_closesocket
\* frees the socket all the same.
CloseNoMemory(t) ==
    /\ Fault
    /\ app[t].pc = "close"
    /\ AppGoto(t, "free")
    /\ orphans' = orphans \cup {s \in {app[t].slot} : ~LinkGone(s)}
    /\ UNCHANGED <<clientVars, sock, socket_event, sending, link, prompt, packets,
                   deadUse>>

\* Mutant: the response to AT+CIPCLOSE is not waited for.
LinkClosed_Early(t) == app[t].pc = "closing"

LinkClosed(t) == app[t].pc = "closing" /\ Done(t)

\* free_socket: delete the semaphore, the mutex and the packets ...
FreeObjects(t) ==
    /\ LinkClosed(t) \/ app[t].pc = "free"
    /\ Forget(t)
    /\ sock' = [sock EXCEPT ![app[t].slot].dead = TRUE,
                            ![app[t].slot].recvpkt = <<>>]
    /\ AppGoto(t, "erase")
    /\ UNCHANGED <<restOfClient, toDevice, toClient, socket_event, sending, link,
                   prompt, packets, ghosts>>

\* ... and clear the entry, which makes it free.
FreeEntry(t) ==
    /\ app[t].pc = "erase"
    /\ sock' = [sock EXCEPT ![app[t].slot] = NoSocket]
    /\ app' = [app EXCEPT ![t] = NoApp]
    /\ UNCHANGED <<clientVars, socket_event, sending, link, prompt, packets, ghosts>>

-----------------------------------------------------------------------------
(***************************************************************************)
(* The parser thread: client_parser and the functions of the table of      *)
(* unsolicited result codes.                                               *)
(***************************************************************************)

\* For the properties: the line is about a socket without its semaphore and
\* mutex, and not about a link given up for want of memory.
UsesDead(line) == sock[line.slot].dead /\ line.slot \notin orphans

\* Mutant: the notice is given before the packet is in the list and lost.
Received_NoNotice(r, conn) == [r EXCEPT !.recvpkt = Append(@, conn)]

\* at_recv_notice_cb.
Received(r, conn) == [r EXCEPT !.recvpkt = Append(@, conn), !.recv_notice = @ + 1]

\* urc_recv_func: without memory for the data, or when fewer bytes come than
\* announced, the packet is dropped; without memory for the list entry the
\* notice is given all the same; without a socket the callback returns.
ParseData(line) ==
    /\ LET r == sock[line.slot] IN
       \/ /\ r.magic
          /\ \/ sock' = [sock EXCEPT ![line.slot] = Received(r, line.cmd)] /\ UNCHANGED faults
             \/ sock' = [sock EXCEPT ![line.slot].recv_notice = @ + 1] /\ Fault
          /\ deadUse' = (deadUse \/ UsesDead(line))
       \/ /\ Fault \/ (~r.magic /\ UNCHANGED faults)
          /\ UNCHANGED <<sock, deadUse>>
    /\ UNCHANGED socket_event

\* urc_close_func and at_closed_notice_cb.
ParseClosed(line) ==
    /\ LET r == sock[line.slot] IN
       IF r.magic
       THEN /\ sock' = [sock EXCEPT ![line.slot].state = "closed",
                                    ![line.slot].recv_notice = @ + 1]
            /\ deadUse' = (deadUse \/ UsesDead(line))
       ELSE UNCHANGED <<sock, deadUse>>
    /\ UNCHANGED <<socket_event, faults>>

\* urc_send_func: the event goes to the socket that sent last.
ParseSend(line) ==
    /\ socket_event' = socket_event \cup SocketBits(sending) \cup {ResultBit(line.kind)}
    /\ UNCHANGED <<sock, faults, deadUse>>

Parse ==
    /\ toClient # <<>>
    /\ toClient' = Tail(toClient)
    /\ LET line == Head(toClient) IN
       \/ /\ line.kind \in {"OK", "ERROR", "INFO"}
          /\ ParseResponse(line)
          /\ UNCHANGED <<sock, socket_event, faults, deadUse>>
       \/ /\ \/ line.kind = "+IPD" /\ ParseData(line)
             \/ line.kind = "CLOSED" /\ ParseClosed(line)
             \/ line.kind \in SendResults /\ ParseSend(line)
          /\ UNCHANGED <<resp, resp_status, resp_notice, ex>>
    /\ UNCHANGED <<lock, toDevice, sent, timeouts, stale, sending, app, link, prompt,
                   packets, orphans>>

-----------------------------------------------------------------------------
(***************************************************************************)
(* The module (external): it works its commands off in order and answers   *)
(* each.  After AT+CIPSEND it takes whatever comes next for the data.      *)
(***************************************************************************)
Answer(lines) == toClient' = toClient \o lines

Module ==
    /\ toDevice # <<>>
    /\ toDevice' = Tail(toDevice)
    /\ LET c == Head(toDevice)
           ok == Line("OK", c.slot, c.cmd)
           error == Line("ERROR", c.slot, c.cmd)
       IN
       \/ /\ prompt # None
          /\ \E result \in SendResults : Answer(<<Line(result, prompt, c.cmd)>>)
          /\ prompt' = None
          /\ UNCHANGED link
       \/ /\ prompt = None
          /\ \/ /\ c.name = "START" /\ link[c.slot] = 0
                /\ link' = [link EXCEPT ![c.slot] = c.cmd]
                /\ Answer(<<ok>>)
                /\ UNCHANGED prompt
             \/ /\ c.name = "CLOSE" /\ link[c.slot] # 0
                /\ link' = [link EXCEPT ![c.slot] = 0]
                /\ Answer(<<Line("CLOSED", c.slot, link[c.slot]), ok>>)
                /\ UNCHANGED prompt
             \/ /\ c.name = "SEND" /\ link[c.slot] # 0
                /\ prompt' = c.slot
                /\ Answer(<<Line("INFO", c.slot, c.cmd), ok>>)
                /\ UNCHANGED link
             \/ /\ \/ c.name = "START"
                   \/ c.name \in {"CLOSE", "SEND"} /\ link[c.slot] = 0
                /\ Answer(<<error>>)
                /\ UNCHANGED <<link, prompt>>
             \/ /\ c.name = "DATA"
                /\ UNCHANGED <<toClient, link, prompt>>
    /\ UNCHANGED <<restOfClient, ex, sock, socket_event, sending, app, packets, ghosts>>

\* A server sends a packet, or closes the connection.
ServerSends(s) ==
    /\ link[s] # 0
    /\ packets < MaxData
    /\ packets' = packets + 1
    /\ Answer(<<Line("+IPD", s, link[s])>>)
    /\ UNCHANGED <<restOfClient, ex, toDevice, sock, socket_event, sending, app, link,
                   prompt, ghosts>>

ServerCloses(s) ==
    /\ link[s] # 0
    /\ link' = [link EXCEPT ![s] = 0]
    /\ Answer(<<Line("CLOSED", s, link[s])>>)
    /\ UNCHANGED <<restOfClient, ex, toDevice, sock, socket_event, sending, app,
                   prompt, packets, ghosts>>

-----------------------------------------------------------------------------
\* For the properties: nothing of an abandoned command is around any more
\* when both directions are empty, no caller is in a command, no notice, event
\* or packet is left, and every link is the one its socket is connected by.
Settle ==
    /\ stale
    /\ toDevice = <<>> /\ toClient = <<>>
    /\ lock = None /\ ex = [t \in Callers |-> NoExec]
    /\ resp_notice = 0 /\ socket_event = {} /\ prompt = None
    /\ \A s \in Slots : /\ sock[s].recvpkt = <<>>
                        /\ link[s] # 0 => sock[s].state = "connect" /\ link[s] = sock[s].conn
    /\ stale' = FALSE
    /\ UNCHANGED <<lock, resp, resp_status, resp_notice, ex, toDevice, toClient, sent,
                   timeouts, socketVars>>

LinkSettles(s) ==
    /\ s \in orphans
    /\ LinkGone(s)
    /\ orphans' = orphans \ {s}
    /\ UNCHANGED <<clientVars, sock, socket_event, sending, app, link, prompt, packets,
                   faults, deadUse>>

CallerStep(t) ==
    \/ Socket(t) \/ SocketOpen(t) \/ SocketFails(t)
    \/ ConnectNoMemory(t) \/ ConnectSkipped(t)
    \/ Connect(t) \/ Connected(t) \/ ConnectFailed(t) \/ Reclose(t) \/ Reclosed(t)
    \/ Send(t) \/ SendData(t) \/ SendSocketEvent(t) \/ SendResult(t) \/ SendTimeout(t)
    \/ RecvLeftover(t) \/ RecvBlock(t) \/ RecvNotice(t) \/ RecvTimeout(t)
    \/ Close(t) \/ CloseLink(t) \/ CloseNoMemory(t) \/ FreeObjects(t) \/ FreeEntry(t)

ExecStep(t) ==
    /\ ExecWake(t) \/ ExecTimeout(t) \/ ExecExit(t, app[t].pc = "send")
    /\ UNCHANGED socketVars

Next ==
    \/ \E t \in Callers : CallerStep(t) \/ ExecStep(t)
    \/ Parse
    \/ Module
    \/ \E s \in Slots : ServerSends(s) \/ ServerCloses(s) \/ LinkSettles(s)
    \/ Settle

Spec == Init /\ [][Next]_vars

-----------------------------------------------------------------------------
(***************************************************************************)
(* Type invariant.                                                         *)
(***************************************************************************)
TypeOK ==
    /\ ClientTypeOK
    /\ \A s \in Slots :
          /\ sock[s].state \in {"none", "open", "connect", "closed"}
          /\ sock[s].magic \in BOOLEAN /\ sock[s].dead \in BOOLEAN
          /\ ~sock[s].dead => sock[s].magic /\ sock[s].state # "none"
          /\ sock[s].recv_notice \in Nat
          /\ \A i \in DOMAIN sock[s].recvpkt : sock[s].recvpkt[i] \in 1 .. MaxCmds
    /\ socket_event \subseteq ResultBits \cup 16 .. 18
    /\ sending \in Slots
    /\ \A t \in Callers : app[t].slot \in Slots /\ app[t].retried \in BOOLEAN
    /\ link \in [Slots -> 0 .. MaxCmds]
    /\ prompt \in Slots \cup {None}
    /\ packets \in 0 .. MaxData
    /\ faults \in 0 .. MaxFaults
    /\ orphans \subseteq Slots

(***************************************************************************)
(* Unless a wait has timed out and its remains are still around, a socket  *)
(* holds data of its own connection only: neither packets of the entry's   *)
(* last user nor packets of a link the module has not closed yet.  The one *)
(* exception is an entry whose last user had no memory to close its link   *)
(* (orphans): the next user gets what the module still sends on that link. *)
(***************************************************************************)
OwnData ==
    ~stale => \A s \in Slots \ orphans : \A i \in DOMAIN sock[s].recvpkt :
                 sock[s].recvpkt[i] = sock[s].conn

(***************************************************************************)
(* Unless a wait has timed out, no callback of the parser thread finds an  *)
(* entry that is marked but has no semaphore and mutex: at_socket has not  *)
(* created them yet or could not, or free_socket has deleted them already. *)
(* Again the lines of a link that was given up for want of memory are the  *)
(* exception.                                                              *)
(***************************************************************************)
NoDeadUse == timeouts = 0 => ~deadUse

(***************************************************************************)
(* A caller never waits for a packet that is there: when it waits and its  *)
(* list is not empty, a notice is due, although packets read as left over  *)
(* data leave their notices behind.                                        *)
(***************************************************************************)
NoLostNotice ==
    \A t \in Callers :
        app[t].pc = "recv" /\ Mine(t).recvpkt # <<>> => Mine(t).recv_notice > 0

(***************************************************************************)
(* The comment of at_recvfrom: "socket passively closed, receive function  *)
(* return 0".  A receive call that waits when the server closes goes on    *)
(* waiting, for it looks at the state before its loop only.                *)
(***************************************************************************)
ClosedReturns ==
    \A t \in Callers :
        ~ (app[t].pc = "recv" /\ Mine(t).state = "closed" /\ Mine(t).recv_notice = 0)
=============================================================================
