# Multifunction clock: TLA+ models, checks and proofs

The repository is the firmware of a desk clock: an STM32 board running RT-Thread
4.0.3 shows time, room climate and weather on an OLED, and changes the page when
it is tilted (an MPU6050 gives the attitude angle). The program's own code is
`applications/`; nearly all the rest is the RT-Thread kernel, its components and
packages. The models here cover the application and the parts of RT-Thread its
correctness rests on: mailbox, mutex, heap, scheduling by priority, the real-time
clock with its NTP synchronisation and calendar, and the AT client with the
sockets of the ESP8266 module.

## The system

| Part | State | Operations |
|---|---|---|
| `main.c` | number of start-up calls made | starts five threads, then initialises four mailboxes, then sleeps for ever |
| `my_time.c` (priority 22) | one `mesg_time` record, the soft RTC | asks NTP once and sets the RTC; every second formats date and time into the record and mails its address |
| `my_dht11.c` (24) | one `mesg_dht` record | reads the sensor; formats temperature and humidity, mails the address; ends after one failed read |
| `my_mpu6050.c` (27) | `page`, `page_buff` | each tilt moves `page` and mails it; a level or slightly tilted position re-arms the switch |
| `oled.c` (28) | `oled_sign`, the addresses received, the frame | waits for the weather, detaches that mailbox; then polls the page mailbox, waits for the page's record, draws it field by field |
| `Weather.c` (30) | HTTP session, buffer, uri, JSON tree, a `mesg_weather` record | one GET; reads the body in parts, parses after each part, mails the record and frees it |
| `ipc.c` mailbox | ring, offsets, `entry`, two suspend lists | init/create, send, send_wait, recv, reset, detach/delete, thread timeouts |
| `ipc.c` mutex | `value`, `owner`, `hold`, `original_priority`, suspend list | init, take, release, timeouts, priority inheritance |
| `scheduler.c`, `thread.c` | thread states, ready queue | suspend, resume, sleep, preemption by priority |
| `soft_rtc.c`, `rtc.c`, `ntp.c` | `init_time`, `init_tick`, one static NTP packet | get/set time, `set_time`, `set_date`, `ntp_get_time`, periodic synchronisation by a thread of its own |
| `time.c` of the C library | none | `gmtime_r`, `mktime` |
| `at_client.c` | `lock`, `resp`, `resp_status`, `resp_notice` | a caller sends a command and waits, the parser thread reads lines and completes the response or calls the handler of an URC |
| `at_socket.c`, `at_socket_esp8266.c` | table of sockets, receive lists and notices, `socket_event` | socket, connect, send, receive, close; callbacks for data, for a closed link and for the result of a send |
| `mem.c` | chain of block headers, `lfree`, `used_mem`, `max_mem` | `rt_malloc`, `rt_calloc`, `rt_realloc`, `rt_free` |
| `webclient.c` | session | HTTP request and reading of the body |

The application threads share no lock. They interact only through the mailboxes, which carry
addresses of records that their producers go on writing (or, in `Weather.c`,
free), and through the scheduler: what protects a record is the priority of its
producer. That is what makes the program hard to test. `PROJECT.json` lists the
hazards at their lines; the main ones are

* start-up: threads are started before the mailboxes they use exist;
* records read by the OLED thread while, or after, their producer changes them;
* full mailboxes: mails are dropped, and what is shown lags behind;
* endless waits of the OLED thread for a producer that has ended;
* inside the mailbox: wake-ups stolen by another thread, timeouts racing a
  resume, a detach racing both and new callers, wrap-around of the ring;
* inside the mutex: hand-over to a thread that has not run yet, inherited
  priorities and the order of releases;
* the clock: two threads set it, one to UTC and one to local time, the latter in
  two read-modify-write steps; the 32-bit tick wraps; both use one static packet,
  which one call may clear or convert a second time under the other;
* the AT stack: responses that come after their command timed out, links and
  table entries that are reused while data of the last user are under way,
  notices that do not match the packets, a close that races a receive, memory
  that is missing in the middle of opening or closing a socket;
* the heap: links and `lfree` after any sequence of splits and merges, and
  `rt_realloc`, which lets other threads in while it moves a block.

## Modules

| Module | Models | Notes |
|---|---|---|
| `MailboxFifo` | what callers are promised: a bounded FIFO | abstract specification |
| `Mailbox` | the mailbox of `ipc.c`, suspend/resume/timeout of `thread.c` | a critical section is one step; a woken thread goes on in a later one |
| `MailboxProofs` | theorems about `Mailbox` | |
| `Mutex` | the mutex of `ipc.c` | `rt_mutex_take` and `rt_mutex_release`, one action per exit |
| `MutexProofs` | theorems about `Mutex` | |
| `ListLemmas` | lemmas about suspend lists, least elements, products and quotients | cited by all the proofs but those about `ClockApp` |
| `ClockKernel` | scheduling by priority, sleep, mailboxes as FIFOs | only the most urgent ready thread may step (`Runs`) |
| `TimeThread`, `DhtThread`, `MpuThread`, `WeatherThread`, `OledThread` | one application thread each | a step is the code up to the next point where another thread may come in |
| `ClockApp` | `main` and the composition of the threads | state properties of the whole clock |
| `ClockProofs` | theorems about `ClockApp` | |
| `Calendar` | `gmtime_r`, `mktime`, and what `set_time` and `set_date` make of them | pure functions, held against a walk through the Gregorian calendar |
| `CalendarProofs` | theorems about `Calendar` | |
| `ClockSync` | soft clock, `ntp_get_time`, time thread and synchronisation thread | a step of the time thread reaches to its next blocking call or, with an answer received, to its conversion; one of the less urgent synchronisation thread makes one access to shared state |
| `ClockSyncProofs` | theorems about `ClockSync` | |
| `AtClient` | `at_obj_exec_cmd` and the parser thread | commands and lines are sequences in either direction |
| `AtSocket` | sockets on top of `AtClient` (which it extends), the module and the servers as environment | composition of callers, parser thread and module |
| `AtProofs` | theorems about `AtSocket` with its `AtClient` | |
| `Heap` | the small-memory allocator | a section under `heap_sem` is one step |
| `HeapProofs` | theorems about `Heap` | |
| `MCMailbox`, `MCMutex`, `MCClockApp`, `MCClockSync`, `MCAtSocket`, `MCHeap` | instances for TLC | |

`ClockApp` uses the mailbox as the FIFO that `MailboxProofs!ImplementsFifo`
shows it to be, so the two levels fit together: the ring, the lists and the
timeouts are dealt with once, in `Mailbox`.

Correspondence of state. Variables have the names of the C variables where
there is one (`msg_pool`, `in_offset`, `page_buff`, `oled_sign`, `hold`...).
`pc[t]` is where an application thread stands, named after what it does next.
`suspended` holds the threads in a delay or waiting for a device. A record is a
function from its fields to the reading each was written from, or `Junk` as
`rt_malloc` leaves it; the field-by-field writing and drawing are separate steps,
because a more urgent thread may come in between. A weather record is "weather"
while its thread owns it, "freed" after `rt_free`, "foreign" once the heap has
given the memory to somebody else. The content of the HTTP buffer is "weather"
(parses, with the fields wanted), "other" or "bad". `lost` records that the last
page mail found its mailbox full. Words of messages, formatting and screen
coordinates are left out.

In `Mailbox`, `detach` is where the thread inside `rt_mb_detach` stands: a test of
a list with interrupts enabled, a removal in a critical section of its own, or the
release of the object. Callers may call, wake and time out between any two of
these. `late` holds the threads that suspended after their list had been found
empty; it occurs in properties only.

In `ClockSync`, `now` counts ticks without wrapping; the code sees it modulo
`2^TickWidth`. `source` and `halfway` remember where the time on the clock came
from, `begun` and `alone` when each NTP query began and whether it overlapped
the other: they occur in properties only. `ntp_get_time` is asking (`NtpSend`, once
per server, each a lookup that blocks), reading `start` (`NtpListen`), receiving
and converting. An answer may be stamped, and wait in the socket, before `start` is
read, and ticks may pass between its receipt and the second look at the timeout.
What is converted is the static packet as it is then: an answer in network order,
or else anything (`Garbage`), since a request or a packet converted before, put
through `ntohl` and less `NTP_TIMESTAMP_DELTA`, may also be negative. In `AtClient` a command is a number,
and each line of the module carries the number of the command it answers, so
that a response to the wrong command can be told; the code does not look at it.
`ex[t]` is the caller's stack frame of `at_obj_exec_cmd` with its response
object, `resp` whose response the parser writes into. In `AtSocket` a packet is
the number of the connection it came over, and `sock[s].dead` says that the
entry has no semaphore and mutex (between the two halves of `at_socket` and of
`free_socket`, and for good when they could not be created). Memory may be
missing at every allocation of these files: for the semaphore or the mutex
(`SocketFails`), for the response to `AT+CIPSTART` (`ConnectNoMemory`) or to
`AT+CIPCLOSE` (`CloseNoMemory`, after which the entry is freed with its link open),
for a packet or its list entry (`ParseData`). `orphans` holds the slots whose link
was given up in this way, until the link and its lines are gone (`LinkSettles`). `stale` is set when a wait times out and reset by `Settle` once
nothing of the abandoned command is left anywhere. `stale` and `orphans` occur in
properties only.
In `Heap`, `mem` is the set of headers by address, in units of `RT_ALIGN_SIZE`,
and `held` what each thread was given.

Outside the repository, and modelled from their use: the ESP8266's firmware and
the servers behind it, cJSON (parses or not), u8g2
(the display), the DHT11 driver (found or not; good or failed read).

## Runs

| Run | Question | Instance |
|---|---|---|
| `mailbox` | ring, lists and wake-ups stay consistent; callers see a FIFO | 3 threads, 2 priorities, PRIO lists, 2 slots, 2 mails, timeouts endless, 0, 1 and 2, resets, a detach with callers and timeouts between its steps |
| `mailbox_live` | finite waits end; mail does not lie beside a waiting receiver | 3 threads, FIFO lists, 1 slot |
| `mutex` | ownership is never lost or doubled; urgency is inherited and given back | 3 threads of 3 priorities, one FIFO and one PRIO mutex, hold limit 2 |
| `clock_faults` | no use before initialisation; the weather thread releases what it took; counted page and drawn page agree | every network, heap and sensor failure, body of up to 2 parts, mailboxes of 2 mails, all attitudes; from the start, and from the first page on without a DHT11 |
| `clock_live` | the selected page is shown, the time page catches up, records are drawn whole | working peripherals, clock of 2 values, mailboxes of 1 mail; from the start of the display, and one turn either way from each page |
| `calendar` | `gmtime_r` agrees with the Gregorian calendar, `mktime` inverts it, `set_time` and `set_date` leave the other half alone | every day from 1970 to 2110, first, middle and last second |
| `clock_sync` | NTP answers are times servers stamped; how far the clock may be off; when the date is a day behind | both threads, servers that answer or not, ticks of 2 bits, days of 5 seconds, until tick 8 |
| `at_stack` | responses and data reach the caller they belong to; no use of freed responses or sockets; no notice is lost | a TCP and a UDP caller, 2 links, 3 commands, 1 packet, 1 timeout, 1 allocation that fails |
| `heap` | the chain covers the heap, free neighbours are merged, `lfree` is the lowest free block, held blocks have their size, statistics add up, what is refused | 2 threads, 12 units of memory, requests of 1, 3 and 7 |
| `clock_weather_page` (violation) | is the weather page drawn from the weather? | |
| `clock_assert` (violation) | does any thread stop in an assertion? | body of 2, buffer of 2 |
| `at_recv_close` (violation) | does a receive call return when the server closes? | 1 caller, no timeout |

### Bounds

* `Size`, `MbSize`: 32 in the firmware. One slot makes full and empty adjacent;
  two let the offsets wrap apart and let an old page mail overtake nothing. The
  theorems hold for every size.
* `Timeouts` (`mailbox`): the most urgent thread calls with 0 and 2, one of the
  two others without end and one with 1. Two ticks can be cut in half by an early wake-up, which is
  where `timeout -= tick_delta` matters; with one tick a thread can time out between
  a test and a removal of `rt_mb_detach`. In `Mutex` a call
  does not wait twice, so a running timer is enough.
* `MaxTime`: the clock stops there, so that "catches up" has an end; two values
  tell an old record from a new one.
* `MaxBody`, `RespSize`: bodies in one part, in two parts, and cut short.
* `HoldMax` 2 for 255; `Samples` two values where records are looked at.
* Start states. `clock_live` and part of `clock_faults` begin in states that lie
  some way behind `Init` (`MCClockApp`): the weather thread has ended and the
  display is just starting (`WeatherFirst`, `NoDht`), or page p is shown and every
  thread is in its delay (`Settled`). TLC reaches each of them from `Init`. The
  steps of the weather thread, interleaved with everything else, would multiply
  the states beyond reach; `clock_faults` and the violations have them from
  `Init`. In `clock_live` the board is never level again after a tilt, so one
  turn is made from each start state: every page is entered from both
  neighbours, with stale mails waiting. Turns in quick succession are left to
  `clock_faults`.
* `calendar`: `PerMinute` 2, `PerHour` 3, `PerDay` 4 for 60, 60 and 24, so that
  seconds up to 2110 fit the model checker's integers; the arithmetic on days,
  where the leap years are, is that of the code. 2110 lies behind 2100, the one
  year the code corrects for.
* `clock_sync`: two ticks a second (an answer and its conversion may fall in
  different seconds), four ticks to a wrap and five seconds to a day, so that from
  tick 1 to the horizon at tick 8 the tick comes round once, with time left to set
  the clock on either side of it and across it, midnight passes and both threads set
  the clock, the synchronisation thread more than once. One boot time, a
  few seconds before midnight. `Garbage` is a time far ahead and one before 1970.
* `at_stack`: three commands are a connect of each caller and a close or a send
  of one of them, so an entry and its link are used twice; one packet, one timeout
  and one allocation that fails (`MaxFaults`; not after a timeout), each at any moment.
* `heap`: a header of 1 unit and a minimum of 2; 12 units hold up to four blocks,
  so a freed block meets free and used neighbours on both sides, and a block of
  7 can be cut. Requests below the minimum are among `Sizes`.

`CHECK_DEADLOCK FALSE` is said only for runs on kernel objects where every
caller may be blocked (the mailbox) and where a bound ends the run: the last year
of `calendar`, the horizon of `clock_sync`, the number of commands of `at_stack`
and `at_recv_close`.

### Fairness

* `Mailbox`: the tick interrupt never stops, the timer that is due is served,
  and a thread that is ready is scheduled in the end. Nothing is assumed of
  callers: they need not send or receive.
* `ClockApp`: every delay ends and every device answers or times out (weak
  fairness of `Wake`, except for `main`, whose loop does nothing), and the
  processor is idle again and again. Each thread does a bounded amount of work
  and then sleeps 10 ms to 2 s or waits for mail, so ready threads of lower
  priority do get to run; an idle processor has run all of them.

## What the violations show

* `clock_weather_page`: the weather record is mailed and freed in consecutive
  lines; the OLED thread draws from that address for as long as the clock runs.
* `clock_assert`: `weather_get_comm` parses the buffer before it looks at
  `bytes_read`. When the body ends before Content-Length, the old content is
  parsed and mailed again, to a mailbox already detached.
* `at_recv_close`: `at_closed_notice_cb` wakes the receiver, but the loop of
  `at_recvfrom` looks only at the list of packets, finds it empty and waits again.

## What the passing properties leave open

Some properties are stated under a condition because the code does not give more.

* `DetachFreesAll` says whom a detach leaves suspended: those who came, or came back
  after a wake-up, once their list had been found empty (`late`). Such threads
  exist: the mailbox stays a mailbox until `rt_object_detach`, so a call that enters
  before it is accepted, and a call without timeout then waits for ever. Besides,
  `rt_ipc_list_resume_all` tests the list with interrupts enabled and takes its
  first entry in a critical section entered afterwards. If the last waiting thread
  times out, is reset or is woken in between, the list head is taken for a thread
  and the assertion of `rt_thread_resume` stops the system (`Halted`). The model
  reaches that state; no run asks about it, for nothing in the code or its
  documents promises that a mailbox may be detached while it is in use.
  `FiniteWaitEnds` and `MailMeetsReceiver` except it.
* `OwnPriority` is checked without nesting (`Nested = FALSE`).
  `original_priority` is kept per mutex: take a, inherit a waiter's priority, take
  b, release a, release b, and the inherited priority stays. `Inheritance` is
  stated for PRIO lists: in FIFO lists a hand-over may leave an urgent thread
  behind a less urgent owner.
* `PageShown` assumes a DHT11 that answers: one failed read ends its thread, and
  on the climate page the OLED thread then waits for ever.
* `DrawsWholeRecords` is about records, not frames: the time thread may write a
  new second between the drawing of the date and of the hour.
* `AnswerIsRight` covers the synchronisation thread only while its query does not
  overlap the time thread's. `ntp_get_time` keeps its packet in a static
  variable ("this function is not reentrant", says its comment); the time thread
  may clear it, or fill and convert it, between `recvfrom` and `ntohl`, and the
  synchronisation thread returns a time nobody sent, possibly a negative one.
* `ClockLag`: the time thread writes UTC to a clock that otherwise shows local
  time. The clock is off by the zone until the next synchronisation, and a
  synchronisation that is torn by that write, or by a wrap of the tick between
  `set_time` and `set_date`, may leave any mixture of the two. Nothing is said
  either of a synchronisation whose `set_date` finds the clock before 1970 (set
  to 0 and then carried back by a wrap of the tick). C's remainder of a negative
  time is negative: the date is a day behind, and from two days before 1970 on
  it may be two, if midnight falls between `set_time` and `set_date`. The small
  days and ticks of the run cannot show that second day; the proof did.
* `DayLostAtMidnightOnly`: `set_date` is given the date of the answer, so a
  midnight between answer and `set_date` leaves the clock a day behind until the
  next synchronisation.
* `OwnResponse`, `OwnData` and `NoDeadUse` hold until a wait times out, the first
  two again once its remains are gone: a late response is taken for the response
  to the next command.
* `OwnData` and `NoDeadUse` except the lines of a link that was given up for want of
  memory (`orphans`). When there is no memory for the response to `AT+CIPCLOSE`,
  `at_closesocket` frees the entry all the same; the module's link stays open, its
  data reach the next user of the entry, and find an entry without semaphore and
  mutex if that user is about to make or free them. An entry whose semaphore or
  mutex could not be created stays marked and is never used again.
* `at_recvpkt_get` reads `node->next` of a node it has just freed. `TakePackets` takes
  the packets in one step, as if nobody else used the memory in between.
* `RefusedAtTheEndOnly`: `rt_malloc` refuses a request that would fill the last
  block exactly, because its loop ends at `ptr < mem_size_aligned - size`.
  The adjustments of `lfree` inside `plug_holes` never take effect, since both
  callers have moved `lfree` down before.
* `mktime` normalises days outside the month wrongly and counts the years before
  it carries. No caller of the firmware passes such fields; `FieldsReplaced` is
  about those that are passed.

## Proofs

Every safety property the passing runs check, the refinement included, is also a
theorem, for all values of the constants. Each is proved from an inductive invariant, which TLC checked on
the instances of the runs first; the property itself is seldom inductive, and the
lists below say what had to be added.

`MailboxProofs`, for every finite set of threads, `Size >= 1`, either order of the
lists, every priority and timeout:

* `TypeCorrect` (`TypeOK`), inductive by itself.
* `RingCorrect` (`RingOK`). The slots between the offsets hold mails, so a step of
  a blocked sender needs to know that what it carries is a mail:
  `TypeOK /\ RingOK /\ SendersCarryMail`.
* `ImplementsFifo` (`FifoSpec`). The FIFO is the sequence of slots read from
  `out_offset`; under the same invariant a put appends, a take removes the head, a
  reset empties, and every other step leaves it alone.
* `MailboxLists` (`ListsOK`) by `QueueInv`, which says the same of each list
  separately and adds what the call of a listed thread is.
* `MailboxWakeups` (`WakeupsMatch`), from `QueueInv`: a resume adds one to the
  threads on their way, and a thread that runs takes one mail or one slot with it
  (`MoreThreads` counts them; `ThreadsAssumption`: the set of threads is finite).
* `MailboxDetach` (`DetachFreesAll`), for calls, timeouts, wake-ups and resets between
  all steps of the detach, by `DetachInv`: once a list has been found empty, whoever
  is suspended in it is in `late`. With `QueueInv`, a list that is empty has nobody
  suspended, which is what the test of the detach relies on.

`MutexProofs`, for every set of threads and mutexes, priorities, flags and limits:

* `MutexTypeCorrect`, `MutexFreeOrOwned`, `MutexWaitersListed`, `MutexWokenOwner`.
  They are proved together, because a hand-over takes the head of a list, which
  must be a suspended thread that asked for this mutex and owns it not yet
  (`SuspendedInCall`).
* `MutexInheritance` and `MutexOwnPriority`, under `~Nested`, by `PrioInv`: a thread
  owns one mutex and owns none while it waits, `original_priority` is its own,
  and PRIO lists are sorted. With nested mutexes both properties are false of the
  code: the release of an inner mutex restores a priority while the outer one is
  still waited for.

`HeapProofs`, for every size of heap, header and request, and every number of
threads:

* `HeapTypeCorrect`, `HeapChain`, `HeapCoalesced`, `HeapLowestFree`,
  `HeapHeldBlocks`, `HeapRefusal`. The chain is a predicate of the function `mem`
  (`Linked`), because `plug_holes` merges twice in one step and passes through
  states that are not coalesced. A move of `rt_realloc` under way needs that both
  its blocks stay the thread's own (`MoveOK`).
* `HeapStatistics` (`StatsRight`). A step changes one or two blocks, so the invariant
  speaks of sums along the chain (`UsedTotal`), where it is plain what that does.
  `StatsRight` is a fold over the set of used blocks in an order nobody knows. For
  every finite set there is a function that adds up its subsets (`SumExists`), made
  for larger and larger subsets (`OneMore`); the sum does not depend on the member taken
  out last (`SumTakesOut`); and the last sum along the chain is the sum of the set
  (`TotalIsSum`).

`ClockProofs`, for every mailbox size, clock, body length, sample and failure:

* `NoEarlyUse` (`NoUseBeforeInit`). Until its nine start-up calls are made `main`
  is ready, and being the most urgent it is the only thread that runs; all others
  stand at their first instruction (`BootInv`).
* `WholeRecords` (`DrawsWholeRecords`). `RecordInv` adds to `BootInv` one part per
  thread: a producer's record is whole unless the producer stands between two
  fields, where it is ready (`TimeInv`, `DhtInv`); a mail in its box implies a
  record written at least once; the OLED thread draws a page only after such a
  mail (`OledInv`). A producer between two fields is more urgent than the OLED
  thread, so the latter does not run.
* `ClockTypeCorrect` (`TypeOK`) by `AppInv`, which adds to `TypeOK` and `BootInv` that
  the weather thread never reads more of the body than is left and mails a record
  that exists, and that a frame has fields only while it is drawn (`LinkInv`).
* `ClockWeatherReleases` (`WeatherReleases`) by `HoldInv`: the JSON tree is owned only
  while its record is mailed and freed; the clean-up at the end takes the rest.
* `ClockPageInSync` (`PageInSync`) by `PageInv`: the page mailbox exists before the
  page selector runs, so no page is lost in an assertion, and the OLED thread
  stays on page 0 until it has detached the weather mailbox.

`AtProofs`, for every number of callers, sockets, commands, timeouts and failed
allocations:

* `AtTypeCorrect` (`TypeOK`).
* `AtRespOfHolder` (`RespOfHolder`) by `CallInv`: where a caller stands decides
  whether it holds the lock and is in `at_obj_exec_cmd`.
* `AtNoLostNotice` (`NoLostNotice`) by `SlotInv`: no two callers share a socket.
* `AtOwnResponse` (`OwnResponse`) by `PhaseInv`: unless something stale is around,
  a command is in one of a few phases (sent, with the module, answered, taken),
  and in each it is known what lies in either direction; if nobody holds the lock
  nothing of a command is under way.
* `AtOwnData` (`OwnData`) by `EntryInv` and `LinkInv`: a link and the data on their
  way over it belong to the connection of the entry, `CLOSED` is the last line
  about a link, and an entry that has no semaphore and mutex, or whose owner is not
  connected, has neither a link nor lines under way. `LinkInv` is about slots outside
  `orphans`, and a slot leaves that set only when nothing of its link is left, which
  gives the invariant back (`OrphanSettles`).
* `AtNoDeadUse` (`NoDeadUse`) from the same: an entry without semaphore and mutex is
  free, or belongs to a caller that is making or deleting it, or was left behind
  when they could not be made; in each case no line is about it.

`ClockSyncProofs`, for every tick rate and width, length of a day, zone, timeout
and horizon:

* `SyncTypeCorrect` (`TypeOK`); of `Garbage` it is assumed that it is a set of
  integers, and an overlapped call may return any of them.
* `SyncAnswerIsRight` (`AnswerIsRight`) by `AnswerInv`: a stamp in the inbox is
  newer than the call (`InboxInv`); the packet a thread is about to convert is the one
  it received, for the time thread because the other does not run then (`MayRun`),
  for the synchronisation thread if `alone` (`PacketInv`); and two calls under way at
  once have cleared `alone`.
* `SyncClockLag` (`ClockLag`) and `SyncDayLost` (`DayLostAtMidnightOnly`) by
  `LagInv`, which follows a synchronisation through its four accesses: the time
  about to be written has the time of day of the answer; the clock between
  `set_time` and `set_date` is that time carried on (and the answer is not negative
  if `alone`); what `set_date` writes, or a
  day more, lies between the answer and the answer carried on by the clock
  (`Fits`). The rest is arithmetic of rounding (`Rounding`, `NotAhead`), of laps of
  the tick (`LapsBetween`) and of days (`DaySet`).

`CalendarProofs`, for every length of a minute, an hour and a day, and a walk that
ends in any year:

* `CalendarGmtime` (`GmtimeIsCalendar`) by `WalkInv`: the day of the walk is the days
  of all years before its date (`DaysBefore`, a closed form with the leap years),
  those of the months before it and its day of the month. `YearLoop` comes to the
  one year that holds the day (`YearLoopEnds`), and the table of common years
  gives the right month on either side of 29 February (`MonthOfDay`).
* `CalendarFields` (`FieldsReplaced`): the carries and the month loop leave the
  fields of a date alone, and the days of `mktime`, with the correction for century
  years that the code calls not intuitive, are the days since 1970 in every year
  (`DaysSince1970`), where TLC goes past one century only.

Both loops are recursive functions, and a recursive definition may be used in a
proof only when such a function exists. The year loop is shown to have a closed
form, the month loop is put together from functions on the fields whose number
`Left`, which falls with every turn, is bounded (`LoopExists`). Where an induction
is needed it is made by the least counterexample (`LeastOf` in `ListLemmas`), since
the library's induction theorems are out of the prover's reach. The theorems are
about unbounded integers: with a `time_t` of 32 bits the dates end in 2038.

The proofs rest on the named assumptions on the constants, which TLC evaluates in
every run, and on the community modules' definitions. Three of them only give the
prover what it does not know or the code takes for granted: `2 ^ TickWidth` is a
positive number (the prover has no exponentiation), `None` is not a socket
(`NoneAssumption`), and threads are finitely many (`ThreadsAssumption`).

Only model-checked are the liveness properties `FiniteWaitEnds`, `MailMeetsReceiver`,
`PageShown` and `ClockCatchesUp`: the prover does not do fairness or ENABLED.

## Not modelled

* `at_client_obj_wait_connect` (once, before any socket exists), the serial
  receive path below a line, `at_domain_resolve`, server sockets, and the counters
  of `select` and `poll`. A line that does not fit the receive buffer is left out:
  the status `AT_RESP_BUFF_FULL` is overwritten by that of the end of the
  response in any case.
* HTTP parsing: `webclient_get` and `webclient_read` are seen as one wait and its
  result.
* Text formats of `asctime` and `ctime`, the POSIX clock wrappers.
* `rt_mutex_detach`/`delete`, and semaphore, event and message queue as kernel
  objects: where they are used they are a counter and a set of bits.
* Overflow of `RT_ALIGN(size)` and of `count * size` in `rt_calloc`: no caller of
  the firmware comes near.
* Time slices: no two application threads share a priority.
* Register access, I2C, serial, eMPL's floating-point attitude, the HAL, shell,
  file systems, lwIP, mbedTLS: device I/O or parts the clock does not use.

The repository counts some 935,000 lines, nearly all of it vendor headers, HAL,
and packages that are in the tree and not in the firmware's behaviour (several
versions of lwIP, file systems, mbedTLS, fonts). The map covers about a third of
the files it touches, which are the ones the clock's behaviour depends on; a
larger share of the whole would mean models of code the clock never runs.

## Plan

1. Done: `Mailbox` and its FIFO; the application threads and their composition;
   `Mutex`; `Calendar` and `ClockSync`; `AtClient` and `AtSocket`; `Heap`.
2. Done: theorems for the safety properties of all of them.
3. Open: liveness beyond the instances of the runs, which needs another prover, and
   the parts listed under "Not modelled".
