# A TLA+ verification of the mirror firmware

The repository is the firmware of a "smart mirror": RT-Thread 4.0.3 on a
Loongson 1C board, with an ESP32 (Bluetooth, the phone's app), an OpenMV camera
(face recognition) and a web page with the users' schedules. The application is
small. What makes it hard is that it consists of threads, interrupt handlers and
timers that talk through kernel mailboxes, message queues, a serial ring buffer
and plain global variables.

The modules here model the kernel objects and the timers that the application and
its drivers are built on, and the application's services on top of them. TLC checks them
on small instances. TLAPS proves every safety property of the passing runs for every
value of the constants, and with them that mailbox, message queue and serial receiver
implement their abstract channels.

## 1. Inventory

Files are relative to `src/`.

| component | state | operations | interacts with |
|---|---|---|---|
| mailbox, `rt-thread/src/ipc.c` | ring of words, two offsets, count, two waiting lists | init, send, send_wait, recv, control, detach; thread timeout | all threads, tick interrupt |
| message queue, `ipc.c` | slots on a free list and a message list, tail, count, two waiting lists | init, send, send_wait, urgent, recv, control, detach | interrupt handlers send, threads receive |
| serial receive, `components/drivers/serial/serial.c`, `drivers/drv_uart.c` | ring, put and get index, `is_full`, callback | interrupt, read, open, set_rx_indicate | `uart_input` sends to `rx_mq`, the thread reads |
| phone service, `applications/test_esp32.c` | `rx_mq`, `json_mb`, `app_buffer`, `readstate`, `user_num`, `user_date_t` | esp32 thread (commands, JSON text), json thread, json_state thread, shell command | mails by address, globals shared with the camera service |
| schedule fetch, `applications/thread.c` | `mb`, `bytes_read`, `user_date_t`, parser counters | thread1 (consumer), thread2 (fetch and parse), shell command | web client, mailbox |
| camera service, `applications/openMv.c` | `openmv_mq`, `screen`, backlight, `face_flag`, `user_num_flag` | openmv thread, screen thread, shell command | serial line, GUI, phone service through `face_flag` |
| semaphore, mutex, event, `ipc.c` | value; owner, hold count and priorities; event set; one waiting list each, FIFO or by priority | init, take, release, send, recv, control, detach; thread timeout | drivers, heap, GUI and network packages |
| heap, `rt-thread/src/mem.c` | block headers, lowest free block, `used_mem`, `heap_sem` | init, malloc, realloc, free | every `rt_thread_create`, the web client |
| timers, `rt-thread/src/timer.c`, `clock.c` | tick count, timer list in deadline order, flags | init, detach, start, stop, control, tick interrupt | thread timeouts, drivers |
| scheduler, threads, object list, `rt-thread/src` | ready queues, object lists | suspend, resume, timeout, change of priority, object init and detach | every object |

The other parts (GUI engine, lwIP, AT sockets, TLS, web client, file systems,
shell, board drivers and chip library) are third-party code or register access;
`PROJECT.json` lists them with the reason each one is left out.

**What is hard to test here.** `PROJECT.json` lists it line by line under
"hazards". In short:

- a waiter is made ready by a peer, by its timer, by a reset or by a detach, and
  looks again only when it is scheduled (lost wakeups, a timeout that races with
  a wakeup, a place or a mail taken by a third thread);
- the message queue copies messages with interrupts *enabled*, so a slot is for a
  while on no list at all;
- `rt_ipc_list_resume_all` and `rt_mb_detach` are several locked sections;
- the receive interrupt moves the reader's index of the serial ring, and a
  notification is lost when `rx_mq` is full;
- buffers are mailed by address and refilled; mailboxes are detached by their
  consumer while the producer still sends;
- shell commands may be given again while a service runs;
- the phone's bytes arrive in batches of any size, and the command parser compares
  and copies bytes behind the end of a batch, which earlier batches left there;
- a semaphore token or a mutex is handed to a thread that has not run yet, while its
  timer, a reset or a detach may wake it too; an owner's priority is lent and given back;
- deadlines wrap around, and a timer's client is interrupted between the steps of a
  start, a stop or a change of flags by the handler that fires the timer;
- the heap is consistent only while `heap_sem` is held, and `rt_realloc` gives it back
  twice on its way.

**What correctness means, per component.** The mailbox and the queue are bounded
FIFO channels whose waiters are never forgotten. The serial ring delivers bytes
in order, drops only the oldest, and leaves no byte behind unless a notification
was lost. Semaphore tokens, the ownership of a mutex, lent priorities and taken
events are accounted for exactly. The heap is a tiling of blocks, each used one with
one owner. Timers fire in order, on time, once, and not after they were stopped. A
JSON text is collected byte for byte however it is divided. Each service has one
consumer, uses a mailbox only while it exists, counts and files each item once and
where it belongs, and comes to an end.

## 2. Modules

| module | models | on top of |
|---|---|---|
| `IpcObject` | waiting lists, suspend, resume, timeout, detach, reset: what mailbox and queue share | |
| `Mailbox` | `rt_mb_*` | `IpcObject`; implements `Channel` |
| `Channel` | abstract: bounded FIFO with pending calls | |
| `MessageQueue` | `rt_mq_*`, slots and next pointers, copy steps | `IpcObject`; implements `MsgChannel` |
| `MsgChannel` | abstract: bounded channel whose pending calls keep their operation and message; `send` puts behind, `urgent` in front; a place is occupied while a message is copied in or out | |
| `RxQueue` | `rx_mq` over the memory the application gives it | `MessageQueue` |
| `SerialRx` | the ring of the serial driver | |
| `UartReceiver` | interrupt handler, `uart_input`, `rx_mq`, reading thread | `SerialRx`; implements `ByteStream` |
| `ByteStream` | abstract: byte FIFO that discards the oldest | |
| `EspParser` | the scanning loop of `esp32_thread_entry`, byte by byte | batches as read in `UartReceiver` |
| `JsonService` | JSON texts from the phone to the user table, `user_num` in two threads | `EspParser`, a mailbox as in `Channel` |
| `ScheduleFetch` | web page to the user table | a mailbox as in `Channel` |
| `OpenMv` | camera reports, screen thread, backlight, command `face` | batches as read in `UartReceiver` |
| `WaitList` | one waiting list in FIFO or priority order, suspend, resume, timeout, reset, detach | |
| `Semaphore`, `Mutex`, `Event` | `rt_sem_*`, `rt_mutex_*`, `rt_event_*` | `WaitList` |
| `Heap` | `rt_malloc`, `rt_realloc`, `rt_free`, `plug_holes` | `Semaphore` (`heap_sem`) |
| `KernelSync` | threads that use one of these objects | the four above |
| `Timer` | hard timers and the tick interrupt | |
| `MailboxProofs`, `MessageQueueProofs` | theorems | `Mailbox`, `MessageQueue` |
| `UartReceiverProofs` | theorems | `UartReceiver`, `OpenMv` |
| `KernelSyncProofs`, `HeapProofs` | theorems on semaphore, mutex, event; on the heap | `KernelSync` |
| `ScheduleFetchProofs`, `JsonServiceProofs` | theorems | `ScheduleFetch`, `JsonService` |
| `TimerProofs` | theorems | `Timer` |
| `MC*` | model values, symmetry, sample pages | |

**How state and actions correspond to code.** Variables keep the names of the
C structures' fields and of the application's variables. In the kernel modules
an action is one section the code runs with interrupts disabled, or one step
between two such sections; `pc[t]` is the place in the call, `timeout[t]`,
`value[t]`, `result[t]` are its locals and its return value, `error[t]` is
`thread->error`. `Expire` is `rt_thread_timeout`. An interrupt handler is a
caller that only uses timeout 0. A failed `RT_ASSERT` (the build defines
`RT_DEBUG`) is `while (dummy == 0);`: the caller stays there; in
`rt_ipc_list_resume_all` this happens with interrupts disabled and stops the
system (`Frozen`), in `rt_object_init` with the scheduler locked (`frozen` in
the services). In the service modules an action is what a thread does between two
points where another thread can make a difference: blocking calls, mails, reads
and writes of shared variables.

`JsonService` and `ScheduleFetch` use the mailbox at the level of `Channel`,
which is sound because `MailboxIsChannel` is proved for `Mailbox`; what `Channel`
does not speak of, the assertion on a detached mailbox, is written out.
`EspParser` keeps the bytes themselves: the comparisons look behind `rx_length`, and
what they find there decides. Names are shortened (the byte that tells `getUserNum`
from a listing is the fourth instead of the eighth), and the window that copies to
`app_buffer` is the whole assignment of the code. In `JsonService` the increment of
`user_num` is a read and a write in each of the two threads; they have the same
priority, so that a thread that lost the processor in between runs again before the
other one has slept twice (`MayRun`).

In `KernelSync` the initial state chooses the object, so that one run looks at all of
them with the same threads. `ledger`, `holds`, `credit`, `owners` are histories the
properties compare the object's own fields with. The heap counts addresses and sizes
in units of `RT_ALIGN_SIZE` (8); a header is never moved, so that an address is the
identity of a block. In `Timer` thread timers are started and stopped in one locked
section, as `rt_thread_sleep` and `rt_thread_resume` do; a driver timer has a client that is
interrupted between any two sections, and a callback that may start or stop it.
`left[t]` counts the ticks to the deadline without wrap-around and is what the order
of the list is compared with.

In `MessageQueue` a list is what its head pointer and the slots' next pointers make it:
`Follows(q, p)` says that the sequence `q` is the one that begins at `p`, `Linked(p)` is
that sequence. `Messages`, `Filling`, `Holds` and `Doing` say what an observer of
`MsgChannel` sees: the messages on the list in order, the threads that copy into or out
of a slot, and the call each thread is in, with the message it was given. Because the
abstract call has its operation, a plain send linked at the head does not refine
`MsgChannel` (the mutant `SendLinkAtHead`).

In `ScheduleFetch` the parser's `user_num` is the byte of the code and nothing holds it
below the ten entries of `user_date_t`. What a write past the table hits is read from
`rtthread.map`: behind `user_date_t` lies the frame buffer, which is not modelled, and
behind `user_date_len` lies `user_date_t`, so that the length of a field of the eleventh
user or a later one spoils a field of the first user or its id or password
(`TableAfter`). A read asks for 1024 bytes at most, which hold 204 cells (`BufCells`):
the lengths stay inside the first record, and `user_num` does not reach 256.

In `OpenMv` the expiry of the receive timeout and the thread's return from `rt_mq_recv`
are two steps: a notification that comes in between is queued, and the mirror is darkened
all the same. `unanswered` and `forgotten` are histories of the faces the phone was not
told of.

`UartReceiver` uses `rx_mq` at the level of `MsgChannel`; `RxQueue` shows what
becomes of the real one, whose pool is a local variable.

## 3. Runs

Passing runs:

| run | bounds | shows |
|---|---|---|
| `mailbox` | 3 threads, 2 mails, 2 places, timeouts 0, 1 and forever | types, exact waiting lists, no lost wakeup, final wakeups, refinement of `Channel` |
| `mailbox_live` | 3 threads, 1 mail, 1 place | a mail or a free place does not stay beside a sleeper; a detach wakes the threads it finds waiting |
| `message_queue` | 3 threads, 2 messages and an oversized one, 2 slots | no slot leaked or shared, list and count agree, no lost wakeup, refinement of `MsgChannel`: sends in order, urgent messages first |
| `uart_receiver` | ring of 4, 2 byte values, 2 slots, reads of 2, bursts of 2 | `is_full` is exact, no stranded bytes without a lost notification, refinement of `ByteStream`, waiting bytes are read |
| `json_service` | 2 texts (one without its end), 2 commands or texts of the phone in any division into batches, buffers of 8, a mailbox of 3, 2 starts | a text is collected whole and terminated, overrun only when too long; listings stay in order and in the table; nothing is counted uncalled for; one consumer, which never uses a detached mailbox; the first text is stored; every scan ends |
| `schedule_fetch` | a table of 2 users, reads of at most 11 cells; pages of 2 and 6 cells in every division into reads, pages of 7, 11 (one more than the table) and 12 cells (one more than a read) in reads of 5 or more; chunked or not, empty cells, failing requests and reads, 2 commands, 2 fetch threads | every read is filed field by field, user by user, from the first; the parser leaves the table only on a page that is too long, and spoils the first user only; the buffer is not overrun; a detached mailbox has no consumer; `over` ends the service; every fetch ends |
| `openmv` | 2 user codes, batches of up to 2 reports, 1 pending, 1 screen slot, 2 commands | the phone is told of no more faces than were seen; a face is kept until it is told or falls between an answer and its clearing; a report lights the mirror, also one that comes when the timeout has expired |
| `kernel_sync` | 3 threads of 2 priorities, one object of each class in FIFO and PRIO order (event and heap: FIFO), semaphore of at most 2, 2 nested takes, 2 events, 2 sends, a heap of 10 units with 2 users | exact and sorted waiting lists; tokens, ownership and events accounted for; no inversion with PRIO, priorities given back; timed calls return; the heap is tiled, joined, exclusive, its statistics exact, and `rt_malloc` fails only when it must |
| `timer` | 2 thread timers, 1 driver timer, 12 tick values, times 1, 3 and 5, starts delayed by at most 1 tick | deadline order over wrap-around, punctual and single calls, order of insertion for equal deadlines, a stopped timer stays out, the activated flag, sleepers wake |

The invariants of a module are conjunctions of named parts, which the mutants break
one by one:

| invariant | parts |
|---|---|
| `QueueInv` | `TypeOK`, `SuspendedExactlyOnce`, `SlotsPartitioned`, `ListIsConsistent` |
| `ReceiverInv` | `TypeOK`, `FullFlagIsExact` |
| `ChainInv`, `TextInv` | `TypeOK`, `OneConsumer`, `ConsumerNeverAsserts`; `TextIsWhole`, `TextIsTerminated`, `OverrunOnlyByLength` |
| `ServiceInv` | `TypeOK`, `DetachedMeansDone`, `InBuffer`, `FieldPerCell`, `SpoiltByOverrun` |
| `CameraInv` | `CameraTypeOK`, `ToldOnlyOfFaces` |
| `WaitInv` | `TypeOK`, `ListIsExact`, `ListIsSorted` |
| `SemInv`, `PriorityInv`, `EventInv` | `TokensConserved`, `NoWaiterAtToken`; `NoInversion`, `PriorityIsRestored`; `NoSatisfiedSleeper`, `TakenOnce`, `GivenAsAsked` |
| `HeapInv`, `HeapPromise` | `HeapIsExclusive`, `BlocksTile`, `UsedAreOwned`, `FreeIsJoined`, `StatsAreExact`; `OthersUntouched`, `RefusedOnlyIfFull` |
| `TimerInv`, `CallsInOrder` | `TypeOK`, `InDeadlineOrder`, `ActivatedIsListed`, `OncePerTick`; `FiresOnTime`, `EarlyInsertedFirst` |

Runs that are expected to find a violation, each of something the repository
states:

| run | property | what happens |
|---|---|---|
| `mailbox_detach_race` | `ResumesOnlyThreads` | `rt_ipc_list_resume_all` tests the list with interrupts enabled; if the last waiter leaves before the locked section, the list head is taken for a thread and `rt_thread_resume` asserts |
| `json_sender_asserts` | `SenderNeverAsserts` | `over` follows every text and makes the next json thread detach `json_mb`; the next text asserts in `rt_mb_send` |
| `rx_queue_pool` | `StaysInPool` | the pool of `rx_mq` is the variable messages are received into: the free list leaves the pool |

The quoted lines are under "findings".

The following is what the code does and no document of the repository contradicts in
so many words; the properties leave room for it, and a reader of the code should know
of it:

- a receiver that arrives behind the first resume loop of `rt_mb_detach` sleeps on
  (`DetachWakesWaiters` speaks of those found waiting);
- `app_buffer` may be refilled before the json thread has parsed it, so that a later
  text is stored; every JSON account goes to `user_date_t[0]` while `user_num` counts it;
  a text whose last batch has one byte is not followed by a NUL, and a text too long
  for `app_buffer` is written behind it;
- a listing moves `i` by one per user: commands in the same batch are passed over, and
  behind the end of the batch old bytes are looked at again (`CountsOnlyAsked` excepts
  that case); one of two concurrent counts may be lost; `user_num` is not held below
  the size of the table;
- the page parser's counters start anew in every read, so that a page in two reads is
  filed over the first user (`ReadIsFiled` says so of every read); a page with more than
  fifty cells in a read is written behind `user_date_t` and behind `user_date_len`, which
  spoils the first user and the frame buffer; and `over`
  is mailed after every read: thread1 detaches `mb` on the first one, and thread2 then
  stays in the assertion of `rt_mb_send`, as in `json_sender_asserts`;
- a semaphore released at 65535 wraps to 0; a FIFO mutex may be handed to a thread of
  lower priority than the next waiting one; two nested mutexes that are not released
  in reverse order restore a lent priority (one mutex is modelled);
- a one-shot timer that its callback starts again is listed without
  `RT_TIMER_FLAG_ACTIVATED`, so that `rt_timer_stop` refuses it; one that expires while
  `rt_timer_control` rewrites its flags is left activated and unlisted; a periodic timer
  of 0 ticks would keep `rt_timer_check` for ever (times are positive here); a time near
  `RT_TICK_MAX/2` with a delayed start leaves the half range (`DelayAssumption` excludes it);
- `rt_malloc` does not give the last block of the heap when it fits exactly.

**Why the bounds are enough for the cases.** Three threads are the fewest in which one
is resumed, a second takes what it was resumed for, and a third acts on both; they also
hold a detacher beside a sender and a receiver. Two places distinguish full, empty and
in between, and let the offsets wrap in any position. Timeouts 0, 1 and forever are the
three cases of the code; the remaining ticks are any smaller number. A ring of four
holds three bytes, so that it overflows within two bursts, with the reader at any place.
Six cells reach the second user, eleven pass a table of two, twelve need a second read. Two fetch threads are what two commands can make. Two
batches in a buffer larger than a command put old bytes behind new ones, cut commands
and texts anywhere, and fill `app_buffer`. Two priorities are enough to lend one and to
wait in front of an earlier thread, a third thread to time out meanwhile. A heap of ten
units holds three blocks of the least size, so that a free one lies between two used
ones and is joined on either side, and the sizes asked for are split, cut, moved and
refused. Twelve tick values let the count wrap between any two deadlines; half of the
range is 5, a time the assertion refuses. `MaxStarts`, `MaxFaces`, `MaxPending`,
`MaxBatch`, `MinRead`, `MaxTimeout`, `MaxItems`, `LineMax`, `MaxHold` and `MaxSends` only stop the
environment. Threads (and mails) are symmetric in the safety runs of mailbox and queue;
there is no symmetry in the runs with liveness.

`CHECK_DEADLOCK FALSE` stands where the system may stop: everybody asleep on a
mailbox nobody sends to, a thread in an assertion, a service that has ended. The
receiver of `UartReceiver` never stops and is checked for deadlock.

**Fairness** is weak fairness only. A ready thread is run in the end: the
scheduler is preemptive with time slices, and every thread of the application
blocks or sleeps in each round. The tick interrupt fires, so timeouts expire. An
interrupt handler that has begun ends. A read of the web client ends, by its
receive timeout. Nothing is assumed of the phone, the camera, the UART, the shell
or of threads that may make a call. `BytesAreRead` speaks of the time after the
last interrupt, since a UART that never stops may starve the thread. In `Timer` the
tick comes and its handler goes on; in `KernelSync` a thread that is ready inside a
call runs and a started timer expires, and nobody has to call.

## 4. Proofs

Each proof module extends the module it is about. A theorem holds for every value of
the constants that satisfies the named assumptions of that module; the assumptions
that are more than "is a natural number" are given below. The arguments are
inductions over the steps: an invariant that holds initially and is kept by every
action, one lemma per action, and the property as a consequence. All refinements are
step simulations under the mapping of the module.

| module | theorem | states |
|---|---|---|
| `MailboxProofs` | `TypeCorrect`, `Invariance` | `TypeOK`, the inductive `IInv` |
| | `ListsAreExact` | `SuspendedExactlyOnce` |
| | `WakeupsAreNotLost`, `WakeupsAreFinal` | `NoLostWakeup`, `WakeupIsFinal` |
| | `MailboxIsChannel` | `IsChannel`, the refinement of `Channel` |
| `MessageQueueProofs` | `QueueInvariance` | the inductive `QInv` |
| | `QueueIsInOrder`, `QueueWakeups` | `QueueInv`, `NoLostWakeup` |
| | `QueueIsChannel` | `IsMsgChannel`, the refinement of `MsgChannel`: plain sends in order, urgent ones in front |
| `UartReceiverProofs` | `RingIsInOrder`, `NoStrandedByte` | `ReceiverInv`, `StrandedOnlyAfterLoss` |
| | `ReceiverIsByteStream` | `IsByteStream`, the refinement of `ByteStream` |
| | `CameraIsSound`, `FacesAreKept` | `CameraInv`, `FaceIsKept` of `OpenMv` |
| `KernelSyncProofs` | `SyncInvariance` | the inductive `SyncInv` |
| | `TokensAreConserved` | `SemInv` |
| | `MutexHasOneOwner`, `NoPriorityInversion` | `OwnerIsExact`, `PriorityInv` |
| | `EventsReachTheirThreads` | `EventInv` |
| `HeapProofs` | `HeapInvariance` | the inductive `SyncInv /\ HeapCore` |
| | `HeapIsSound`, `HeapKeepsItsPromise` | `HeapInv`, `HeapPromise` |
| | `ListsAreExact` | `WaitInv` |
| `ScheduleFetchProofs` | `FetchIsSound`, `ReadsAreFiled` | `ServiceInv`, `ReadIsFiled` |
| `JsonServiceProofs` | `OneJsonThread` | `ChainInv` |
| | `TextIsCollected`, `ListingsAreOrdered`, `NothingCountedUnasked` | `TextInv`, `ListingIsOrdered`, `CountsOnlyAsked` |
| `TimerProofs` | `TimersKeepTInv` | the inductive `TInv` |
| | `TimersAreSound`, `StoppedTimersAreOut` | `TimerInv`, `StoppedIsOut` |
| | `TimersAreCalledInOrder` | `CallsInOrder` |

What mailbox and queue need of waiting lists and of counting threads stands at the head
of both of their modules.

**Mailbox** (`ThreadAssumption`: finitely many threads; `SizeAssumption`: `mb->size` is
not 0).

    IInv == TypeOK /\ SuspendedExactlyOnce /\ NoLostWakeup /\ RingInv /\ CallInv

`NoLostWakeup` is not inductive alone. A resumption takes the head of a list for
a sleeping thread, and a timeout takes a thread from the middle: without
`SuspendedExactlyOnce` neither would change the set of ready threads by exactly
one, and a thread could be counted twice. A ready thread that takes a mail must
have been counted, which is why `CallInv` says that a sleeper carries no error
code. `RingInv` ties the input offset to the output offset and the count; the
refinement needs it, because the mail stored at the input offset must be the last
of `Contents`. `CallInv` also ties `pc` to `result`, so that the abstract channel
sees a call as pending exactly while it runs. `IInv` is proved for `Step`; the
specification's `Next` adds that a frozen system takes no step (`NextIsStep`).

**Message queue** (`SlotAssumption`: at least one slot). The state holds two linked
lists as head pointers and a function `next`. The invariant says that the lists exist:

    QInv == \E fr, q : Waits /\ Layout(fr, q) /\ Awake(Len(q), Len(fr))

`Layout(fr, q)` says that `fr` and `q` are the sequences of slots reached from
`msg_queue_free` and `msg_queue_head`, that `msg_queue_tail` and `entry` agree with `q`,
and that every slot is on one of them or belongs to exactly one thread that copies
into it or out of it; `Held` adds that the lengths and the number of copying threads
make up `max_msgs`. This is what makes the copy with interrupts enabled harmless, and
what `-RT_EFULL` means while somebody copies. `Waits` is what mailbox and queue share,
`Awake` is `NoLostWakeup` in terms of the two lists. That the sequence below a pointer is
unique (`Linked` chooses it) is proved from `IsList`; with it `Messages` of the refinement
mapping is the data of `q` in order. A put in front, a put behind, a removal of the
first slot, and the reset that gives a whole list back to the free one are
lemmas about `IsList`.

**Serial receiver** (`bufsz` at least 2; `Burst <= ReadMax`: one interrupt finds no more
than one read takes). `ReceiverInv` is inductive. `StrandedOnlyAfterLoss` is not: that
there is a notification does not say that it is large enough. `Covered` says that what
is stored is at most what the notification in the thread's hands, the queued ones and
the running handler allow to be read. The sum over the queue is a function `c` of
partial sums that the invariant says to exist, each step giving the next one. The
refinement reads the ring from `get_index`; a put into a full ring is the abstract
`Put` that drops the oldest byte.

**Camera service.** The proof stands at the end of `UartReceiverProofs`, which extends
`OpenMv` too; that is why the specification of `OpenMv` is called `CameraSpec`. The
strengthening of `ToldOnlyOfFaces` is `FaceIsOwed`: while the flag is set and the phone
idle, or an answer is begun, one more face was seen than told. A face seen between the
answer and the clearing of the flag is forgotten, which is why nothing is owed then.
`FaceIsKept` needs `AnswerPays`: until the flag is cleared the answer has cost no face.

**Semaphore, mutex, event** (any priorities, any finite set of events).

    SyncInv == WaitCore /\ ListIsSorted /\ SemCore /\ MutexCore /\ EventCore

`WaitCore` has the exact waiting list and that a suspended thread's error is `EOK`, so
that the hand-over is seen by exactly the thread it was made to. `MutexCore` adds that
the owner does not wait and that `original_priority` is the owner's own, without which a
hand-over could restore somebody else's priority; with it `NoInversion` follows from the
order of the list for the thread at its head. `ListIsSorted` is kept because the priority
of a *waiting* thread never changes (one mutex is modelled). `EventCore` adds that a
waiting thread asked for some event.

**Heap** (`MemSize > MinSize`; any request sizes).

    HeapCore == HeapShape /\ Counted /\ JobInv /\ LockInv

`HeapShape` says that the headers are a chain of increasing addresses, linked both ways,
that free blocks are joined, and where `lfree` is; `LockInv` that a user inside the heap
holds the one token of `heap_sem`; `JobInv` that two calls are never about the same
block, which `rt_realloc` needs because it gives the semaphore back between its steps.
`Counted` compares `used_mem` with a sum over the used blocks. That this sum exists, and
changes by one block's size when a block is added or removed, is proved without
induction over sets, by the smallest counterexample.

**Schedule fetch** (pages are non-empty sequences of any length; the table has an entry;
`TableAssumption`: a read holds at most 204 cells; `SpoiltAssumption`: a spoilt field is
not mistaken for a cell). `FieldPerCell` is the core: a field is filed for every cell at
most, whatever a second thread does to the shared `bytes_read`. So `user_num` stays below
41 and its increment does not wrap, and when it is past the table the read, and the page,
has more than `5 * Entries` cells, which is what `SpoiltByOverrun` needs. `ReadIsFiled`
needs `FilingCore`: with one command one thread fetches (`OneFetch`), and `user_num` and
`j` count the cells before `index` that are not empty (`Place`, a cardinality); a later
cell has a later place (`PlaceSteps`), so that it leaves the filed ones alone, and one
past the table spoils only what the property excepts (`FiledStays`).

**JSON service** (a text is a sequence that begins with `{"`; `json_mb` holds two mails
at least, it has 64 places in the code). The invariant has a part for each question:
`Types`, `Chain`, `Collected`, `Mails`, `Counts`, `Listing`, `Asked`, explained at the
head of `JsonServiceProofs`. `Mails` says that before the first `over` there is one text
at most, in the mailbox or in the json thread; because of that `user_num` grows under a
listing or a count of the esp32 thread by one at most, which `Counts` and `Listing` rest
on. `Collected` says that while a text is collected the rest of the text is the rest of
the batch, which is where the division into batches drops out. `Asked` counts what is
still in the line, in the batch and in the two counting threads, as cardinalities of
sets of positions, so that cutting a line into batches neither loses nor makes an `add`
(`AddsIn`).

**Timers** (any number of ticks above 2, any times from 1 to `TickMax`; `DelayAssumption`).

    TInv == TypeOK /\ Ordered(timer_list, left) /\ \A t \in Timer : One(t)

`One(t)` is what holds of one timer, so that a step of one client is shown not to
disturb the others once (`Others`), and each action is left with its own timer. `Clocked`
says that a timer that is listed, or whose client is between `StartTime` and
`StartInsert`, has the deadline `tick + left` wrapped around once. `Delayed` bounds `left`
from below, by the ticks the start was delayed. With both, two deadlines that
are compared are less than `Half` apart, and the comparison modulo `TickMod` is that of
the ticks left (`LaterIs`, `DueIs`); from this the search of `rt_timer_start` puts the
timer behind all that are not later (`InsertedIs`), which is both the order of the list
and the order of insertion in `CallsInOrder`. `Called` says that a timer called in this
tick is not due again, without which a second call would not be excluded; `Unlinked`
and `Stops` say where a client can be while its timer is off the list.

`DelayAssumption` says that a time that passes the assertion, less any other, plus
`MaxDelay` is below `Half`. It is needed: with 12 tick values, times 1 and 4 and a delay of
2 TLC finds a list out of order, since a start delayed by 2 ticks is compared with a
deadline 5 ticks away. In the firmware `Half` is 2^31 ticks and the times are far from it.

**Only model-checked:**

- every liveness property (`MailReachesReceiver`, `BytesAreRead`, `FirstTextIsStored`,
  `OverEndsService`, `ReportLights`, `TimedCallReturns`, `SleeperWakes` and the others):
  fairness is out of the prover's reach;
- the runs that find violations, `RxQueue` among them: a counterexample needs no proof.

## 5. Not modelled, and abstractions

- Priority-ordered waiting lists of mailboxes and queues: every one of the application
  is FIFO (`WaitList` has both orders). Dynamic creation (`rt_*_create`, `rt_*_delete`) is
  init and detach with heap memory.
- Signals: `RT_USING_SIGNALS` is defined, but nothing in the application sends one; a wait
  is not interrupted with `-RT_EINTR`.
- Ready queues and time slices: any ready thread may run. This allows more interleavings
  than the scheduler; the one place that needs priorities is `MayRun` of `JsonService`.
  `IpcObject` and `WaitList` let any running timer expire.
- Soft timers (`RT_USING_TIMER_SOFT` is not defined) and timer skip lists of more than one
  level (`RT_TIMER_SKIP_LIST_LEVEL` is 1). A thread timer of half the tick range or more
  stops the system in the assertion of `rt_timer_start` and is left out.
- `max_mem`, the magic word and traces of the heap; `rt_calloc` is `rt_malloc`, and the
  product of its arguments is not modelled. Freeing a block twice or a foreign address
  is not a call the model makes. Memory pools and `memheap.c` are not used by the
  application.
- Transmission, DMA, polling, close and control of the serial driver.
- The fields inside a JSON text: jsmn is a predicate on the bytes, external. A page's
  cell is a value, an empty cell or a cut one, without a length.
- The command `State` (it answers with constant texts) and what is written to the phone.
- The GUI, PWM registers, printing.

## 6. Plan

Done: all modules of section 2, and the proofs of section 4.

Next, in this order:

1. Ready queues: priority group, time slices, and fairness of threads of one priority.
2. Close and control of the serial device; the web client's session.
