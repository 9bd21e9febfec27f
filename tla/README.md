# A verification project for hikmqtt

hikmqtt logs in to a set of Hikvision cameras and recorders with the vendor's
SDK, publishes the alarms they raise to an MQTT broker, and executes commands it
receives from the broker on them.  This directory holds TLA+ models of its code
(`../src/src/main.cpp`, `../src/src/hik.cpp` and the lock-free queue in
`../src/concurrentqueue/`), the TLC runs that check them on small instances, and
theorems about them that the TLA+ proof system checks.

Contents: [the system](#the-system) · [modules](#the-modules-and-the-code) ·
[runs](#the-runs) · [fairness](#fairness) · [proofs](#what-is-proved) ·
[what the code does not do](#where-the-code-and-its-documentation-differ) ·
[left out](#what-is-not-modelled) · [plan](#plan)

## The system

### Components

| component | state | operations | what makes it correct |
|---|---|---|---|
| main program (`main.cpp`: `main`, `run`, `signalHandler`) | `hm`, `hikc`, `m_loop`, `alert` | read the configuration, connect, start the loop thread, create the client, add the devices, then for ever take a message and publish it | messages are published in order; nothing but a signal ends it once it runs; a signal does end it, and cleanly |
| `hik_client` (`hik.cpp`) | `lDevices` (id, user id, alarm handle, preset cache of each registered device), the SDK's sessions and alarm channels | constructor, `add_source`, `proc_callback_message`, the device commands, destructor | no session is leaked; every registered device is armed under its own user id; an alarm carries the id of the device that raised it |
| message queue (`moodycamel::BlockingConcurrentQueue`) | a sub-queue per producer thread, the list of producers, a counting semaphore | `enqueue` from any thread, `wait_dequeue` on the main thread | each message comes out once, in its producer's order; the consumer does not sleep on a message |
| command dispatch (`process_mqtt_cmd`, `lookup_command`, `str_cmp`) | `command_list`, the indices of the search | look a command up, invoke its method | every command of the table is found and nothing else |
| device commands (`hik.cpp`, the methods behind `command_list`) | the preset cache in `lDevices` | PTZ, presets, recording, reboot, device info | a command reaches the device it names; a reply tells what was asked |
| MQTT session (libmosquitto) | the connection, the subscription, the loop thread | connect, subscribe, publish, reconnect | while connected the program listens for commands |
| configuration (`get_configFile`, `load_config`, `read_config`) | `cfg`, `devices` | find, read and filter | every device that is configured is added |
| service unit (`hikmqtt.service`) | – | `Restart=always` | the program comes back |
| HCNetSDK (vendor binaries; its header holds declarations only) | sessions, alarm channels, callback threads | login, arm, logout, callbacks | external |

### How they interact

```
 SDK threads ---- MessageCallback_V31 ---+                       +--> broker
   (read lDevices)                       v                       |
                                      msgQueue --wait_dequeue--> main thread
                                         ^                       |  (append to lDevices,
 loop thread ---- process_mqtt_cmd ------+                       |   publish; signal handler:
   (read lDevices, call the SDK)   <---- commands from the broker    delete hm, exit)
```

Four things are shared between the threads: the list `lDevices`, which the main
thread appends to while the two other kinds of thread search it, without a lock;
the pointer `hikc`, which the loop thread uses and the main thread sets after it
has started that thread; the queue; and the heap, which the signal handler
enters from whatever the main thread was doing.

### What is hard about it

- *Interleaving*: an alarm comes in while its device is being registered; a
  command runs while the client is created or destroyed; producers store, count
  and wake while the consumer decides to sleep.
- *Partial failure*: a device that cannot be logged in to, or is logged in to
  but refuses its alarm channel; a connection to the broker that fails first and
  comes back later; an allocation that fails in `enqueue`.
- *Crash and restart*: a signal at any moment, a second one in its handler, a
  process ended by a fault, and systemd starting it again.
- *Ordering*: the loop thread starts before the client exists; a device is armed
  before it is in the list; the subscription precedes every reconnection.
- *Memory reuse*: a thread may read the next pointer of a block on the free list
  while others take that block, use it and give it back.
- *Limits*: the scan of the queue looks at three producers; a hash table and a
  ring of blocks fill up and are replaced while others are in them; indices wrap
  around; the search of the command table goes one past either end.

`PROJECT.json` lists these one by one under "hazards", each at its line with the
properties that cover it.

## The modules and the code

| module | models | abstract or detailed |
|---|---|---|
| `HikClient` | sessions, registrations, callbacks and destructor of `hik_client` | detailed |
| `MessageQueue` | what the program relies on from its queue | abstract |
| `BlockingQueue` | the queue's lock-free algorithm as it is used here | detailed; implements `MessageQueue` |
| `ProducerTable` | the queue's hash table from threads to sub-queues | detailed; below `GetProducer` of `BlockingQueue` |
| `ImplicitProducer` | the blocks, block index and block pool of the sub-queues | detailed; below `Store` and `Take`; implements `MessageQueue` |
| `BlockPool` | what producers and consumer rely on from the list of emptied blocks | abstract |
| `FreeList` | that lock-free list | detailed; below the set `ImplicitProducer` has for it; implements `BlockPool` |
| `Bridge` | the whole program, from the groups of the configuration file on: `main`, `run`, the loop thread, the signal handler | composes `HikClient` and `MessageQueue` |
| `CommandTable` | `lookup_command` over any table and any order | detailed |
| `DeviceControl` | the device commands, the preset cache, movements, replies | detailed |
| `HikClientProofs`, `BlockingQueueProofs`, `ProducerTableProofs`, `ImplicitProducerProofs`, `FreeListProofs`, `BridgeProofs`, `CommandTableProofs`, `DeviceControlProofs` | theorems | |
| `MCHikClient`, `MCBlockingQueue`, `MCProducerTable`, `MCImplicitProducer`, `MCFreeList`, `MCBridge`, `MCCommandTable`, `MCDeviceControl` | instances for TLC | |

### HikClient

A camera is its position in the configuration.  `owner` and `armed` are the
SDK's: the camera a user id is logged in to, and whether its alarm channel is set
up.  `lDevices` is the list; an entry also remembers its camera (`cam`), which
the code does not keep and only the properties read.  `it` is the iterator of
`run()` and `src` the next statement of `add_source`; `callback[t]` is the
callback SDK thread `t` is in; `client` and `logoutAt` follow the destructor.

`LoginOk` … `Register` are the statements of `add_source` that another thread
can tell apart; `Raise`, `Lookup`, `Report` those of `MessageCallback_V31` and
the handler it dispatches to.  Events are of two kinds, the rule alarm that is
reported and the ones that are looked up only to be printed.  `Destroy`,
`LogoutDevice`, `Cleanup` are the destructor.  `Restart` ends the process at any
moment and starts it again.  `std::list::push_back` is one step: the data race
between it and a search is taken to show the list before or after it.  A read
through a null or a freed pointer is recorded in `fault`, and the model follows
the process no further.

POSIX lets any thread take the signal, so that here the destructor runs beside
the main thread; `Bridge` restricts it to what Linux does.

### MessageQueue and BlockingQueue

`MessageQueue` has a sequence per producer and promises no order between them.
`BlockingQueue` has one step per atomic operation of the code on a word that
another thread uses: adding the implicit producer, the store to `tailIndex`,
`fetch_add` on `m_count`, `sem_post`; on the consumer's side `tryWait` and the
spinning loop, `fetch_sub`, `sem_wait`, one step per producer `try_dequeue`
looks at, and taking the message.  `m_count` and `m_sema` are the two halves of
`LightweightSemaphore`.  The k-th message of producer p is the pair `<<p, k>>`,
so that the blocks messages are stored in need no representation here.
`ScanLimit` is the 3 of `try_dequeue`, the number of producers with messages
after which it chooses.  An `enqueue`
that fails for want of memory does so at a block boundary (`StoreFails`); one
that fails for want of a producer changes nothing.  Operations are taken in one
global order: the code's acquire and release annotations are not questioned.

### ProducerTable

`get_or_add_implicit_producer`, which `BlockingQueue` takes for one step.
`tables` is the list of hash tables, `implicitProducerHash` its last member;
`pc[t]` is the statement thread t is at, `mainHash[t]` the table it took for the
front one, `newCount[t]` what it counted to.  Keys are never removed, and a
thread's own key is put there by itself only, so that a search and a probing
loop are one step each: what they are after does not change meanwhile.  A
probing loop needs a free slot to end at all, which is `RoomLeft`.  Each of the
two allocations may fail (`GrowFails`, `CreateFails`).  The capacities are
powers of two up to 2^16, enough for less than 2^15 threads
(`BoundAssumption`).

### ImplicitProducer

`enqueue` and `dequeue` of a sub-queue, on the words the two threads share.
`headers[p]` are the block indices of a producer, each a ring of entries with
its capacity and its tail, the last one `blockIndex`; `entries[p]` what they
point to; `contents` and `elementsCompletelyDequeued` the blocks.  `enq[p]` and
`deq` are the statements the two sides are at: a producer stores the key of an
entry, then the tail of the ring, then finds a block, then stores the message
and publishes it by `tailIndex`; the consumer claims an index, loads which ring
there is, its tail, and the key there, and counts blocks from it.  Indices are
words modulo `IndexRange`, and so the number of messages is bounded by the
memory only.  An entry that no block was ever stored to holds `Garbage`, as its
atomic does.  What the two words a failed `enqueue` puts back hold in between
nobody reads, so that they are one step.

The free list is a set here, `freeList`, of which any member may come out.  It
does not have to: a producer that finds another one at the same statements may go
away without a block although there are some (`NoneFree`), as `BlockPool` allows
and the code does.

### FreeList

A stack, with one step per atomic operation, and one, `Call`, for the beginning
of `try_get`.  `freeListRefs` of a block holds a
count and, in its highest bit, the mark that the block should be on the list;
the list itself counts for one.  `try_get` is `Call` to `Drop`: a thread
counts itself in, only then reads the block's next pointer, and swaps the head;
if that fails it drops its reference, and links the block in if it was the last
one to leave a marked block.  `Add` marks a block; `LoadTop` to `Defer` are
`add_knowing_refcount_is_zero`, in the hands of whoever found the count at zero.
`node` and `top` are the locals of the inner call, `head`, `refs`, `next` those
of `try_get`, which goes on afterwards (`Resume`).  Producers take blocks and the
consumer alone gives them back, as in this program.  The atomic operations are
taken in one global order.

`BlockPool` has a set of blocks that cannot be had, and the calls in progress.  A
block it takes is any of the others.  A call may end without one only if at some
moment since it began there was none or another call was in progress: `met`, a
history variable of both modules, holds the calls of which that is true.  In
`FreeList` a block can be had from the end of `add` on, be it on the list or
marked and in the hands of the last thread that refers to it (`NotToBeHad`).

### Bridge

`DeviceSettings` are the groups of the file; `Devices`, what `read_config` makes
of them: a group whose id is not an integer, or that lacks one of its other
settings, is skipped (`LookedUp`).  `pc` is the main thread's place in `main()` and `run()`, `handler` that of the
signal handler on top of it.  Each step that concerns the client is a step of
`HikClient` (`HC!...`), each on the queue one of `MessageQueue` (`MQ!...`).
`cmd` is the command the loop thread executes: read by `Receive`, looked up by
`Dispatch`, handed to the SDK by `Operate`, answered by `Reply`.  Commands come
in two kinds, by what they pass to the SDK as the user id.  `link` and
`subscribed` are the broker's view of the connection.  `inMalloc` says that the
main thread holds the lock of the heap (`LockHeap`), which it may in every one of
its statements but `wait_dequeue`, the only one that neither allocates nor frees;
it gives the lock back when the statement is through.  The handler needs that lock
wherever it frees something: the settings and `hm` itself, the list, and the
queue's blocks, which `exit()` destroys.  `crash` is for `Bridge`'s own undefined
behaviour what `fault` is for `HikClient`'s.

### CommandTable

One step per comparison of the binary search.  The table and the comparison are
parameters, with assumptions: the comparison is an order, the table is sorted by
it.  `MCCommandTable` gives them the fourteen names and `str_cmp` of the code,
and TLC evaluates the assumptions on them, which settles the caveat at
`main.cpp:27` ("Needs to be in alphabetical order!").  `str_cmp` takes the NUL at
the end of a string for a space, and reads on behind it when the other string has
a space there, with whatever result; `main.cpp:232` promises no more than that it
compares alphabetic characters reliably.  `ReadsWithinStrings`, an assumption TLC
evaluates too, says that the requests of the run are none of those.

### DeviceControl

The loop thread executes one command at a time: `Receive` is the method of
`hikmqtt` with its lookup of the device, then comes the method of `hik_client`,
one action per outcome of its SDK call, then `Reply`, the `enqueue`.  A movement
has a step in between, the half second `cmd.at = "sleep"`.  `lDevices` has of
each entry its camera and `struParams`, the preset cache, which `add_source`
fills with zeros.  An update that fails leaves anything in it, since the SDK was
given the cache itself to write to.  `presets` and `moving` are the cameras' own.
That a call was answered with a failure does not mean that the camera did not
carry it out: it may begin to pan while the program waits for the answer
(`CameraPans`), and change a preset at any time (`CameraChange`).  `synced` and
`abandoned` are history: the entries whose last update succeeded and whose camera
has changed no preset since, and the channels left panning by a start or a stop
that was answered with a failure or by the end of the process.  A list of presets is
abstracted to their names: position and number of a camera's preset agree, as
the code takes for granted, and pan, tilt and zoom values are left out.  The
arguments of a command are those its method asks for; a command with others is
dropped and changes nothing.

## The runs

| run | instance | checks |
|---|---|---|
| `hik_client` | 3 cameras, 3 user ids, 2 SDK threads | `SessionsAccounted`, `RegisteredAreArmed`, `Attribution`, `NullDeviceOnlyWhileRegistering`, `LogoutLeavesInProgress`, `EveryDeviceGetsItsTurn` |
| `queue` | 3 producers with 2 messages each, blocks of 2, a scan limit of 2 | `SemaphoreAccounting`, `NoLostWakeup`, `ScanSucceeds`, `ImplementsQueue`, `ImplementsFairQueue` |
| `producer_table` | 3 threads whose ids collide, a table of 2 slots to begin with | `TypeOK`, `RoomLeft`, `CountAccounted`, `SameProducer`, `Served` |
| `implicit_producer` | 2 producers, 2 blocks of 2 messages, indices modulo 16 | `TypeOK`, `BlocksAccounted`, `EntryFound`, `ImplementsQueue` |
| `free_list` | 2 threads that take blocks and one that gives them back, 3 blocks | `HandedOutOnce`, `NoneLost`, `NextIsCurrent`, `ImplementsPool`, `LockFree` |
| `bridge` | 4 groups in the file, of which 2 are skipped, 3 device ids, an SDK thread with 2 messages, the loop thread with 1 | `TypeOK`, `AlarmsNameTheirCamera`, `NoFaultAfterStartup`, `FreedClientOnlyBeforeExit`, `LookedUpCommandReachesDevice`, `InOrder`, `BacklogMoves`, `SignalExits` |
| `command_table` | the 14 commands, 3 in capitals, 17 that do not exist | `Answered`, `Halved` |
| `device_control` | 2 cameras with 2 channels, 2 presets of each, 1 name, 2 changes of presets | `TypeOK`, `CacheCurrent`, `ShownAsAsked`, `MovementEnds`, `SearchAnswered` |
| `alerts`, `listens`, `reaches` | as `bridge`, with 1 message per thread | `AlertsAreBrokered`, `Listens`, `CommandReachesDevice`: a statement of the documentation each, which TLC refutes |
| `named_channel` | as `device_control` | `UpdatesNamedChannel`, likewise |

Why the bounds are enough:

- *Cameras and user ids.*  Three cameras give a first, a middle and a last entry
  of the list, so that a search that stops too early or too late is told from
  one that finds the right entry, and a failure can come before, between and
  after successes.  An id is used again after a refused device gave it back.
- *SDK threads.*  Two callbacks can be in flight at once, at different places.
  `Bridge` needs one beside the loop thread, its second producer.
- *Producers of the queue.*  `try_dequeue` stops after `ScanLimit` non-empty
  sub-queues, three in the code and two here: the third producer is the one it
  does not look at.  Two messages each and blocks of two let a producer be empty,
  partly and wholly read, and fail at a block boundary or not.
- *Threads of the table.*  Two slots are three quarters full with the first
  thread, four are half full with the second, so that the table grows to 4 slots
  and to 8 while the other threads are anywhere in the function.  Their
  hashes collide, two of them in every table, at its last slot, from where
  probing wraps.
- *Blocks and indices.*  Two blocks and a ring of two entries: the ring is full,
  and grows, when the consumer has not yet cleared the entry of the older block.
  One producer sends for ever, its indices wrapping at 16; the other one sends
  the two messages of one block (`OneBlock`), which is what it takes for a block
  to go from each producer to the other.  A queue as long as half the range of
  the indices, where `RoomAhead` refuses, would need a third block
  and several times as many states, and is not reached.
- *Blocks of the free list.*  Three blocks and three threads: the list can be
  empty, have one block or more; a thread can hold a reference to one block while
  a second is taken and a third is given back.  The count never exceeds 4, so
  that the mark is 8 here and 2^31 in the code.
- *Messages in Bridge.*  Two of an alarm thread: one can be in `run()`'s hands
  while the next waits, which an order violation needs.
- *Configuration.*  The two groups that are read have one that is skipped
  between them, for the type of its id, and one after them, which lacks a
  setting.
- *Presets.*  Two in the table tell its first entry from its last and a name
  found first from one found later; the numbers asked for go one beyond either
  end.  The second camera's start channel is its second, so that start channel
  and first channel differ.  Two changes are enough for two presets of one name,
  and for one that is set, cached and then deleted.
- *Restarts* are not bounded.

`CHECK_DEADLOCK FALSE` stands in `BlockingQueue.cfg`, where `MaxMessages` ends
the producers' work and the consumer then waits for ever, as it should, and in the
configurations of `Bridge`, where the handler may wait for ever for the lock its
own thread holds; `SignalExits` says that it waits for nothing else.
No run uses symmetry.

The type invariant of `HikClient` is part of that of `Bridge`; those of
`BlockingQueue` and `CommandTable` are proved and in no run.

Every property of a passing run has a mutant: a definition whose body is
replaced by a plausible mistake (`X_Something` beside `X`, each with a comment),
for which TLC finds the property violated.

What the passing runs show, in words:

- `hik_client`: however logins fail, channels are refused, alarms come in and a
  signal interrupts, the sessions the SDK holds are the registered devices' and
  at most the one `add_source` works on; no alarm is reported under a wrong id;
  and a null device can be met only by an alarm of the very device that is
  between arming and `push_back`.
- `queue`: the semaphore's count is the number of stored messages
  less those not yet signalled and the permit the consumer holds; a sleeping
  consumer has somebody on the way to wake it; and a consumer with a permit finds
  a message in a single scan, so that the loop around `try_dequeue` in
  `wait_dequeue` never turns.
- `producer_table`: a thread keeps one sub-queue through all growth and failed
  allocations, so that the order of its messages is that of one sub-queue; no
  probing loop runs in a full table; the count and the flag are always given
  back.  A thread that waits for others to grow the table is served in the end
  unless allocations keep failing.
- `implicit_producer`: the consumer finds the block of its index whatever the
  producer has done to the ring since it looked; no block is lost, shared or given
  back twice, whichever allocations fail; messages come out in order across the
  wrap of the indices.
- `free_list`: a block that `try_get` returns is unmarked (the assertion at
  `concurrentqueue.h:1472`), nobody else's, and what the thread read of its next
  pointer is the rest of the list, so that a block taken and given back meanwhile
  does no harm; no block is lost; `try_get` returns null only if at some moment
  there was no block or another thread was in it; and the threads do not keep
  each other from getting on.
- `bridge`: once the devices have been added and until a signal comes, nothing
  the devices, the broker or the commands do ends the process; messages come out
  one by one in each thread's order; a command that looks the user id up reaches
  the device it names.  A backlog of messages always shrinks, however many
  devices are yet to be added or fail; a signal ends the process unless it
  interrupted the main thread while that held the lock of the heap.  The other
  threads meet a client that was freed only between the end of the handler's
  clean-up and `exit()`.
- `device_control`: the cache of a device is the list of presets of its start
  channel from a successful update until a preset changes or an update fails,
  whatever other commands and registrations come in between (it is not that of the
  channel the command names: `named_channel`); numbers and names are searched from
  the first entry to the last; a start that was answered with success is followed
  by a stop for the same session and channel, so that a camera goes on panning only
  after a start or a stop that was answered with a failure, or after the end of
  the process between the two.

## Fairness

- `HikClient`: weak fairness of `add_source` while no destructor runs.  The main
  thread is scheduled, and the SDK's calls return because
  `NET_DVR_SetConnectTime` bounds them.  Nothing is assumed of the callbacks.
- `BlockingQueue`: weak fairness of the consumer, and of each producer that is
  inside `enqueue`.  All steps but `sem_wait` are non-blocking, and no producer
  has to begin another message.
- `ProducerTable`: weak fairness of each thread inside the function.  Whether
  allocations succeed is not assumed: `Served` has it as its premise that from
  some time on a larger table can be had.
- `FreeList`: weak fairness of each thread in the middle of a call.  `LockFree`
  says of all of them together that calls go on being completed; a single one may
  fail its compare-and-swap again and again, and nothing is claimed of it.
- `ImplicitProducer`: none; its properties are safety.
- `Bridge`: weak fairness of the main thread, in its own code or in the handler.
  Neither the SDK, the broker nor the loop thread is assumed to do anything.
- `CommandTable`: none; that every search ends follows from `Halved`.
- `DeviceControl`: none; its properties are safety.

## What is proved

TLAPS checks these for every value of the constants that satisfies the named
assumptions.

**HikClient** (`DevicesAssumption`, `UserIdsAssumption`; any configuration, any
number of SDK threads): `TypeOK`, `SessionsAccounted`, `RegisteredAreArmed`,
`Attribution`, `NullDeviceOnlyWhileRegistering`, `LogoutLeavesInProgress`.  The
properties are not inductive: that an alarm is attributed rightly depends on the
entry found having the user id the alarm came with, which depends on the id not
having changed hands since `Raise`, which in turn depends on nobody but the
destructor logging out a registered device.  The inductive invariant adds what
relates the events in flight, the sessions and the list to each other.

**BlockingQueue** (`ProducersAssumption`, `BoundsAssumption`; any finite set of
producers, any number of messages, any block size and scan limit): `TypeOK`, `SemaphoreAccounting`,
`NoLostWakeup`, `ScanSucceeds`, and `ImplementsQueue`, that every step is a step
of `MessageQueue` or a stutter under the mapping `Pending`.  The heart is the
counting argument.  A permit in the consumer's hands means, by
`SemaphoreAccounting`, at least one stored message; a producer with messages is
in the list; and since only the consumer takes messages, what it has walked past
as empty while it had seen nothing may fill but the message its permit stands
for stays ahead of it or was seen.  `IInv` is the conjunction of that with the
type invariant, the bounds of the indices and the membership in the list.

**CommandTable** (`TableAssumption`, `OrderAssumption`, `SortedAssumption`; any
table, any order): `TypeOK`, `Answered`, `Halved`.  The invariant adds
`Narrowed`, that no comparison drops the entry asked for.  From the
order, an entry equal to the command lies behind every entry less than it and
before every entry greater than it, so that neither half the search drops can
contain one.

**DeviceControl** (`DevicesAssumption`, `StartChanAssumption`,
`LimitAssumption`; any configuration, any channels and names, a table of any
length): `TypeOK`, `CacheCurrent`, `MovementEnds`, `ShownAsAsked`,
`SearchAnswered`.  What the invariant adds is `Behind`: only an entry that is
there has been updated, so that one that is added has not.  A registration appends
to the list and so leaves the entry of the command under way, and with it the
session its stop goes to, where it is (`EntryStays`).

**ProducerTable** (`ThreadsAssumption`, `BoundAssumption`, `HashAssumption`,
`SizeAssumption`; any threads, hashes and first capacity): `TypeOK`, `RoomLeft`,
`CountAccounted`, `SameProducer`.  That no table fills up is a counting
argument, since threads go on adding to a table after others have replaced it.
A thread adds itself to a table when the `newCount` it got is less than three
quarters of the capacity, but the count goes up and down, so that two threads
may have got the same.  What does hold (`Ranks`) is that of the threads counted
now, at most n got a number up to n: the thread that is counted as the n-th is
counted together with n - 1 others, and leaving makes a set of threads smaller
only.  All threads in a table are counted and got less than three quarters of
its capacity, a copied one since it had less than that of an older, smaller
table; so there are fewer of them than slots.  The rest of `IInv` says that a
key is found where it is put (`Tidy`), that the value beside it is the thread's
producer, and that the flag is one thread's.

**ImplicitProducer** (`BlocksAssumption`, `SizesAssumption`,
`NoMessageAssumption`; any producers and blocks, any block size, first ring and
index range that are powers of two, of which the third is a multiple of the
product of the others): `TypeOK`, `EntryFound`, `BlocksAccounted`,
`ImplementsQueue`.  The code has words that come around; the proof numbers the
blocks of a producer as if they did not.  `IInv` says that for some f and e the
blocks f to e - 1 are in use, that their entries stand one behind the other in
the ring (`Ring`), that a slot of them holds its message from when it is stored
until it is taken (`Holds`), where the consumer's locals point (`Looking`), and
that a live entry is the only one with its block (`BlocksInv`).

- `EntryFound`: the consumer counts blocks from the tail of the ring it loaded,
  modulo the number of blocks in the range, and walks back modulo the ring's
  capacity.  The results agree because the capacity divides that number; this is
  where the powers of two are needed, and `RoomAhead`, which keeps the blocks in
  use within half of that number, so that a full ring can double and a key
  belongs to one of them only.  The tail may be that of a ring that has been
  replaced meanwhile: the entries from the consumer's block to that tail are in
  both.  Or of an entry the producer takes back because there was no block for
  it: it keeps its key, and is used for the same block again.
- `BlocksAccounted`: a block that is in use is in one entry of one producer; the
  entry is emptied before the block goes to the free list, and a block that
  comes from a pool enters one ring.
- `ImplementsQueue`: only publishing a tail index changes the sequence of pending
  messages, at its end, and only taking an element, at its front; by `Holds` and
  `EntryFound` what is taken is that front.

**FreeList** (`ThreadsAssumption`, `BlocksAssumption`, `WidthAssumption`; any
number of threads the word has room for, any blocks): `TypeOK`, `HandedOutOnce`,
`NoneLost`, `NextIsCurrent`, `ImplementsPool`.  The invariant gives every block one of six states
(in use, listed, taken, being linked in before or after its count is stored,
waiting for the last reference), of which each fixes `freeListRefs` to a number
plus that of the threads that hold a reference.  `NextIsCurrent` follows since
a next pointer is written only while that number is zero; and from it, that
a pop that finds the head unchanged leaves the rest of the list.  For
`ImplementsPool` the invariant has what a call knows that was alone and always
had a block to find: only the consumer works beside it, which pushes and never
pops, so that the head it read stays on the list and its own compare-and-swap,
if it fails, leaves it another head; and a block that can be had and is not on
the list is in the hands of another thread, which there is not.

**Bridge** (`DevIdsAssumption`, `DeviceSettingsAssumption`, `DevicesAssumption`,
`UserIdsAssumption`, `LoopThreadAssumption`, `MaxReportsAssumption`,
`NoMessageAssumption`; any configuration, any number of SDK threads and of
messages): `TypeOK`, `AlarmsNameTheirCamera`, `NoFaultAfterStartup`,
`FreedClientOnlyBeforeExit`, `LookedUpCommandReachesDevice`, `InOrder`.  Every step is written as a step of
`HikClient` or leaves its variables alone (`StepMaps`); so the invariant of
`HikClientProofs`, an instance of which `BridgeProofs` contains, holds of the
program, and is used in every later proof.  What the invariant of `Bridge` adds
is which stage of `main()` and of the handler goes with which state of the
client, and that every entry names its camera even when the client is gone.

Only model-checked: the liveness properties (`EveryDeviceGetsItsTurn`,
`ImplementsFairQueue`, `Served`, `LockFree`, `BacklogMoves`, `SignalExits`),
which are beyond the prover.  Every other property of a passing run is a
theorem.  That the code's own table satisfies `SortedAssumption` is evaluated by
TLC.

## Where the code and its documentation differ

Each of these has a run in which TLC finds the statement violated.

| run | the repository says | the code |
|---|---|---|
| `alerts` | "Broker Alerts from Multiple HikVision Devices to MQTT" (README.md:2) | the first alert of a device may come before its entry is in the list; its lookup returns NULL, which is dereferenced |
| `listens` | "'subscribe' is where we wait and listen for commands" (README.md:29) | the subscription is made once, in a clean session; a reconnection or a late first connection does not listen |
| `reaches` | "The 'id', in 'devices' above, is used to send requests to the specified device" (README.md:31) | reboot and manual recording pass the id as the SDK's user id |
| `named_channel` | "Call this command to update the local copy of preset names for the given device and channel." (README.md:37) | there is one copy per device, and it is of the start channel whatever channel is given (hik.cpp:525); the searches ignore their channel as well |

Some more weaknesses are in the models and at the edges of passing properties,
not in runs of their own:

- The loop thread runs from `mosquitto_loop_start` (main.cpp:405) on, `hikc` is
  set after that (main.cpp:408): a command in between goes through a pointer that
  was never set.  `NoFaultAfterStartup` says that none does later.
- `delete hm` after a bad configuration, or on a signal before `hikc` is set,
  deletes that pointer (`DeleteHikmqtt`, `HandlerDelete`); a second signal before
  `exit()` is through deletes `hm` again (`SecondSignal`).
- "Signal handler to clean up on forced exit" (main.cpp:48): while the handler
  deletes the client, the loop thread and the SDK's threads go on using it.
  `FreedClientOnlyBeforeExit` says when what they use is freed.
- The handler frees memory.  If the signal interrupted the main thread with the
  lock of the heap in its hands, it waits for itself: the process does not end,
  and systemd has nothing to restart.  `SignalExits` says that this is the only
  way in which a signal does not end it.
- The README and `example.cfg` write the ids of devices as strings
  (`id = "1"`, README.md:22), which `lookupValue` does not take for an `int`
  (main.cpp:369): with the example as it stands every device is skipped without a
  word (`LookedUp`).
- `get_configFile` looks at `/etc/hikmqtt.cfg` only when `HOME` is defined and
  empty; when it is not defined, `get_env` throws and nobody catches it.
  `IsReadable` takes a file for readable only when everyone may read it.
- `ptz_controlwithspeed` sends no stop after a start that was answered with a
  failure, though a timeout may come after the camera began to pan; it ignores the
  answer to the stop; and a process that ends while it sleeps leaves the camera
  panning, of which a restart knows nothing.  `MovementEnds` has these as the
  causes of a camera that goes on panning and excludes others.
- A producer that found no memory for its block index when it was created refuses
  its thread's messages for ever (`Refused`).
- A reboot that fails is reported as `HM_SET_SUPPLIGHT` (hik.cpp:499).
- A search for the empty name finds the first preset that is *not* set, and shows
  number 0 (`ShownAsAsked`).
- `ptz_move` pans left at speed 2, whatever direction was asked for.

## What is not modelled

- *HCNetSDK and libmosquitto* are external, the first one as binaries with a
  header that holds declarations only.  Their models are what the program
  relies on: user ids are given out once at a time, events come from armed
  channels only and carry their user id, a callback that has begun may still run
  when `NET_DVR_Cleanup` has returned; the broker keeps nothing of a clean
  session, and the loop thread reconnects by itself.
- *The listen server* (`listen_server`) is never called; `iHandle` stays -1.
- *Diagnostics* (`hex_dump`, `ExceptionCallBack`, `SDK_Version`) only print.
- *Inside the queue*: the reuse of producers of ended threads (not compiled in);
  tokens and the explicit producers behind them, bulk operations, timed waits,
  swaps and moves, more than half of the library's lines, which this program
  never calls; and memory ordering weaker than sequential consistency.  That
  `ProducerTable` and `ImplicitProducer` are what `BlockingQueue` takes for its
  steps `GetProducer`, `Store` and `Take`, and `FreeList` what `ImplicitProducer`
  takes for a set, is an argument of this text, not a checked refinement.  Of the
last two it is a short one: `FreeList` is proved to implement `BlockPool`, and
`RequisitionBlock` and `NoneFree` of `ImplicitProducer` have the guards of its `Take`
and `GoWithout`, or weaker ones.
- *Fairness between producers*: `try_dequeue` prefers the largest of the first
  three non-empty sub-queues, so that a busy system may starve a producer.  The
  messages are bounded here, so no run can show it; see the plan.
- *Finding and parsing the configuration*: `get_configFile` and `load_config`
  only look at the file system; whether they find a file and can parse it is a
  choice of `Bridge`.  They do not go together: `load_config` reads
  `/home/matt/.hikmqtt.cfg` (main.cpp:323) whatever file was found.  The broker's
  settings are left out, so that `mqtt_port` and `mqtt_sub`, which stay
  uninitialised when the file does not have them, are always there.
- *JSON*: the arguments of a command are well-formed, and of an alarm only the
  device id is kept.  `cJSON_Print`'s buffer, which the code never frees, is not
  counted.
- *Static destruction* during `exit()`: the step `HandlerExit` takes the lock of
  the heap and ends all threads at once.

## Plan

Built: `HikClient`, `MessageQueue`, `BlockingQueue`, `ProducerTable`,
`ImplicitProducer`, `FreeList`, `Bridge`, `CommandTable`, `DeviceControl`, with
their runs and the proofs of all of them; `MessageQueue` and `BlockPool` are what
two of them and one are proved to implement.

What is left, in this order:

1. `ImplicitProducer` with `FreeList` in place of its set: the pair is checked
   apart, since together they have too many states for one run.
2. The choice of a producer in `try_dequeue` with the counters abstracted to
   their order, for the starvation of a producer behind three busy ones.
3. `MqttSession`: the loop thread's keep-alive against commands that block, and
   the outgoing side of QoS 0.  Both are inside libmosquitto, so that this would
   model the library more than the program.
