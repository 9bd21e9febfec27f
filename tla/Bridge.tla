------------------------------- MODULE Bridge -------------------------------
(***************************************************************************)
(* The whole program: main() and hikmqtt::run() of src/src/main.cpp, with  *)
(* the hik_client they own (HikClient), the queue its callbacks and        *)
(* commands report to (MessageQueue), the thread mosquitto_loop_start      *)
(* creates, which runs the commands, and the signal handler.               *)
(*                                                                         *)
(*   SDK threads --MessageCallback_V31--> msgQueue --+                     *)
(*                                                   +--> main thread      *)
(*   loop thread --process_mqtt_cmd-----> msgQueue --+      --> broker     *)
(*                                                                         *)
(* A signal interrupts the main thread, where Linux delivers it, and the   *)
(* handler destroys what the two other kinds of thread go on using.        *)
(*                                                                         *)
(* A device id is a number here, since three commands hand it to the SDK   *)
(* where a user id is expected.                                            *)
(***************************************************************************)
EXTENDS Integers, Sequences, FiniteSetsExt, Functions

CONSTANTS
  DevIds, UserIds, SdkThreads,   \* as in HikClient
  DeviceSettings, \* the groups under "devices" in the file, in order
  LoopThread,     \* the thread of mosquitto_loop_start
  NoMessage,      \* alert before the first wait_dequeue
  MaxReports      \* bound: messages each thread enqueues

Threads == SdkThreads \cup {LoopThread}

(***************************************************************************)
(* A group: the libconfig type of its id, the id, and whether its other    *)
(* three settings are there, as strings.                                   *)
(***************************************************************************)
DeviceSetting == [type : {"int", "string", "none"}, id : DevIds, complete : BOOLEAN]

ASSUME DevIdsAssumption == DevIds \subseteq Int
ASSUME DeviceSettingsAssumption == DeviceSettings \in Seq(DeviceSetting)
ASSUME UserIdsAssumption == UserIds \subseteq Nat
ASSUME LoopThreadAssumption == LoopThread \notin SdkThreads
ASSUME MaxReportsAssumption == MaxReports \in [Threads -> Nat \ {0}]

\* lookupValue(..., int &) takes no string for a number; read_config skips a
\* group for which one of the four lookups fails.
LookedUp(dev) == dev.type = "int" /\ dev.complete

\* The list devices of hikmqtt, after read_config.
Devices ==
  LET used == SelectSeq(DeviceSettings, LookedUp)
  IN  [i \in 1 .. Len(used) |-> used[i].id]

\* What follows from this for HikClient, by induction along the file.
ASSUME DevicesAssumption == Devices \in Seq(DevIds)

VARIABLES
  client, it, src, lUserId, owner, armed, lDevices, callback, logoutAt,
  fault,         \* as in HikClient
  queue, alert,  \* as in MessageQueue
  pc,            \* main(): the next statement
  inMalloc,      \* the main thread holds the lock of the heap
  handler,       \* where the signal handler is
  link,          \* the connection to the broker
  subscribed,    \* broker: this session receives the commands
  cmd,           \* the command the loop thread executes
  reported,      \* for each thread, the messages it has enqueued
  handled,       \* and the number of its last one run() was done with
  crash          \* the undefined behaviour met, if not one of HikClient's

clientVars == <<client, it, src, lUserId, owner, armed, lDevices, callback,
                logoutAt, fault>>
queueVars == <<queue, alert>>
mainVars == <<pc, inMalloc, handler>>
mqttVars == <<link, subscribed>>
counts == <<reported, handled>>
vars == <<clientVars, queueVars, mainVars, mqttVars, cmd, counts, crash>>

Cameras == 1 .. Len(Devices)
NoCamera == 0

\* A message: who enqueued it as its how-manieth, the device id it names and,
\* for an alarm, the camera that raised it.
Message == [from : Threads, n : Nat \ {0}, devId : DevIds,
            cam : Cameras \cup {NoCamera}]

ASSUME NoMessageAssumption == NoMessage \notin Message

HC == INSTANCE HikClient
MQ == INSTANCE MessageQueue WITH Producers <- Threads, Messages <- Message

(***************************************************************************)
(* A command by the user id it hands to the SDK: that of the device's      *)
(* entry in most, the device id itself in start_manual_record,             *)
(* stop_manual_record and dvr_reboot.                                      *)
(***************************************************************************)
Commands == {"by user id", "by device id"}

Idle == [at |-> "idle"]
Received == [at : {"dispatch"}, devId : DevIds, name : Commands]
Executing == [at : {"operate"}, devId : DevIds, name : Commands, userId : Int]
Replying == [at : {"reply"}, devId : DevIds]

OwnTypeOK ==
  /\ queue \in [Threads -> Seq(Message)]
  /\ alert \in Message \cup {NoMessage}
  /\ pc \in {"boot", "read_config", "connect", "loop_start", "construct",
             "add", "wait", "publish", "free", "delete", "exited"}
  /\ inMalloc \in BOOLEAN
  /\ handler \in {"none", "delete", "logout", "exit"}
  /\ link \in {"down", "up"}
  /\ subscribed \in BOOLEAN
  /\ cmd \in {Idle} \cup Received \cup Executing \cup Replying
  /\ reported \in [Threads -> Nat] /\ handled \in [Threads -> Nat]
  /\ \A t \in Threads : reported[t] <= MaxReports[t] /\ handled[t] <= MaxReports[t]
  /\ crash \in {"none", "no client", "freed client", "null device", "double delete"}

TypeOK == HC!TypeOK /\ OwnTypeOK

InitBridge ==
  /\ pc = "boot" /\ inMalloc = FALSE /\ handler = "none"
  /\ link = "down" /\ subscribed = FALSE
  /\ cmd = Idle
  /\ reported = [t \in Threads |-> 0]
  /\ handled = [t \in Threads |-> 0]
  /\ crash = "none"

Init == HC!Init /\ MQ!Init /\ InitBridge

Alive == HC!Alive /\ crash = "none" /\ pc # "exited"

\* The main thread runs its own code, not the signal handler's.
At(label) == Alive /\ handler = "none" /\ pc = label

-----------------------------------------------------------------------------
(* main() and run(), on the main thread.                                   *)

\* get_configFile finds no readable file, or throws without $HOME.
NoConfigFile ==
  /\ At("boot") /\ pc' = "exited"
  /\ inMalloc' = FALSE
  /\ UNCHANGED <<clientVars, queueVars, handler, mqttVars, cmd, counts, crash>>

\* hm = new hikmqtt(): the member hikc is not initialised.
NewHikmqtt ==
  /\ At("boot") /\ pc' = "read_config"
  /\ inMalloc' = FALSE
  /\ UNCHANGED <<clientVars, queueVars, handler, mqttVars, cmd, counts, crash>>

ReadConfig ==
  /\ At("read_config") /\ pc' \in {"connect", "delete"}
  /\ inMalloc' = FALSE
  /\ UNCHANGED <<clientVars, queueVars, handler, mqttVars, cmd, counts, crash>>

\* delete hm after a bad configuration: ~hikmqtt deletes whatever hikc holds.
DeleteHikmqtt ==
  /\ At("delete")
  /\ \/ pc' = "exited" /\ UNCHANGED crash
     \/ crash' = "no client" /\ UNCHANGED pc
  /\ inMalloc' = FALSE
  /\ UNCHANGED <<clientVars, queueVars, handler, mqttVars, cmd, counts>>

\* mosquitto_connect and mosquitto_subscribe; nobody looks at their results.
Connect ==
  /\ At("connect") /\ pc' = "loop_start"
  /\ \/ link' = "up" /\ subscribed' = TRUE
     \/ UNCHANGED mqttVars
  /\ inMalloc' = FALSE
  /\ UNCHANGED <<clientVars, queueVars, handler, cmd, counts, crash>>

LoopStart ==
  /\ At("loop_start") /\ pc' = "construct"
  /\ inMalloc' = FALSE
  /\ UNCHANGED <<clientVars, queueVars, handler, mqttVars, cmd, counts, crash>>

Construct ==
  /\ At("construct") /\ pc' = "add"
  /\ HC!Construct
  /\ inMalloc' = FALSE
  /\ UNCHANGED <<queueVars, handler, mqttVars, cmd, counts, crash>>

AddSource ==
  /\ At("add")
  /\ HC!AddSource
  /\ inMalloc' = FALSE
  /\ UNCHANGED <<queueVars, pc, handler, mqttVars, cmd, counts, crash>>

\* Mutant: run() waits for every device to be registered.
EndOfDevices_AllRegistered ==
  /\ At("add") /\ it \notin Cameras /\ Len(lDevices) = Len(Devices)
  /\ pc' = "wait"
  /\ inMalloc' = FALSE
  /\ UNCHANGED <<clientVars, queueVars, handler, mqttVars, cmd, counts, crash>>

EndOfDevices ==
  /\ At("add") /\ it \notin Cameras
  /\ pc' = "wait"
  /\ inMalloc' = FALSE
  /\ UNCHANGED <<clientVars, queueVars, handler, mqttVars, cmd, counts, crash>>

WaitDequeue ==
  /\ At("wait") /\ pc' = "publish"
  /\ \E t \in Threads : MQ!Dequeue(t)
  /\ UNCHANGED <<clientVars, inMalloc, handler, mqttVars, cmd, counts, crash>>

\* mosquitto_publish with QoS 0: while the link is down the message is lost,
\* which the program does not notice.
Publish ==
  /\ At("publish") /\ pc' = "free"
  /\ handled' = [handled EXCEPT ![alert.from] = alert.n]
  /\ inMalloc' = FALSE
  /\ UNCHANGED <<clientVars, queueVars, handler, mqttVars, cmd, reported, crash>>

\* free(alert), and m_loop is never cleared.
Free ==
  /\ At("free") /\ pc' = "wait"
  /\ inMalloc' = FALSE
  /\ UNCHANGED <<clientVars, queueVars, handler, mqttVars, cmd, counts, crash>>

\* Whatever the main thread does but wait_dequeue allocates or frees, and so
\* may take the lock of the heap.  It gives it back before it goes on.
LockHeap ==
  /\ Alive /\ handler = "none" /\ pc # "wait"
  /\ ~inMalloc
  /\ inMalloc' = TRUE
  /\ UNCHANGED <<clientVars, queueVars, pc, handler, mqttVars, cmd, counts, crash>>

Main ==
  \/ NoConfigFile \/ NewHikmqtt \/ ReadConfig \/ DeleteHikmqtt
  \/ Connect \/ LoopStart \/ Construct \/ AddSource \/ EndOfDevices
  \/ WaitDequeue \/ Publish \/ Free \/ LockHeap

-----------------------------------------------------------------------------
(* The SDK threads.                                                        *)

Raise(t) ==
  /\ Alive /\ reported[t] < MaxReports[t]
  /\ HC!Raise(t)
  /\ UNCHANGED <<queueVars, mainVars, mqttVars, cmd, counts, crash>>

Lookup(t) ==
  /\ Alive
  /\ HC!Lookup(t)
  /\ UNCHANGED <<queueVars, mainVars, mqttVars, cmd, counts, crash>>

\* messageQueue->enqueue(msg) on thread t.
Enqueue(t, devId, cam) ==
  /\ MQ!Enqueue(t, [from |-> t, n |-> reported[t] + 1, devId |-> devId, cam |-> cam])
  /\ reported' = [reported EXCEPT ![t] = @ + 1]

Report(t) ==
  /\ Alive
  /\ HC!Report(t)
  /\ Enqueue(t, callback[t].devId, callback[t].cam)
  /\ UNCHANGED <<mainVars, mqttVars, cmd, handled, crash>>

-----------------------------------------------------------------------------
(* The loop thread, from loop_start on: libmosquitto's part ...            *)

LoopRunning == pc \notin {"boot", "read_config", "delete", "connect", "loop_start"}

LinkLost ==
  /\ Alive /\ link = "up"
  /\ link' = "down" /\ subscribed' = FALSE
  /\ UNCHANGED <<clientVars, queueVars, mainVars, cmd, counts, crash>>

\* The broker keeps nothing of a clean session, and the program sets no
\* connect callback that would subscribe again.
Reconnect ==
  /\ Alive /\ LoopRunning /\ cmd = Idle
  /\ link = "down" /\ link' = "up"
  /\ UNCHANGED <<clientVars, queueVars, mainVars, subscribed, cmd, counts, crash>>

(* ... and process_mqtt_cmd with the method of hik_client it invokes.      *)

\* A message on mqtt_sub with a known command and a numeric devId.
Receive ==
  /\ Alive /\ LoopRunning /\ cmd = Idle
  /\ link = "up" /\ subscribed /\ reported[LoopThread] < MaxReports[LoopThread]
  /\ cmd' \in Received
  /\ UNCHANGED <<clientVars, queueVars, mainVars, mqttVars, counts, crash>>

WithDevId(d) == {i \in DOMAIN lDevices : lDevices[i].devId = d}

\* Mutant: the last entry of the list, whatever it is.
get_device_byDevId_Last(d) == lDevices[Len(lDevices)]

\* get_device_byDevId, when it does not return NULL.
get_device_byDevId(d) == lDevices[Min(WithDevId(d))]

\* What the command hands to the SDK as the user id.
Target(c) ==
  IF c.name = "by user id" THEN get_device_byDevId(c.devId).userId ELSE c.devId

\* Mutant: the result of get_device_byDevId is used without a test.
Dispatch_Untested ==
  /\ Alive /\ cmd.at = "dispatch"
  /\ \/ /\ WithDevId(cmd.devId) = {}
        /\ crash' = "null device" /\ UNCHANGED cmd
     \/ /\ WithDevId(cmd.devId) # {}
        /\ cmd' = [at     |-> "operate", devId |-> cmd.devId, name |-> cmd.name,
                   userId |-> Target(cmd)]
        /\ UNCHANGED crash
  /\ UNCHANGED <<clientVars, queueVars, mainVars, mqttVars, counts>>

\* An unknown device is not answered.
Dispatch ==
  /\ Alive /\ cmd.at = "dispatch"
  /\ \/ client = "none" /\ crash' = "no client" /\ UNCHANGED cmd
     \/ client = "gone" /\ crash' = "freed client" /\ UNCHANGED cmd
     \/ /\ client \in {"live", "closing"} /\ UNCHANGED crash
        /\ IF WithDevId(cmd.devId) = {}
           THEN cmd' = Idle
           ELSE cmd' = [at     |-> "operate", devId |-> cmd.devId, name |-> cmd.name,
                        userId |-> Target(cmd)]
  /\ UNCHANGED <<clientVars, queueVars, mainVars, mqttVars, counts>>

\* The call of the SDK.  A success or a failure may be reported or not.
Operate ==
  /\ Alive /\ cmd.at = "operate"
  /\ IF client = "gone"
     THEN crash' = "freed client" /\ UNCHANGED cmd
     ELSE /\ cmd' \in {Idle, [at |-> "reply", devId |-> cmd.devId]}
          /\ UNCHANGED crash
  /\ UNCHANGED <<clientVars, queueVars, mainVars, mqttVars, counts>>

Reply ==
  /\ Alive /\ cmd.at = "reply"
  /\ Enqueue(LoopThread, cmd.devId, NoCamera)
  /\ cmd' = Idle
  /\ UNCHANGED <<clientVars, mainVars, mqttVars, handled, crash>>

LoopThreadStep == LinkLost \/ Reconnect \/ Receive \/ Dispatch \/ Operate \/ Reply

-----------------------------------------------------------------------------
(* signalHandler, on top of whatever the main thread was doing.            *)

Signal ==
  /\ Alive /\ handler = "none"
  /\ handler' = "delete"
  /\ UNCHANGED <<clientVars, queueVars, pc, inMalloc, mqttVars, cmd, counts, crash>>

\* delete hm: nothing before it was set, and ~hikmqtt deletes hikc otherwise,
\* whatever that is before run() sets it.  Freeing the settings and hm itself
\* takes the lock of the heap, for which the handler waits in vain if it has
\* interrupted its holder.
HandlerDelete ==
  /\ Alive /\ handler = "delete"
  /\ \/ pc = "boot" /\ handler' = "exit" /\ UNCHANGED <<clientVars, crash>>
     \/ /\ pc # "boot" /\ client = "none"
        /\ \/ ~inMalloc /\ handler' = "exit" /\ UNCHANGED crash
           \/ crash' = "no client" /\ UNCHANGED handler
        /\ UNCHANGED clientVars
     \/ HC!Destroy /\ handler' = "logout" /\ UNCHANGED crash
  /\ UNCHANGED <<queueVars, pc, inMalloc, mqttVars, cmd, counts>>

HandlerLogout ==
  /\ Alive /\ handler = "logout"
  /\ HC!LogoutDevice
  /\ UNCHANGED <<queueVars, mainVars, mqttVars, cmd, counts, crash>>

\* NET_DVR_Cleanup, and the list and hm are freed.
HandlerCleanup ==
  /\ Alive /\ handler = "logout" /\ ~inMalloc
  /\ HC!Cleanup
  /\ handler' = "exit"
  /\ UNCHANGED <<queueVars, pc, inMalloc, mqttVars, cmd, counts, crash>>

\* Mutant: the handler returns to what it has interrupted.
HandlerExit_Returns ==
  /\ Alive /\ handler = "exit"
  /\ handler' = "none"
  /\ UNCHANGED <<clientVars, queueVars, pc, inMalloc, mqttVars, cmd, counts, crash>>

\* exit() destroys msgQueue, which frees its blocks.
HandlerExit ==
  /\ Alive /\ handler = "exit" /\ ~inMalloc
  /\ pc' = "exited"
  /\ UNCHANGED <<clientVars, queueVars, inMalloc, handler, mqttVars, cmd, counts, crash>>

\* SIGINT in the handler of SIGTERM, or the reverse, before exit() is through.
\* One that comes during the logouts does them again and exits by itself.
SecondSignal ==
  /\ Alive /\ handler = "exit" /\ client = "gone"
  /\ crash' = "double delete"
  /\ UNCHANGED <<clientVars, queueVars, mainVars, mqttVars, cmd, counts>>

Handler == HandlerDelete \/ HandlerLogout \/ HandlerCleanup \/ HandlerExit

\* systemd starts the program again (Restart=always).
Restart ==
  /\ ~Alive
  /\ HC!Restart
  /\ queue' = [t \in Threads |-> << >>] /\ alert' = NoMessage
  /\ pc' = "boot" /\ inMalloc' = FALSE /\ handler' = "none"
  /\ link' = "down" /\ subscribed' = FALSE
  /\ cmd' = Idle
  /\ reported' = [t \in Threads |-> 0] /\ handled' = [t \in Threads |-> 0]
  /\ crash' = "none"

-----------------------------------------------------------------------------
Next ==
  \/ Main
  \/ \E t \in SdkThreads : Raise(t) \/ Lookup(t) \/ Report(t)
  \/ LoopThreadStep
  \/ Signal \/ Handler \/ SecondSignal
  \/ Restart

Spec == Init /\ [][Next]_vars

(***************************************************************************)
(* The main thread is scheduled, in its own code or in the handler.        *)
(***************************************************************************)
Fairness == WF_vars(Main \/ Handler)

FairSpec == Spec /\ Fairness

-----------------------------------------------------------------------------
(* Properties.                                                             *)

\* From the callback to the broker, an alarm names the camera that raised it.
AlarmsNameTheirCamera ==
  \A t \in SdkThreads :
    \A m \in Range(queue[t]) \cup ({alert} \cap Message) :
      m.cam # NoCamera => m.devId = Devices[m.cam]

\* run() is done with each thread's messages one by one, in the order the
\* thread reported them, until the process starts again.
InOrder ==
  [][\A t \in Threads : handled'[t] \in {handled[t], handled[t] + 1} \/ Restart]_vars

\* Once the loop over the devices is through and as long as no signal comes,
\* nothing that a device, the broker or a command does ends the process.
NoFaultAfterStartup ==
  handler = "none" /\ pc \in {"wait", "publish", "free"} => Alive

\* The loop thread and the SDK's threads use a client that is freed only from the
\* end of the handler's clean-up to exit(): nothing else frees it, nothing frees
\* it earlier, and they are stopped there.
FreedClientOnlyBeforeExit == "freed client" \in {crash, fault} => handler = "exit"

\* User id u is logged in to a camera configured as d.
Reaches(u, d) == u \in UserIds /\ owner[u] \in Cameras /\ Devices[owner[u]] = d

\* A command that looks the user id up reaches the camera of the device it
\* names, while devices are still being added and whatever came of the devices
\* before.
LookedUpCommandReachesDevice ==
  client = "live" /\ cmd.at = "operate" /\ cmd.name = "by user id" =>
    Reaches(cmd.userId, cmd.devId)

\* As long as a message waits in the queue, run() gets done with one more,
\* however many devices are yet to be added or fail to be.
Backlog == \E t \in Threads : queue[t] # << >>
Done == FoldFunction(+, 0, handled)
BacklogMoves ==
  \A n \in 0 .. FoldFunction(+, 0, MaxReports) :
    Backlog /\ Done = n ~> Done > n \/ handler # "none" \/ ~Alive

\* A signal ends the process, unless it found the main thread with the lock of
\* the heap: then the handler waits for itself.
SignalExits == handler = "delete" /\ ~inMalloc ~> ~Alive

-----------------------------------------------------------------------------
(* What the documentation and the comments say of the program, and the     *)
(* program does not do.                                                    *)

\* README.md: the program brokers the alerts of the devices.  None of them
\* makes it fail.
AlertsAreBrokered == handler = "none" => fault = "none"

\* README.md: 'subscribe' is where the program listens for commands.  While
\* it is connected, it does.
Listens ==
  handler = "none" /\ pc \in {"wait", "publish", "free"} /\ link = "up" => subscribed

\* README.md: a command goes to the device whose id it names.
CommandReachesDevice ==
  client = "live" /\ cmd.at = "operate" => Reaches(cmd.userId, cmd.devId)

=============================================================================
