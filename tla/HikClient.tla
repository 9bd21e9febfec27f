----------------------------- MODULE HikClient -----------------------------
(***************************************************************************)
(* The hik_client class of src/src/hik.cpp: the list lDevices of monitored *)
(* devices, the SDK sessions behind it, the alarm callbacks the SDK calls  *)
(* on its own threads, and the destructor a signal handler runs.  Three    *)
(* kinds of thread meet here:                                              *)
(*                                                                         *)
(*   - the main thread walks the configured devices and calls add_source   *)
(*     for each (log in, arm the alarm channel, append to lDevices);       *)
(*   - an SDK thread enters MessageCallback_V31 whenever an armed channel  *)
(*     delivers an event, and looks the event's user id up in lDevices;    *)
(*   - the thread that takes SIGINT or SIGTERM runs ~hik_client.           *)
(*                                                                         *)
(* None of them takes a lock.  POSIX lets any thread take the signal, so   *)
(* that the main thread may go on beside the destructor; Bridge narrows    *)
(* this to what Linux does.                                                *)
(***************************************************************************)
EXTENDS Integers, Sequences, FiniteSetsExt

CONSTANTS
  DevIds,      \* device ids a configuration may use
  Devices,     \* the devId of each configured device, in file order
  UserIds,     \* user ids the SDK may return from a login
  SdkThreads   \* threads on which the SDK calls back

ASSUME DevicesAssumption == Devices \in Seq(DevIds)
ASSUME UserIdsAssumption == UserIds \subseteq Nat

(***************************************************************************)
(* A camera is its position in the configuration; 0 is no camera, as -1 is *)
(* no user id in the code.                                                 *)
(***************************************************************************)
Cameras == 1 .. Len(Devices)
NoCamera == 0
NoUser == -1

(***************************************************************************)
(* Events by what proc_callback_message does with them: a rule alarm is    *)
(* looked up and reported, a logged one (COMM_ALARM_V30, COMM_ALARM_V40,   *)
(* COMM_GISINFO_UPLOAD, COMM_DEV_STATUS_CHANGED) is looked up for a line   *)
(* on stdout.  The other commands only print and touch no state.           *)
(***************************************************************************)
Kinds == {"rule", "logged"}

VARIABLES
  client,      \* the hik_client object: none, live, closing or gone
  it,          \* run(): position in the configured devices
  src,         \* add_source(): the next statement
  lUserId,     \* add_source(): the local of that name
  owner,       \* SDK: the camera a user id is logged in to
  armed,       \* SDK: the user ids whose alarm channel is set up
  lDevices,    \* the registered devices
  callback,    \* SDK: the callback each thread is executing
  logoutAt,    \* ~hik_client(): position in lDevices
  fault        \* the undefined behaviour met, if any: the process ends there

main == <<it, src, lUserId>>
sdk == <<owner, armed>>
vars == <<client, it, src, lUserId, owner, armed, lDevices, callback,
          logoutAt, fault>>

Quiet == [at |-> "idle"]
Entering == [at : {"lookup"}, userId : UserIds, kind : Kinds, cam : Cameras]
Reporting == [at : {"report"}, devId : DevIds, cam : Cameras]
DevInfo == [devId : DevIds, userId : UserIds, cam : Cameras]

TypeOK ==
  /\ client \in {"none", "live", "closing", "gone"}
  /\ it \in 1 .. Len(Devices) + 1
  /\ src \in {"login", "arm", "logout", "push"}
  /\ src # "login" => it \in Cameras /\ lUserId \in UserIds
  /\ lUserId \in UserIds \cup {NoUser}
  /\ owner \in [UserIds -> Cameras \cup {NoCamera}]
  /\ armed \in SUBSET UserIds
  /\ lDevices \in Seq(DevInfo)
  /\ callback \in [SdkThreads -> {Quiet} \cup Entering \cup Reporting]
  /\ logoutAt \in Nat \ {0}
  /\ fault \in {"none", "null device", "freed client"}

Init ==
  /\ client = "none"
  /\ it = 1
  /\ src = "login"
  /\ lUserId = NoUser
  /\ owner = [u \in UserIds |-> NoCamera]
  /\ armed = {}
  /\ lDevices = << >>
  /\ callback = [t \in SdkThreads |-> Quiet]
  /\ logoutAt = 1
  /\ fault = "none"

Alive == fault = "none"
Initialised == client \in {"live", "closing"}   \* between NET_DVR_Init and NET_DVR_Cleanup

-----------------------------------------------------------------------------
(* The main thread.                                                        *)

\* hikc = new hik_client(&msgQueue): the constructor runs init_hik.
Construct ==
  /\ Alive /\ client = "none"
  /\ client' = "live"
  /\ UNCHANGED <<main, sdk, lDevices, callback, logoutAt, fault>>

\* The for loop of run() moves on to the next configured device.
NextDevice == it' = it + 1 /\ src' = "login"

\* Mutant: the result of the login is not tested.
LoginOk_Unchecked ==
  /\ Alive /\ Initialised
  /\ src = "login" /\ it \in Cameras
  /\ lUserId' = NoUser
  /\ src' = "arm"
  /\ UNCHANGED <<client, it, sdk, lDevices, callback, logoutAt, fault>>

LoginOk ==
  /\ Alive /\ Initialised
  /\ src = "login" /\ it \in Cameras
  /\ \E u \in UserIds :
       /\ owner[u] = NoCamera
       /\ owner' = [owner EXCEPT ![u] = it]
       /\ lUserId' = u
  /\ src' = "arm"
  /\ UNCHANGED <<client, it, armed, lDevices, callback, logoutAt, fault>>

\* Printed, not retried: the device stays unmonitored until a restart.
LoginFails ==
  /\ Alive /\ client # "none"
  /\ src = "login" /\ it \in Cameras
  /\ lUserId' = NoUser
  /\ NextDevice
  /\ UNCHANGED <<client, sdk, lDevices, callback, logoutAt, fault>>

\* The device delivers events from here on, whatever the main thread does.
ArmOk ==
  /\ Alive /\ src = "arm"
  /\ owner[lUserId] = it
  /\ armed' = armed \cup {lUserId}
  /\ src' = "push"
  /\ UNCHANGED <<client, it, lUserId, owner, lDevices, callback, logoutAt, fault>>

\* Mutant: the result of arming the channel is not tested.
ArmFails_Unchecked ==
  /\ Alive /\ src = "arm"
  /\ src' = "push"
  /\ UNCHANGED <<client, it, lUserId, sdk, lDevices, callback, logoutAt, fault>>

ArmFails ==
  /\ Alive /\ src = "arm"
  /\ src' = "logout"
  /\ UNCHANGED <<client, it, lUserId, sdk, lDevices, callback, logoutAt, fault>>

\* Mutant: no NET_DVR_Logout when the channel is refused.
LogoutRefused_Leaks ==
  /\ Alive /\ src = "logout"
  /\ lUserId' = NoUser
  /\ NextDevice
  /\ UNCHANGED <<client, sdk, lDevices, callback, logoutAt, fault>>

\* Mutant: the same device is tried again at once.
LogoutRefused_Retries ==
  /\ Alive /\ src = "logout"
  /\ owner' = [owner EXCEPT ![lUserId] = NoCamera]
  /\ lUserId' = NoUser
  /\ src' = "login"
  /\ UNCHANGED <<client, it, armed, lDevices, callback, logoutAt, fault>>

LogoutRefused ==
  /\ Alive /\ src = "logout"
  /\ owner' = [owner EXCEPT ![lUserId] = NoCamera]
  /\ lUserId' = NoUser
  /\ NextDevice
  /\ UNCHANGED <<client, armed, lDevices, callback, logoutAt, fault>>

\* lDevices.push_back(camera): the only write to the list after construction.
Register ==
  /\ Alive /\ src = "push"
  /\ IF client = "gone"
     THEN /\ fault' = "freed client"
          /\ UNCHANGED <<main, lDevices>>
     ELSE /\ lDevices' = Append(lDevices,
                [devId |-> Devices[it], userId |-> lUserId, cam |-> it])
          /\ NextDevice
          /\ UNCHANGED <<lUserId, fault>>
  /\ UNCHANGED <<client, sdk, callback, logoutAt>>

-----------------------------------------------------------------------------
(* The SDK threads.                                                        *)

Matches(u) == {i \in DOMAIN lDevices : lDevices[i].userId = u}

\* Mutant: the loop leaves at the first entry, matching or not.
get_device_First(u) == lDevices[1]

\* get_device_byUserId: the first entry with this user id.
get_device_byUserId(u) == lDevices[Min(Matches(u))]

\* An armed device raises an event; the SDK calls MessageCallback_V31.
Raise(t) ==
  /\ Alive /\ Initialised
  /\ callback[t] = Quiet
  /\ \E u \in armed, k \in Kinds :
       callback' = [callback EXCEPT ![t] =
         [at |-> "lookup", userId |-> u, kind |-> k, cam |-> owner[u]]]
  /\ UNCHANGED <<client, main, sdk, lDevices, logoutAt, fault>>

\* get_device_byUserId(pAlarmer->lUserID)->devId, with no test for NULL.
Lookup(t) ==
  /\ Alive /\ callback[t].at = "lookup"
  /\ LET c == callback[t] IN
       \/ /\ client = "gone"
          /\ fault' = "freed client"
          /\ UNCHANGED callback
       \/ /\ client # "gone" /\ Matches(c.userId) = {}
          /\ fault' = "null device"
          /\ UNCHANGED callback
       \/ /\ client # "gone" /\ Matches(c.userId) # {}
          /\ callback' = [callback EXCEPT ![t] =
               IF c.kind = "rule"
               THEN [at    |-> "report",
                     devId |-> get_device_byUserId(c.userId).devId,
                     cam   |-> c.cam]
               ELSE Quiet]
          /\ UNCHANGED fault
  /\ UNCHANGED <<client, main, sdk, lDevices, logoutAt>>

\* messageQueue->enqueue(msg), and the callback returns.  messageQueue is a
\* global of hik.cpp, so this needs the client no longer.
Report(t) ==
  /\ Alive /\ callback[t].at = "report"
  /\ callback' = [callback EXCEPT ![t] = Quiet]
  /\ UNCHANGED <<client, main, sdk, lDevices, logoutAt, fault>>

-----------------------------------------------------------------------------
(* ~hik_client, run by the signal handler through delete hm.               *)

Destroy ==
  /\ Alive /\ client = "live"
  /\ client' = "closing"
  /\ UNCHANGED <<main, sdk, lDevices, callback, logoutAt, fault>>

\* Mutant: entries are unlinked as their devices are logged out.
LogoutDevice_Unlinks ==
  /\ Alive /\ client = "closing" /\ lDevices # << >>
  /\ LET u == Head(lDevices).userId IN
       /\ owner' = [owner EXCEPT ![u] = NoCamera]
       /\ armed' = armed \ {u}
  /\ lDevices' = Tail(lDevices)
  /\ UNCHANGED <<client, main, callback, logoutAt, fault>>

\* Mutant: the loop starts behind the first entry.
LogoutDevice_SkipsFirst ==
  /\ Alive /\ client = "closing" /\ logoutAt <= Len(lDevices)
  /\ LET u == lDevices[logoutAt].userId
         out == IF logoutAt = 1 THEN {} ELSE {u} IN
       /\ owner' = [v \in UserIds |-> IF v \in out THEN NoCamera ELSE owner[v]]
       /\ armed' = armed \ out
  /\ logoutAt' = logoutAt + 1
  /\ UNCHANGED <<client, main, lDevices, callback, fault>>

LogoutDevice ==
  /\ Alive /\ client = "closing" /\ logoutAt <= Len(lDevices)
  /\ LET u == lDevices[logoutAt].userId IN
       /\ owner' = [owner EXCEPT ![u] = NoCamera]
       /\ armed' = armed \ {u}
  /\ logoutAt' = logoutAt + 1
  /\ UNCHANGED <<client, main, lDevices, callback, fault>>

\* NET_DVR_Cleanup closes what is left; then the members are destroyed.
Cleanup ==
  /\ Alive /\ client = "closing" /\ logoutAt > Len(lDevices)
  /\ client' = "gone"
  /\ owner' = [u \in UserIds |-> NoCamera]
  /\ armed' = {}
  /\ lDevices' = << >>
  /\ UNCHANGED <<main, callback, logoutAt, fault>>

\* The process ends, by exit(), a fault of any of its threads or a kill, and
\* systemd starts it again (Restart=always).
Restart ==
  /\ client' = "none" /\ it' = 1 /\ src' = "login" /\ lUserId' = NoUser
  /\ owner' = [u \in UserIds |-> NoCamera] /\ armed' = {}
  /\ lDevices' = << >> /\ logoutAt' = 1
  /\ callback' = [t \in SdkThreads |-> Quiet] /\ fault' = "none"

-----------------------------------------------------------------------------
AddSource == LoginOk \/ LoginFails \/ ArmOk \/ ArmFails \/ LogoutRefused \/ Register
Callback(t) == Lookup(t) \/ Report(t)
Destructor == LogoutDevice \/ Cleanup

Next ==
  \/ Construct
  \/ AddSource
  \/ \E t \in SdkThreads : Raise(t) \/ Callback(t)
  \/ Destroy
  \/ Destructor
  \/ Restart

Spec == Init /\ [][Next]_vars

(***************************************************************************)
(* The scheduler runs the main thread as long as no signal has stopped it: *)
(* Linux delivers a process signal to the main thread, which then stays in *)
(* the handler until exit().  The SDK gives up on a device by itself       *)
(* (NET_DVR_SetConnectTime), so each of its calls returns.                 *)
(***************************************************************************)
Fairness == WF_vars(client = "live" /\ AddSource)

FairSpec == Spec /\ Fairness

-----------------------------------------------------------------------------
(* Properties.                                                             *)

Registered == {lDevices[i].userId : i \in DOMAIN lDevices}

\* The session add_source() is working on, if it has one.
InProgress == IF src = "login" THEN {} ELSE {lUserId}

\* While the client lives, every session the SDK holds open is either one
\* registered device's or the one add_source is busy with: a device that was
\* refused its alarm channel leaves no session behind, and a registered one
\* keeps its own.
SessionsAccounted ==
  client = "live" =>
    {u \in UserIds : owner[u] # NoCamera} = Registered \cup InProgress

\* Every registered device is the camera its user id is logged in to, under
\* the configured id, with its alarm channel set up; no two share a user id.
RegisteredAreArmed ==
  client = "live" =>
    \A i \in DOMAIN lDevices :
      LET d == lDevices[i] IN
        /\ owner[d.userId] = d.cam /\ d.userId \in armed
        /\ d.devId = Devices[d.cam]
        /\ Matches(d.userId) = {i}

\* An alarm is reported under the id of the device that raised it: the list
\* search by user id, made on another thread than the registrations, finds
\* the right entry.
Attribution ==
  client = "live" =>
    \A t \in SdkThreads :
      callback[t].at = "report" => callback[t].devId = Devices[callback[t].cam]

\* A callback dereferences a null device only if its event came between
\* NET_DVR_SetupAlarmChan_V50 and push_back of that very device.
NullDeviceOnlyWhileRegistering ==
  fault = "null device" =>
    /\ src = "push"
    /\ \E t \in SdkThreads :
         callback[t].at = "lookup" /\ callback[t].userId = lUserId

\* When the destructor has gone through the list, only a session that
\* add_source was still setting up is left for NET_DVR_Cleanup to close.
LogoutLeavesInProgress ==
  client = "closing" /\ logoutAt > Len(lDevices) =>
    {u \in UserIds : owner[u] # NoCamera} \subseteq InProgress

\* A device that cannot be reached or armed never holds up the others: the
\* loop of run() comes to its end unless the client is destroyed or crashes.
EveryDeviceGetsItsTurn ==
  client = "live" ~> (it > Len(Devices) \/ client # "live" \/ ~Alive)

=============================================================================
