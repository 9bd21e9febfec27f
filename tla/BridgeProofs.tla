---------------------------- MODULE BridgeProofs ----------------------------
(***************************************************************************)
(* Proofs about Bridge, for every configuration, every number of SDK       *)
(* threads and every bound on the messages.                                *)
(*                                                                         *)
(* The steps of the program are steps of its client, so that the invariant *)
(* of HikClientProofs holds here and is there to be used at every step.    *)
(* What Bridge adds is who runs when: after Destroy the main thread is in  *)
(* the handler and the list stays as it is, so that attribution outlives   *)
(* the client.                                                             *)
(***************************************************************************)
EXTENDS Bridge, FiniteSetTheorems, SequenceTheorems, TLAPS

HCP == INSTANCE HikClientProofs

-----------------------------------------------------------------------------
(* Every step of the program is one of its client, or leaves that alone.   *)

LEMMA MainActions ==
  /\ HC!Construct => HCP!Construct
  /\ HC!AddSource => HCP!AddSource
<1> USE DEF HC!Alive, HCP!Alive, HC!Initialised, HCP!Initialised, HC!main, HCP!main,
            HC!sdk, HCP!sdk, HC!NextDevice, HCP!NextDevice, HC!NoUser, HCP!NoUser,
            HC!NoCamera, HCP!NoCamera, HC!Cameras, HCP!Cameras
<1>1. HC!Construct => HCP!Construct
  BY DEF HC!Construct, HCP!Construct
<1>2. HC!LoginOk => HCP!LoginOk
  BY DEF HC!LoginOk, HCP!LoginOk
<1>3. HC!LoginFails => HCP!LoginFails
  BY DEF HC!LoginFails, HCP!LoginFails
<1>4. HC!ArmOk => HCP!ArmOk
  BY DEF HC!ArmOk, HCP!ArmOk
<1>5. HC!ArmFails => HCP!ArmFails
  BY DEF HC!ArmFails, HCP!ArmFails
<1>6. HC!LogoutRefused => HCP!LogoutRefused
  BY DEF HC!LogoutRefused, HCP!LogoutRefused
<1>7. HC!Register => HCP!Register
  BY DEF HC!Register, HCP!Register
<1> QED BY <1>1, <1>2, <1>3, <1>4, <1>5, <1>6, <1>7 DEF HC!AddSource, HCP!AddSource

LEMMA SdkActions ==
  ASSUME NEW t \in SdkThreads
  PROVE  /\ HC!Raise(t) => HCP!Raise(t)
         /\ HC!Lookup(t) => HCP!Lookup(t)
         /\ HC!Report(t) => HCP!Report(t)
<1> USE DEF HC!Alive, HCP!Alive, HC!Initialised, HCP!Initialised, HC!main, HCP!main,
            HC!sdk, HCP!sdk, HC!Quiet, HCP!Quiet, HC!Matches, HCP!Matches
<1>1. HC!Raise(t) => HCP!Raise(t)
  BY DEF HC!Raise, HCP!Raise, HC!Kinds, HCP!Kinds
<1>2. \A u : HC!get_device_byUserId(u) = HCP!get_device_byUserId(u)
  BY DEF HC!get_device_byUserId, HCP!get_device_byUserId, HC!Min, HCP!Min
<1>3. HC!Lookup(t) => HCP!Lookup(t)
  BY <1>2 DEF HC!Lookup, HCP!Lookup
<1>4. HC!Report(t) => HCP!Report(t)
  BY DEF HC!Report, HCP!Report
<1> QED BY <1>1, <1>3, <1>4

LEMMA DestructorActions ==
  /\ HC!Destroy => HCP!Destroy
  /\ HC!LogoutDevice => HCP!LogoutDevice
  /\ HC!Cleanup => HCP!Cleanup
  /\ HC!Restart => HCP!Restart
BY DEF HC!Alive, HCP!Alive, HC!main, HCP!main, HC!sdk, HCP!sdk, HC!NoCamera, HCP!NoCamera,
   HC!Destroy, HCP!Destroy, HC!LogoutDevice, HCP!LogoutDevice, HC!Cleanup, HCP!Cleanup,
   HC!Restart, HCP!Restart, HC!NoUser, HCP!NoUser, HC!Quiet, HCP!Quiet

LEMMA InitMaps == Init => HC!Init /\ HCP!Init
BY DEF Init, HC!Init, HCP!Init, HC!NoUser, HCP!NoUser, HC!NoCamera, HCP!NoCamera,
   HC!Quiet, HCP!Quiet

StepOfClient ==
  \/ HC!Construct \/ HC!AddSource
  \/ \E t \in SdkThreads : HC!Raise(t) \/ HC!Lookup(t) \/ HC!Report(t)
  \/ HC!Destroy \/ HC!LogoutDevice \/ HC!Cleanup \/ HC!Restart

LEMMA StepCases == [Next]_vars => StepOfClient \/ UNCHANGED clientVars
<1>1. ASSUME Main PROVE StepOfClient \/ UNCHANGED clientVars
  BY <1>1 DEF Main, NoConfigFile, NewHikmqtt, ReadConfig, DeleteHikmqtt, Connect, LoopStart,
     Construct, AddSource, EndOfDevices, WaitDequeue, Publish, Free, LockHeap, StepOfClient
<1>2. ASSUME NEW t \in SdkThreads, Raise(t) \/ Lookup(t) \/ Report(t) PROVE StepOfClient
  BY <1>2 DEF Raise, Lookup, Report, StepOfClient
<1>3. ASSUME LoopThreadStep PROVE UNCHANGED clientVars
  BY <1>3 DEF LoopThreadStep, LinkLost, Reconnect, Receive, Dispatch, Operate, Reply
<1>4. ASSUME Signal \/ Handler \/ SecondSignal \/ Restart
      PROVE  StepOfClient \/ UNCHANGED clientVars
  BY <1>4 DEF Signal, Handler, HandlerDelete, HandlerLogout, HandlerCleanup, HandlerExit,
     SecondSignal, Restart, StepOfClient, clientVars
<1> QED BY <1>1, <1>2, <1>3, <1>4 DEF Next, vars

\* By the form of the actions: what holds of HikClient may be used here.
LEMMA StepMaps == [Next]_vars => [HCP!Next]_(HCP!vars)
<1>1. StepOfClient => HCP!Next
  BY MainActions, SdkActions, DestructorActions
     DEF StepOfClient, HCP!Next, HCP!Callback, HCP!Destructor
<1>2. UNCHANGED clientVars => UNCHANGED HCP!vars
  BY DEF clientVars, HCP!vars, HCP!main, HCP!sdk
<1> QED BY <1>1, <1>2, StepCases

LEMMA ClientInv == Spec => []HCP!IInv
<1>1. Spec => HCP!Spec
  BY StepMaps, InitMaps, PTL DEF Spec, HCP!Spec
<1>2. HCP!Spec => []HCP!IInv
  BY DevicesAssumption, UserIdsAssumption, HCP!IInvHolds
<1> QED BY <1>1, <1>2, PTL

-----------------------------------------------------------------------------
(* The invariant.                                                          *)

Working == client \in {"live", "closing"}

\* The stages of main() and of the handler, and what there is of the client.
Stages ==
  /\ pc \in {"boot", "read_config", "delete", "connect", "loop_start", "construct"}
       => client = "none"
  /\ pc \in {"add", "wait", "publish", "free"} => client # "none"
  /\ pc \in {"wait", "publish", "free"} => it \notin Cameras
  /\ client = "closing" => handler = "logout"
  /\ client = "gone" => handler = "exit"

Faults ==
  /\ fault = "freed client" => client = "gone"
  /\ crash = "no client" => client = "none"
  /\ crash \in {"freed client", "double delete"} => client = "gone"
  /\ crash # "null device"

\* Each entry names its camera, as the SDK and the callbacks under way know it.
EntriesNamed ==
  /\ \A i \in DOMAIN lDevices : lDevices[i].devId = Devices[lDevices[i].cam]
  /\ Working => \A i \in DOMAIN lDevices :
       LET d == lDevices[i] IN
         /\ d.userId \in armed => owner[d.userId] = d.cam
         /\ \A t \in SdkThreads :
              callback[t].at = "lookup" /\ callback[t].userId = d.userId =>
                callback[t].cam = d.cam

CallbacksNamed ==
  \A t \in SdkThreads :
    callback[t].at = "report" => callback[t].devId = Devices[callback[t].cam]

Named(m) == m.cam # NoCamera => m.devId = Devices[m.cam]
MessagesNamed ==
  /\ \A t \in Threads : \A i \in DOMAIN queue[t] : Named(queue[t][i])
  /\ alert \in Message => Named(alert)

\* A command on its way to the SDK has the user id of an entry.
CommandKnown ==
  cmd.at = "operate" =>
    /\ client # "none"
    /\ Working /\ cmd.name = "by user id" =>
         \E i \in DOMAIN lDevices :
           lDevices[i].userId = cmd.userId /\ lDevices[i].devId = cmd.devId

\* The messages of t that were taken out of the queue.
Taken(t) == handled[t] + IF pc = "publish" /\ alert.from = t THEN 1 ELSE 0

Numbered ==
  pc # "exited" =>
    /\ pc = "publish" => alert \in Message /\ alert.n = handled[alert.from] + 1
    /\ \A t \in Threads :
         /\ reported[t] = Taken(t) + Len(queue[t])
         /\ \A i \in DOMAIN queue[t] :
              queue[t][i].from = t /\ queue[t][i].n = Taken(t) + i

\* Whoever is going to report has a number left.
NumbersLeft ==
  /\ \A t \in SdkThreads : callback[t] # HCP!Quiet => reported[t] < MaxReports[t]
  /\ cmd # Idle => reported[LoopThread] < MaxReports[LoopThread]

IInv ==
  /\ OwnTypeOK /\ Stages /\ Faults
  /\ EntriesNamed /\ CallbacksNamed /\ MessagesNamed /\ CommandKnown
  /\ Numbered /\ NumbersLeft

-----------------------------------------------------------------------------
(* Initial states.                                                         *)

LEMMA InitInv == Init => IInv
<1> SUFFICES ASSUME Init PROVE IInv
  OBVIOUS
<1> USE DEF Init, InitBridge, HC!Init, MQ!Init
<1>1. OwnTypeOK
  <2>1. << >> \in Seq(Message)
    BY EmptySeq
  <2>2. \A t \in Threads : reported[t] <= MaxReports[t] /\ handled[t] <= MaxReports[t]
    BY MaxReportsAssumption
  <2> QED BY <2>1, <2>2 DEF OwnTypeOK
<1>2. Stages /\ Faults
  BY DEF Stages, Faults
<1>3. EntriesNamed /\ CallbacksNamed /\ CommandKnown
  BY DEF EntriesNamed, CallbacksNamed, CommandKnown, Working, HC!Quiet, Idle
<1>4. MessagesNamed
  BY NoMessageAssumption DEF MessagesNamed
<1>5. Numbered
  BY DEF Numbered, Taken
<1>6. NumbersLeft
  BY DEF NumbersLeft, HC!Quiet, HCP!Quiet
<1> QED BY <1>1, <1>2, <1>3, <1>4, <1>5, <1>6 DEF IInv

-----------------------------------------------------------------------------
(* Steps.                                                                  *)

\* The steps of the main thread that only move its program counter.
Walk ==
  NoConfigFile \/ NewHikmqtt \/ ReadConfig \/ DeleteHikmqtt \/ Connect \/ LoopStart
  \/ EndOfDevices \/ Free \/ LockHeap

LEMMA NextCases ==
  ASSUME [Next]_vars
  PROVE  \/ Walk \/ Construct \/ AddSource \/ WaitDequeue \/ Publish
         \/ \E t \in SdkThreads : Raise(t) \/ Lookup(t) \/ Report(t)
         \/ LinkLost \/ Reconnect \/ Receive \/ Dispatch \/ Operate \/ Reply
         \/ Signal \/ HandlerDelete \/ HandlerLogout \/ HandlerCleanup \/ HandlerExit
         \/ SecondSignal \/ Restart \/ UNCHANGED vars
BY DEF Next, Main, Walk, LoopThreadStep, Handler

LEMMA WalkFrame ==
  ASSUME Walk
  PROVE  /\ UNCHANGED <<clientVars, queue, alert, handler, cmd, reported, handled>>
         /\ Alive
BY DEF Walk, NoConfigFile, NewHikmqtt, ReadConfig, DeleteHikmqtt, Connect, LoopStart,
   EndOfDevices, Free, LockHeap, At, queueVars, counts

LEMMA StagesStep ==
  ASSUME OwnTypeOK, Stages, HCP!IInv, [Next]_vars
  PROVE  Stages'
<1> USE DEF Stages
<1>1. CASE Walk
  BY <1>1 DEF Walk, NoConfigFile, NewHikmqtt, ReadConfig, DeleteHikmqtt, Connect, LoopStart,
     EndOfDevices, Free, LockHeap, At, clientVars
<1>2. CASE Construct
  BY <1>2 DEF Construct, HC!Construct, HC!main, At
<1>3. CASE AddSource
  BY <1>3 DEF AddSource, At, HC!AddSource, HC!LoginOk, HC!LoginFails, HC!ArmOk, HC!ArmFails,
     HC!LogoutRefused, HC!Register
<1>4. CASE WaitDequeue \/ Publish
  BY <1>4 DEF WaitDequeue, Publish, At, clientVars
<1>5. ASSUME NEW t \in SdkThreads, Raise(t) \/ Lookup(t) \/ Report(t) PROVE Stages'
  BY <1>5 DEF Raise, Lookup, Report, HC!Raise, HC!Lookup, HC!Report, HC!main, mainVars
<1>6. CASE LinkLost \/ Reconnect \/ Receive \/ Dispatch \/ Operate \/ Reply
  BY <1>6 DEF LinkLost, Reconnect, Receive, Dispatch, Operate, Reply, mainVars, clientVars
<1>7. CASE Signal
  BY <1>7 DEF Signal, clientVars
<1>8. CASE HandlerDelete
  BY <1>8 DEF HandlerDelete, HC!Destroy, HC!main, clientVars
<1>9. CASE HandlerLogout
  BY <1>9 DEF HandlerLogout, HC!LogoutDevice, HC!main, mainVars
<1>10. CASE HandlerCleanup
  BY <1>10 DEF HandlerCleanup, HC!Cleanup, HC!main
<1>11. CASE HandlerExit
  BY <1>11 DEF HandlerExit, clientVars
<1>12. CASE SecondSignal
  BY <1>12 DEF SecondSignal, mainVars, clientVars
<1>13. CASE Restart
  BY <1>13 DEF Restart, HC!Restart
<1>14. CASE UNCHANGED vars
  BY <1>14 DEF vars, mainVars, clientVars
<1> QED BY <1>1, <1>2, <1>3, <1>4, <1>5, <1>6, <1>7, <1>8, <1>9, <1>10, <1>11, <1>12,
           <1>13, <1>14, NextCases

LEMMA FaultsStep ==
  ASSUME OwnTypeOK, Stages, Faults, HCP!IInv, [Next]_vars
  PROVE  Faults'
<1> USE DEF Faults
<1>1. CASE Walk
  BY <1>1 DEF Walk, NoConfigFile, NewHikmqtt, ReadConfig, DeleteHikmqtt, Connect, LoopStart,
     EndOfDevices, Free, LockHeap, At, Alive, clientVars, Stages
<1>2. CASE Construct
  BY <1>2 DEF Construct, HC!Construct, At, Alive, HC!Alive
<1>3. CASE AddSource
  BY <1>3 DEF AddSource, At, Alive, HC!Alive, HC!AddSource, HC!LoginOk, HC!LoginFails,
     HC!ArmOk, HC!ArmFails, HC!LogoutRefused, HC!Register
<1>4. CASE WaitDequeue \/ Publish
  BY <1>4 DEF WaitDequeue, Publish, clientVars
<1>5. ASSUME NEW t \in SdkThreads, Raise(t) \/ Lookup(t) \/ Report(t) PROVE Faults'
  BY <1>5 DEF Raise, Lookup, Report, HC!Raise, HC!Lookup, HC!Report, Alive
<1>6. CASE LinkLost \/ Reconnect \/ Receive \/ Dispatch \/ Operate \/ Reply
  BY <1>6 DEF LinkLost, Reconnect, Receive, Dispatch, Operate, Reply, clientVars
<1>7. CASE Signal
  BY <1>7 DEF Signal, clientVars
<1>8. CASE HandlerDelete
  BY <1>8 DEF HandlerDelete, HC!Destroy, Alive, clientVars
<1>9. CASE HandlerLogout
  BY <1>9 DEF HandlerLogout, HC!LogoutDevice
<1>10. CASE HandlerCleanup
  BY <1>10 DEF HandlerCleanup, HC!Cleanup, Alive
<1>11. CASE HandlerExit
  BY <1>11 DEF HandlerExit, clientVars
<1>12. CASE SecondSignal
  BY <1>12 DEF SecondSignal, clientVars
<1>13. CASE Restart
  BY <1>13 DEF Restart, HC!Restart
<1>14. CASE UNCHANGED vars
  BY <1>14 DEF vars, clientVars
<1> QED BY <1>1, <1>2, <1>3, <1>4, <1>5, <1>6, <1>7, <1>8, <1>9, <1>10, <1>11, <1>12,
           <1>13, <1>14, NextCases

LEMMA CallbackType ==
  ASSUME HCP!IInv, NEW t \in SdkThreads
  PROVE  /\ callback[t].at = "report" =>
              callback[t].devId \in DevIds /\ callback[t].cam \in Cameras
         /\ callback[t].at = "lookup" =>
              callback[t].userId \in UserIds /\ callback[t].cam \in Cameras
         /\ callback[t].at \in {"lookup", "report"} => callback[t] # HCP!Quiet
<1>1. callback[t] \in {HCP!Quiet} \cup HCP!Entering \cup HCP!Reporting
  BY DEF HCP!IInv, HCP!TypeOK
<1>2. CASE callback[t] = HCP!Quiet
  BY <1>2 DEF HCP!Quiet
<1>3. CASE callback[t] \in HCP!Entering
  BY <1>3 DEF HCP!Quiet, HCP!Entering, HCP!Cameras, Cameras
<1>4. CASE callback[t] \in HCP!Reporting
  BY <1>4 DEF HCP!Quiet, HCP!Reporting, HCP!Cameras, Cameras
<1> QED BY <1>1, <1>2, <1>3, <1>4

LEMMA CmdType ==
  ASSUME OwnTypeOK
  PROVE  /\ cmd.at \in {"dispatch", "operate", "reply"} => cmd # Idle /\ cmd.devId \in DevIds
         /\ cmd.at \in {"dispatch", "operate"} => cmd.name \in Commands
<1>1. cmd \in {Idle} \cup Received \cup Executing \cup Replying
  BY DEF OwnTypeOK
<1>2. CASE cmd = Idle
  BY <1>2 DEF Idle
<1>3. CASE cmd \in Received \cup Replying
  BY <1>3 DEF Idle, Received, Replying
<1>4. CASE cmd \in Executing
  BY <1>4 DEF Idle, Executing
<1> QED BY <1>1, <1>2, <1>3, <1>4

\* What Enqueue puts into the queue.
LEMMA MessageType ==
  ASSUME OwnTypeOK, NEW t \in Threads, NEW d \in DevIds, NEW c \in Cameras \cup {NoCamera}
  PROVE  [from |-> t, n |-> reported[t] + 1, devId |-> d, cam |-> c] \in Message
<1>0. reported[t] \in Nat
  BY DEF OwnTypeOK
<1>1. reported[t] + 1 \in Nat \ {0}
  BY <1>0
<1> QED BY <1>1 DEF Message

\* The queue and the counts.
LEMMA NumberedStep ==
  ASSUME OwnTypeOK, Numbered, NumbersLeft, HCP!IInv, [Next]_vars
  PROVE  Numbered'
<1>0. ASSUME NEW t \in Threads
      PROVE  /\ queue[t] \in Seq(Message) /\ Len(queue[t]) \in Nat
             /\ handled[t] \in Nat /\ reported[t] \in Nat
  <2>1. queue[t] \in Seq(Message)
    BY <1>0 DEF OwnTypeOK
  <2>2. handled[t] \in Nat /\ reported[t] \in Nat
    BY <1>0 DEF OwnTypeOK
  <2> QED BY <2>1, <2>2
<1>1. CASE UNCHANGED <<queue, alert, reported, handled>>
           /\ (pc' = pc \/ pc' = "exited" \/ (pc # "exited" /\ {pc, pc'} \cap {"publish"} = {}))
  BY <1>1 DEF Numbered, Taken
<1>2. CASE WaitDequeue
  <2>0. PICK t \in Threads : MQ!Dequeue(t)
    BY <1>2 DEF WaitDequeue
  <2>1. /\ queue[t] # << >> /\ alert' = Head(queue[t])
        /\ queue' = [queue EXCEPT ![t] = Tail(@)]
        /\ pc = "wait" /\ pc' = "publish" /\ UNCHANGED <<reported, handled>>
    BY <2>0, <1>2 DEF MQ!Dequeue, WaitDequeue, At, counts
  <2>2. /\ Head(queue[t]) = queue[t][1] /\ 1 \in DOMAIN queue[t] /\ queue[t][1] \in Message
        /\ Tail(queue[t]) \in Seq(Message) /\ Len(Tail(queue[t])) = Len(queue[t]) - 1
        /\ \A i \in DOMAIN Tail(queue[t]) :
             i + 1 \in DOMAIN queue[t] /\ Tail(queue[t])[i] = queue[t][i + 1] /\ i \in Int
    BY <2>1, <1>0
  <2>3. alert' \in Message /\ alert'.from = t /\ alert'.n = handled[t] + 1
    BY <2>1, <2>2, <1>0 DEF Numbered, Taken
  <2>4. ASSUME NEW u \in Threads
        PROVE  /\ reported'[u] = Taken(u)' + Len(queue'[u])
               /\ \A i \in DOMAIN queue'[u] :
                    queue'[u][i].from = u /\ queue'[u][i].n = Taken(u)' + i
    <3>1. CASE u = t
      <4>1. queue'[u] = Tail(queue[t])
        BY <2>1, <3>1 DEF OwnTypeOK
      <4>2. Taken(u) = handled[t] /\ Taken(u)' = handled[t] + 1
        BY <2>1, <2>3, <3>1, <1>0 DEF Taken
      <4>3. /\ reported[t] = handled[t] + Len(queue[t])
            /\ \A i \in DOMAIN queue[t] : queue[t][i].from = t /\ queue[t][i].n = handled[t] + i
        BY <4>2, <3>1, <2>1 DEF Numbered
      <4>4. reported'[u] = Taken(u)' + Len(queue'[u])
        <5>1. reported'[u] = reported[t]
          BY <2>1, <3>1
        <5>2. Len(queue'[u]) = Len(queue[t]) - 1
          BY <4>1, <2>2
        <5>3. Len(queue[t]) \in Nat /\ handled[t] \in Nat /\ Taken(u)' = handled[t] + 1
          BY <1>0, <4>2
        <5>4. reported[t] = handled[t] + Len(queue[t])
          BY <4>3
        <5>5. \A a, b \in Nat : a + b = (a + 1) + (b - 1)
          OBVIOUS
        <5>6. reported[t] = (handled[t] + 1) + (Len(queue[t]) - 1)
          BY <5>3, <5>4, <5>5
        <5> QED BY ONLY <5>1, <5>2, <5>3, <5>6
      <4>5. ASSUME NEW i \in DOMAIN queue'[u]
            PROVE  queue'[u][i].from = u /\ queue'[u][i].n = Taken(u)' + i
        <5>1. i + 1 \in DOMAIN queue[t] /\ queue'[u][i] = queue[t][i + 1] /\ i \in Int
          BY <4>1, <4>5, <2>2
        <5>2. queue[t][i + 1].from = t /\ queue[t][i + 1].n = handled[t] + (i + 1)
          BY <5>1, <4>3
        <5>3. handled[t] \in Nat /\ Taken(u)' = handled[t] + 1
          BY <1>0, <4>2
        <5> QED BY <5>1, <5>2, <5>3, <3>1
      <4> QED BY <4>4, <4>5
    <3>2. CASE u # t
      <4>1. queue'[u] = queue[u]
        BY <2>1, <3>2 DEF OwnTypeOK
      <4>2. Taken(u)' = Taken(u)
        BY <2>1, <2>3, <3>2, <1>0 DEF Taken
      <4> QED BY <4>1, <4>2, <2>1 DEF Numbered
    <3> QED BY <3>1, <3>2
  <2> QED BY <2>1, <2>3, <2>4 DEF Numbered
<1>3. CASE Publish
  <2>1. /\ pc = "publish" /\ pc' = "free" /\ UNCHANGED <<queue, alert, reported>>
        /\ handled' = [handled EXCEPT ![alert.from] = alert.n]
    BY <1>3 DEF Publish, At, queueVars
  <2>2. alert \in Message /\ alert.n = handled[alert.from] + 1 /\ alert.from \in Threads
    BY <2>1 DEF Numbered, Message
  <2>3. ASSUME NEW t \in Threads PROVE Taken(t)' = Taken(t)
    <3>1. handled'[t] = IF alert.from = t THEN handled[t] + 1 ELSE handled[t]
      BY <2>1, <2>2 DEF OwnTypeOK
    <3>2. Taken(t)' = handled'[t] + 0
      BY <2>1 DEF Taken
    <3>3. Taken(t) = handled[t] + IF alert.from = t THEN 1 ELSE 0
      BY <2>1 DEF Taken
    <3> QED BY <3>1, <3>2, <3>3, <1>0
  <2> QED BY <2>1, <2>3 DEF Numbered
<1>4. ASSUME NEW t \in Threads, NEW m, m.from = t, m.n = reported[t] + 1, m \in Message,
             MQ!Enqueue(t, m), reported' = [reported EXCEPT ![t] = @ + 1],
             UNCHANGED <<pc, handled>>
      PROVE  Numbered'
  <2>1. queue' = [queue EXCEPT ![t] = Append(queue[t], m)] /\ alert' = alert
    BY <1>4 DEF MQ!Enqueue
  <2>2. \A u \in Threads : Taken(u)' = Taken(u)
    BY <2>1, <1>4 DEF Taken
  <2>3. ASSUME pc # "exited", NEW u \in Threads
        PROVE  /\ reported'[u] = Taken(u)' + Len(queue'[u])
               /\ \A i \in DOMAIN queue'[u] :
                    queue'[u][i].from = u /\ queue'[u][i].n = Taken(u)' + i
    <3>0. /\ reported[u] = Taken(u) + Len(queue[u])
          /\ \A i \in DOMAIN queue[u] : queue[u][i].from = u /\ queue[u][i].n = Taken(u) + i
          /\ Taken(u) \in Int
      BY <2>3, <1>0 DEF Numbered, Taken
    <3>1. CASE u = t
      <4>1. queue'[u] = Append(queue[t], m) /\ reported'[u] = reported[t] + 1
        BY <2>1, <1>4, <3>1 DEF OwnTypeOK
      <4>2. /\ Len(Append(queue[t], m)) = Len(queue[t]) + 1
            /\ DOMAIN Append(queue[t], m) = 1 .. Len(queue[t]) + 1
            /\ \A i \in 1 .. Len(queue[t]) : Append(queue[t], m)[i] = queue[t][i]
            /\ Append(queue[t], m)[Len(queue[t]) + 1] = m
            /\ DOMAIN queue[t] = 1 .. Len(queue[t])
        BY <1>0
      <4>3. \A i \in 1 .. Len(queue[t]) + 1 : i \in 1 .. Len(queue[t]) \/ i = Len(queue[t]) + 1
        BY <1>0
      <4> QED BY <4>1, <4>2, <4>3, <2>2, <3>0, <3>1, <1>0, <1>4
    <3>2. CASE u # t
      BY <2>1, <2>2, <1>4, <3>0, <3>2 DEF OwnTypeOK
    <3> QED BY <3>1, <3>2
  <2>4. pc = "publish" => alert \in Message /\ alert.n = handled[alert.from] + 1
    BY DEF Numbered
  <2> QED BY <2>1, <2>2, <2>3, <2>4, <1>4 DEF Numbered
<1>5. ASSUME NEW t \in SdkThreads, Report(t) PROVE Numbered'
  <2>1. t \in Threads /\ callback[t].devId \in DevIds /\ callback[t].cam \in Cameras
    BY <1>5, CallbackType DEF Report, HC!Report, Threads
  <2> QED BY <1>4, <1>5, <2>1, MessageType DEF Report, Enqueue, mainVars
<1>6. CASE Reply
  <2>1. LoopThread \in Threads /\ cmd.devId \in DevIds
    BY <1>6, CmdType DEF Reply, Threads
  <2> QED BY <1>4, <1>6, <2>1, MessageType DEF Reply, Enqueue, mainVars
<1>7. CASE Walk
  BY <1>7, <1>1 DEF Walk, NoConfigFile, NewHikmqtt, ReadConfig, DeleteHikmqtt, Connect, LoopStart,
     EndOfDevices, Free, LockHeap, At, queueVars, counts
<1>8. CASE Construct \/ AddSource
  BY <1>8, <1>1 DEF Construct, AddSource, At, queueVars, counts
<1>9. ASSUME NEW t \in SdkThreads, Raise(t) \/ Lookup(t) PROVE Numbered'
  BY <1>9, <1>1 DEF Raise, Lookup, queueVars, counts, mainVars
<1>10. CASE LinkLost \/ Reconnect \/ Receive \/ Dispatch \/ Operate
  BY <1>10, <1>1 DEF LinkLost, Reconnect, Receive, Dispatch, Operate, queueVars, counts, mainVars
<1>11. CASE Signal \/ HandlerDelete \/ HandlerLogout \/ HandlerCleanup \/ HandlerExit
            \/ SecondSignal
  BY <1>11, <1>1 DEF Signal, HandlerDelete, HandlerLogout, HandlerCleanup, HandlerExit,
     SecondSignal, queueVars, counts, mainVars
<1>12. CASE Restart
  BY <1>12 DEF Restart, Numbered, Taken
<1>13. CASE UNCHANGED vars
  BY <1>13, <1>1 DEF vars, mainVars, queueVars, counts
<1> QED BY <1>2, <1>3, <1>5, <1>6, <1>7, <1>8, <1>9, <1>10, <1>11, <1>12, <1>13, NextCases

\* The SDK's callbacks change only on the SDK's threads, and with a restart.
LEMMA CallbackFrame ==
  ASSUME [Next]_vars
  PROVE  \/ UNCHANGED callback \/ Restart
         \/ \E t \in SdkThreads : Raise(t) \/ Lookup(t) \/ Report(t)
<1>1. CASE Walk
  BY <1>1, WalkFrame DEF clientVars
<1>2. CASE Construct \/ AddSource \/ WaitDequeue \/ Publish
  BY <1>2 DEF Construct, HC!Construct, AddSource, HC!AddSource, HC!LoginOk, HC!LoginFails,
     HC!ArmOk, HC!ArmFails, HC!LogoutRefused, HC!Register, WaitDequeue, Publish, clientVars
<1>3. CASE LinkLost \/ Reconnect \/ Receive \/ Dispatch \/ Operate \/ Reply
  BY <1>3 DEF LinkLost, Reconnect, Receive, Dispatch, Operate, Reply, clientVars
<1>4. CASE Signal \/ HandlerDelete \/ HandlerLogout \/ HandlerCleanup \/ HandlerExit
           \/ SecondSignal \/ UNCHANGED vars
  BY <1>4 DEF Signal, HandlerDelete, HC!Destroy, HandlerLogout, HC!LogoutDevice,
     HandlerCleanup, HC!Cleanup, HandlerExit, SecondSignal, vars, clientVars
<1> QED BY <1>1, <1>2, <1>3, <1>4, NextCases

\* Neither does the command, off the loop thread, ...
LEMMA CmdFrame ==
  ASSUME [Next]_vars
  PROVE  UNCHANGED cmd \/ Receive \/ Dispatch \/ Operate \/ Reply \/ Restart
<1>1. CASE Walk
  BY <1>1, WalkFrame
<1>2. CASE Construct \/ AddSource \/ WaitDequeue \/ Publish \/ LinkLost \/ Reconnect
  BY <1>2 DEF Construct, AddSource, WaitDequeue, Publish, LinkLost, Reconnect
<1>3. ASSUME NEW t \in SdkThreads, Raise(t) \/ Lookup(t) \/ Report(t) PROVE UNCHANGED cmd
  BY <1>3 DEF Raise, Lookup, Report
<1>4. CASE Signal \/ HandlerDelete \/ HandlerLogout \/ HandlerCleanup \/ HandlerExit
           \/ SecondSignal \/ UNCHANGED vars
  BY <1>4 DEF Signal, HandlerDelete, HandlerLogout, HandlerCleanup, HandlerExit,
     SecondSignal, vars
<1> QED BY <1>1, <1>2, <1>3, <1>4, NextCases

\* ... nor the queue, except by a report or by run().
LEMMA QueueFrame ==
  ASSUME [Next]_vars
  PROVE  \/ UNCHANGED <<queue, alert, reported>> \/ WaitDequeue \/ Reply \/ Restart
         \/ \E t \in SdkThreads : Report(t)
<1>1. CASE Walk
  BY <1>1, WalkFrame
<1>2. CASE Construct \/ AddSource \/ Publish \/ LinkLost \/ Reconnect
  BY <1>2 DEF Construct, AddSource, Publish, LinkLost, Reconnect, queueVars, counts
<1>3. ASSUME NEW t \in SdkThreads, Raise(t) \/ Lookup(t)
      PROVE  UNCHANGED <<queue, alert, reported>>
  BY <1>3 DEF Raise, Lookup, queueVars, counts
<1>4. CASE Receive \/ Dispatch \/ Operate
  BY <1>4 DEF Receive, Dispatch, Operate, queueVars, counts
<1>5. CASE Signal \/ HandlerDelete \/ HandlerLogout \/ HandlerCleanup \/ HandlerExit
           \/ SecondSignal \/ UNCHANGED vars
  BY <1>5 DEF Signal, HandlerDelete, HandlerLogout, HandlerCleanup, HandlerExit,
     SecondSignal, vars, queueVars, counts
<1> QED BY <1>1, <1>2, <1>3, <1>4, <1>5, NextCases

LEMMA NumbersLeftStep ==
  ASSUME OwnTypeOK, NumbersLeft, HCP!IInv, [Next]_vars
  PROVE  NumbersLeft'
<1>0. /\ callback \in [SdkThreads -> {HCP!Quiet} \cup HCP!Entering \cup HCP!Reporting]
      /\ reported \in [Threads -> Nat] /\ MaxReports \in [Threads -> Nat \ {0}]
  BY MaxReportsAssumption DEF HCP!IInv, HCP!TypeOK, OwnTypeOK
<1>1. LoopThread \in Threads /\ SdkThreads \subseteq Threads /\ LoopThread \notin SdkThreads
  BY LoopThreadAssumption DEF Threads
<1>2. CASE Restart
  BY <1>2 DEF Restart, HC!Restart, NumbersLeft, HC!Quiet, HCP!Quiet
<1>3. ASSUME ~Restart, NEW t \in SdkThreads, callback'[t] # HCP!Quiet
      PROVE  reported'[t] < MaxReports[t]
  <2>1. reported'[t] = reported[t]
    <3>1. CASE Reply
      BY <3>1, <1>0, <1>1, <1>3 DEF Reply, Enqueue
    <3>2. ASSUME NEW u \in SdkThreads, Report(u) PROVE reported'[t] = reported[t]
      <4>1. callback' = [callback EXCEPT ![u] = HCP!Quiet]
        BY <3>2 DEF Report, HC!Report, HC!Quiet, HCP!Quiet
      <4>2. u # t
        BY <4>1, <1>0, <1>3
      <4> QED BY <4>2, <3>2, <1>0, <1>1 DEF Report, Enqueue
    <3>3. CASE WaitDequeue
      BY <3>3 DEF WaitDequeue, counts
    <3> QED BY <3>1, <3>2, <3>3, <1>3, QueueFrame
  <2>2. CASE callback'[t] = callback[t]
    BY <2>1, <2>2, <1>3 DEF NumbersLeft
  <2>3. CASE Raise(t)
    BY <2>1, <2>3 DEF Raise
  <2>4. CASE Lookup(t)
    BY <2>1, <2>4, CallbackType DEF Lookup, HC!Lookup, NumbersLeft
  <2>5. CASE Report(t)
    BY <2>5, <1>3, <1>0 DEF Report, HC!Report, HC!Quiet, HCP!Quiet
  <2>6. ASSUME NEW u \in SdkThreads, u # t, Raise(u) \/ Lookup(u) \/ Report(u)
        PROVE  callback'[t] = callback[t]
    BY <2>6, <1>0 DEF Raise, HC!Raise, Lookup, HC!Lookup, Report, HC!Report
  <2> QED BY <2>2, <2>3, <2>4, <2>5, <2>6, <1>3, CallbackFrame
<1>4. ASSUME ~Restart, cmd' # Idle
      PROVE  reported'[LoopThread] < MaxReports[LoopThread]
  <2>1. ~Reply
    BY <1>4 DEF Reply
  <2>2. reported'[LoopThread] = reported[LoopThread]
    <3>1. ASSUME NEW u \in SdkThreads, Report(u)
          PROVE  reported'[LoopThread] = reported[LoopThread]
      BY <3>1, <1>0, <1>1 DEF Report, Enqueue
    <3>2. CASE WaitDequeue
      BY <3>2 DEF WaitDequeue, counts
    <3> QED BY <2>1, <3>1, <3>2, <1>4, QueueFrame
  <2>3. CASE Receive
    BY <2>2, <2>3 DEF Receive
  <2>4. CASE Dispatch \/ Operate
    BY <2>2, <2>4, CmdType DEF Dispatch, Operate, NumbersLeft
  <2>5. CASE UNCHANGED cmd
    BY <2>2, <2>5, <1>4 DEF NumbersLeft
  <2> QED BY <2>1, <2>3, <2>4, <2>5, <1>4, CmdFrame
<1> QED BY <1>2, <1>3, <1>4 DEF NumbersLeft

LEMMA QueueType ==
  ASSUME OwnTypeOK, NumbersLeft, HCP!IInv, [Next]_vars
  PROVE  /\ queue' \in [Threads -> Seq(Message)] /\ alert' \in Message \cup {NoMessage}
         /\ reported' \in [Threads -> Nat]
         /\ \A t \in Threads : reported'[t] <= MaxReports[t]
<1> DEFINE Goal == /\ queue' \in [Threads -> Seq(Message)]
                   /\ alert' \in Message \cup {NoMessage}
                   /\ reported' \in [Threads -> Nat]
                   /\ \A t \in Threads : reported'[t] <= MaxReports[t]
<1>0. /\ queue \in [Threads -> Seq(Message)] /\ alert \in Message \cup {NoMessage}
      /\ reported \in [Threads -> Nat] /\ MaxReports \in [Threads -> Nat \ {0}]
      /\ \A t \in Threads : reported[t] <= MaxReports[t]
  BY MaxReportsAssumption DEF OwnTypeOK
<1>1. CASE UNCHANGED <<queue, alert, reported>>
  BY <1>0, <1>1
<1>2. CASE WaitDequeue
  <2>1. PICK t \in Threads : MQ!Dequeue(t)
    BY <1>2 DEF WaitDequeue
  <2>2. queue[t] \in Seq(Message) /\ queue[t] # << >>
    BY <1>0, <2>1 DEF MQ!Dequeue
  <2>3. Head(queue[t]) \in Message /\ Tail(queue[t]) \in Seq(Message)
    BY <2>2
  <2> QED BY <1>0, <1>2, <2>1, <2>3 DEF MQ!Dequeue, WaitDequeue, counts
<1>3. ASSUME NEW t \in Threads, NEW d \in DevIds, NEW c \in Cameras \cup {NoCamera},
             Enqueue(t, d, c), reported[t] < MaxReports[t]
      PROVE  Goal
  <2> DEFINE m == [from |-> t, n |-> reported[t] + 1, devId |-> d, cam |-> c]
  <2>1. m \in Message
    BY MessageType
  <2>2. /\ queue' = [queue EXCEPT ![t] = Append(queue[t], m)] /\ alert' = alert
        /\ reported' = [reported EXCEPT ![t] = @ + 1]
    BY <1>3 DEF Enqueue, MQ!Enqueue
  <2>3. queue[t] \in Seq(Message) /\ reported[t] + 1 \in Nat /\ reported[t] + 1 <= MaxReports[t]
    BY <1>0, <1>3
  <2>4. Append(queue[t], m) \in Seq(Message)
    <3> HIDE DEF m
    <3> QED BY <2>1, <2>3
  <2>5. queue' \in [Threads -> Seq(Message)]
    <3> HIDE DEF m
    <3> QED BY <2>2, <2>4, <1>0
  <2>6. reported' \in [Threads -> Nat] /\ \A u \in Threads : reported'[u] <= MaxReports[u]
    BY <2>2, <2>3, <1>0
  <2> QED BY <2>2, <2>5, <2>6, <1>0
<1>4. ASSUME NEW t \in SdkThreads, Report(t) PROVE Goal
  <2>1. /\ t \in Threads /\ callback[t].devId \in DevIds /\ callback[t].cam \in Cameras
        /\ callback[t] # HCP!Quiet
    BY <1>4, CallbackType DEF Report, HC!Report, Threads
  <2> QED BY <1>3, <1>4, <2>1 DEF Report, NumbersLeft
<1>5. CASE Reply
  <2>1. LoopThread \in Threads /\ cmd.devId \in DevIds /\ cmd # Idle
    BY <1>5, CmdType DEF Reply, Threads
  <2> QED BY <1>3, <1>5, <2>1 DEF Reply, NumbersLeft
<1>6. CASE Restart
  <2>1. << >> \in Seq(Message)
    BY EmptySeq
  <2> QED BY <2>1, <1>6, <1>0 DEF Restart
<1> QED BY <1>1, <1>2, <1>4, <1>5, <1>6, QueueFrame

\* The counts of what run() was done with change when it is done with a message.
LEMMA HandledFrame ==
  ASSUME [Next]_vars
  PROVE  UNCHANGED handled \/ Publish \/ Restart
<1>1. CASE Walk
  BY <1>1, WalkFrame
<1>2. CASE Construct \/ AddSource \/ WaitDequeue \/ LinkLost \/ Reconnect \/ Receive
           \/ Dispatch \/ Operate \/ Reply
  BY <1>2 DEF Construct, AddSource, WaitDequeue, LinkLost, Reconnect, Receive, Dispatch,
     Operate, Reply, counts
<1>3. ASSUME NEW t \in SdkThreads, Raise(t) \/ Lookup(t) \/ Report(t) PROVE UNCHANGED handled
  BY <1>3 DEF Raise, Lookup, Report, counts
<1>4. CASE Signal \/ HandlerDelete \/ HandlerLogout \/ HandlerCleanup \/ HandlerExit
           \/ SecondSignal \/ UNCHANGED vars
  BY <1>4 DEF Signal, HandlerDelete, HandlerLogout, HandlerCleanup, HandlerExit,
     SecondSignal, vars, counts
<1> QED BY <1>1, <1>2, <1>3, <1>4, NextCases

LEMMA HandledType ==
  ASSUME OwnTypeOK, Numbered, [Next]_vars
  PROVE  /\ handled' \in [Threads -> Nat]
         /\ \A t \in Threads : handled'[t] <= MaxReports[t]
<1>0. /\ handled \in [Threads -> Nat] /\ reported \in [Threads -> Nat]
      /\ MaxReports \in [Threads -> Nat \ {0}]
      /\ \A t \in Threads : reported[t] <= MaxReports[t] /\ handled[t] <= MaxReports[t]
  BY MaxReportsAssumption DEF OwnTypeOK
<1>1. CASE Publish
  <2>1. alert \in Message /\ alert.n = handled[alert.from] + 1 /\ alert.from \in Threads
    BY <1>1 DEF Publish, At, Numbered, Message
  <2>2. reported[alert.from] = (handled[alert.from] + 1) + Len(queue[alert.from])
    BY <1>1, <2>1 DEF Publish, At, Numbered, Taken
  <2>3. Len(queue[alert.from]) \in Nat
    <3>1. queue[alert.from] \in Seq(Message)
      BY <2>1 DEF OwnTypeOK
    <3> QED BY <3>1
  <2>4. alert.n \in Nat /\ alert.n <= MaxReports[alert.from]
    BY <2>1, <2>2, <2>3, <1>0
  <2> QED BY <1>1, <2>1, <2>4, <1>0 DEF Publish
<1>2. CASE Restart
  BY <1>2, <1>0 DEF Restart
<1>3. CASE ~Publish /\ ~Restart
  <2>1. UNCHANGED handled
    BY <1>3, HandledFrame
  <2> QED BY <2>1, <1>0
<1> QED BY <1>1, <1>2, <1>3

\* get_device_byDevId returns an entry with the id it was given.
LEMMA LookupByDevId ==
  ASSUME lDevices \in Seq(HCP!DevInfo), NEW d, WithDevId(d) # {}
  PROVE  \E i \in DOMAIN lDevices :
           get_device_byDevId(d) = lDevices[i] /\ lDevices[i].devId = d
<1>1. WithDevId(d) \subseteq Nat
  BY DEF WithDevId
<1>2. PICK i \in WithDevId(d) : \A j \in WithDevId(d) : i <= j
  <2>1. /\ HCP!Min(WithDevId(d)) \in WithDevId(d)
        /\ \A j \in WithDevId(d) : HCP!Min(WithDevId(d)) <= j
    BY <1>1, HCP!MinOfNaturals, DevicesAssumption, UserIdsAssumption
  <2> QED BY <2>1
<1>3. Min(WithDevId(d)) \in WithDevId(d)
  BY <1>2 DEF Min
<1> QED BY <1>3 DEF WithDevId, get_device_byDevId

LEMMA ListType ==
  ASSUME HCP!IInv
  PROVE  /\ lDevices \in Seq(HCP!DevInfo)
         /\ \A i \in DOMAIN lDevices :
              /\ lDevices[i].devId \in DevIds /\ lDevices[i].userId \in UserIds
              /\ lDevices[i].cam \in Cameras
<1>1. lDevices \in Seq(HCP!DevInfo)
  BY DEF HCP!IInv, HCP!TypeOK
<1>2. \A i \in DOMAIN lDevices : lDevices[i] \in HCP!DevInfo
  BY <1>1
<1> QED BY <1>1, <1>2 DEF HCP!DevInfo, HCP!Cameras, Cameras

\* What the loop thread hands to the SDK.
LEMMA TargetIsKnown ==
  ASSUME OwnTypeOK, HCP!IInv, cmd.at = "dispatch", WithDevId(cmd.devId) # {}
  PROVE  /\ Target(cmd) \in Int
         /\ cmd.name = "by user id" =>
              \E i \in DOMAIN lDevices :
                lDevices[i].userId = Target(cmd) /\ lDevices[i].devId = cmd.devId
<1>1. cmd.devId \in Int
  BY CmdType, DevIdsAssumption
<1>2. PICK i \in DOMAIN lDevices :
        get_device_byDevId(cmd.devId) = lDevices[i] /\ lDevices[i].devId = cmd.devId
  BY LookupByDevId, ListType
<1>3. lDevices[i].userId \in Int
  <2>1. lDevices[i].userId \in UserIds
    BY <1>2, ListType
  <2>2. lDevices[i].userId \in Nat
    BY <2>1, UserIdsAssumption
  <2> QED BY <2>2
<1> QED BY <1>1, <1>2, <1>3 DEF Target

LEMMA CmdTypeStep ==
  ASSUME OwnTypeOK, HCP!IInv, [Next]_vars
  PROVE  cmd' \in {Idle} \cup Received \cup Executing \cup Replying
<1>0. cmd \in {Idle} \cup Received \cup Executing \cup Replying
  BY DEF OwnTypeOK
<1>1. CASE Receive
  BY <1>1 DEF Receive
<1>2. CASE Dispatch
  <2>1. CASE WithDevId(cmd.devId) # {}
    <3>1. /\ cmd.devId \in DevIds /\ cmd.name \in Commands /\ Target(cmd) \in Int
      BY <1>2, <2>1, CmdType, TargetIsKnown DEF Dispatch
    <3>2. [at |-> "operate", devId |-> cmd.devId, name |-> cmd.name, userId |-> Target(cmd)]
            \in Executing
      BY <3>1 DEF Executing
    <3> QED BY <1>0, <1>2, <3>2 DEF Dispatch
  <2>2. CASE WithDevId(cmd.devId) = {}
    BY <1>0, <1>2, <2>2 DEF Dispatch
  <2> QED BY <2>1, <2>2
<1>3. CASE Operate
  <2>1. cmd.devId \in DevIds
    BY <1>3, CmdType DEF Operate
  <2>2. [at |-> "reply", devId |-> cmd.devId] \in Replying
    BY <2>1 DEF Replying
  <2> QED BY <1>0, <1>3, <2>2 DEF Operate
<1>4. CASE Reply \/ Restart \/ UNCHANGED cmd
  BY <1>0, <1>4 DEF Reply, Restart
<1> QED BY <1>1, <1>2, <1>3, <1>4, CmdFrame

LEMMA OwnTypeStep ==
  ASSUME OwnTypeOK, Numbered, NumbersLeft, HCP!IInv, [Next]_vars
  PROVE  OwnTypeOK'
<1> DEFINE Labels == /\ pc \in {"boot", "read_config", "connect", "loop_start", "construct",
                                 "add", "wait", "publish", "free", "delete", "exited"}
                     /\ inMalloc \in BOOLEAN
                     /\ handler \in {"none", "delete", "logout", "exit"}
                     /\ link \in {"down", "up"}
                     /\ subscribed \in BOOLEAN
                     /\ crash \in {"none", "no client", "freed client", "null device",
                                    "double delete"}
<1>0. Labels
  BY DEF OwnTypeOK
<1>1. Labels'
  <2>1. CASE Walk
    BY <1>0, <2>1 DEF Walk, NoConfigFile, NewHikmqtt, ReadConfig, DeleteHikmqtt, Connect,
       LoopStart, EndOfDevices, Free, LockHeap, mqttVars
  <2>2. CASE Construct \/ AddSource \/ WaitDequeue \/ Publish
    BY <1>0, <2>2 DEF Construct, AddSource, WaitDequeue, Publish, mqttVars
  <2>3. ASSUME NEW t \in SdkThreads, Raise(t) \/ Lookup(t) \/ Report(t) PROVE Labels'
    BY <1>0, <2>3 DEF Raise, Lookup, Report, mainVars, mqttVars
  <2>4. CASE LinkLost \/ Reconnect \/ Receive \/ Reply
    BY <1>0, <2>4 DEF LinkLost, Reconnect, Receive, Reply, mainVars, mqttVars
  <2>5. CASE Dispatch \/ Operate
    BY <1>0, <2>5 DEF Dispatch, Operate, mainVars, mqttVars
  <2>6. CASE Signal \/ HandlerDelete \/ HandlerLogout \/ HandlerCleanup
    BY <1>0, <2>6 DEF Signal, HandlerDelete, HandlerLogout, HandlerCleanup, mainVars, mqttVars
  <2>7. CASE HandlerExit \/ SecondSignal \/ Restart \/ UNCHANGED vars
    BY <1>0, <2>7 DEF HandlerExit, SecondSignal, Restart, mainVars, mqttVars, vars
  <2> QED BY <2>1, <2>2, <2>3, <2>4, <2>5, <2>6, <2>7, NextCases
<1> QED BY <1>1, QueueType, HandledType, CmdTypeStep DEF OwnTypeOK

-----------------------------------------------------------------------------
(* The list and what refers to it.                                         *)

\* push_back comes only while the client lives.
LEMMA ListChange ==
  ASSUME [Next]_vars, OwnTypeOK, Stages, HCP!IInv
  PROVE  \/ UNCHANGED lDevices
         \/ /\ HC!Register /\ AddSource /\ client = "live"
            /\ lDevices' = Append(lDevices, [devId |-> Devices[it], userId |-> lUserId, cam |-> it])
         \/ HandlerCleanup \/ Restart
<1>0. client \in {"none", "live", "closing", "gone"}
  BY DEF HCP!IInv, HCP!TypeOK
<1>1. CASE Walk
  BY <1>1, WalkFrame DEF clientVars
<1>2. CASE Construct \/ WaitDequeue \/ Publish
  BY <1>2 DEF Construct, HC!Construct, WaitDequeue, Publish, clientVars
<1>3. CASE AddSource
  <2>1. client = "live"
    BY <1>0, <1>3 DEF AddSource, At, Stages
  <2>2. CASE HC!Register
    BY <2>1, <2>2, <1>3 DEF HC!Register
  <2>3. CASE HC!LoginOk \/ HC!LoginFails \/ HC!ArmOk \/ HC!ArmFails \/ HC!LogoutRefused
    BY <2>3 DEF HC!LoginOk, HC!LoginFails, HC!ArmOk, HC!ArmFails, HC!LogoutRefused
  <2> QED BY <2>2, <2>3, <1>3 DEF AddSource, HC!AddSource
<1>4. ASSUME NEW t \in SdkThreads, Raise(t) \/ Lookup(t) \/ Report(t) PROVE UNCHANGED lDevices
  BY <1>4 DEF Raise, Lookup, Report, HC!Raise, HC!Lookup, HC!Report
<1>5. CASE LinkLost \/ Reconnect \/ Receive \/ Dispatch \/ Operate \/ Reply
  BY <1>5 DEF LinkLost, Reconnect, Receive, Dispatch, Operate, Reply, clientVars
<1>6. CASE Signal \/ HandlerDelete \/ HandlerLogout \/ HandlerExit \/ SecondSignal
           \/ UNCHANGED vars
  BY <1>6 DEF Signal, HandlerDelete, HC!Destroy, HandlerLogout, HC!LogoutDevice, HandlerExit,
     SecondSignal, vars, clientVars
<1> QED BY <1>1, <1>2, <1>3, <1>4, <1>5, <1>6, NextCases

LEMMA AppendedEntry ==
  ASSUME lDevices \in Seq(HCP!DevInfo), NEW d, lDevices' = Append(lDevices, d)
  PROVE  /\ \A i \in DOMAIN lDevices : i \in DOMAIN lDevices' /\ lDevices'[i] = lDevices[i]
         /\ \A i \in DOMAIN lDevices' :
              (i \in DOMAIN lDevices /\ lDevices'[i] = lDevices[i]) \/ lDevices'[i] = d
<1>1. /\ DOMAIN lDevices = 1 .. Len(lDevices) /\ Len(lDevices) \in Nat
      /\ DOMAIN Append(lDevices, d) = 1 .. Len(lDevices) + 1
      /\ \A i \in 1 .. Len(lDevices) : Append(lDevices, d)[i] = lDevices[i]
      /\ Append(lDevices, d)[Len(lDevices) + 1] = d
  OBVIOUS
<1> QED BY <1>1

LEMMA ClientChange ==
  ASSUME [Next]_vars, HCP!IInv
  PROVE  \/ UNCHANGED client
         \/ client = "none" /\ client' = "live" /\ lDevices' = << >>
         \/ client = "live" /\ client' = "closing" /\ UNCHANGED <<lDevices, owner, armed, callback>>
         \/ client' = "gone"
         \/ Restart /\ client' = "none" /\ lDevices' = << >>
<1>1. CASE Construct
  BY <1>1 DEF Construct, HC!Construct, HCP!IInv, HCP!Unborn
<1>2. CASE HandlerDelete
  BY <1>2 DEF HandlerDelete, HC!Destroy, HC!sdk, clientVars
<1>3. CASE HandlerCleanup
  BY <1>3 DEF HandlerCleanup, HC!Cleanup
<1>4. CASE Restart
  BY <1>4 DEF Restart, HC!Restart
<1>5. CASE Walk
  BY <1>5, WalkFrame DEF clientVars
<1>6. CASE AddSource \/ WaitDequeue \/ Publish
  BY <1>6 DEF AddSource, HC!AddSource, HC!LoginOk, HC!LoginFails, HC!ArmOk, HC!ArmFails,
     HC!LogoutRefused, HC!Register, WaitDequeue, Publish, clientVars
<1>7. ASSUME NEW t \in SdkThreads, Raise(t) \/ Lookup(t) \/ Report(t) PROVE UNCHANGED client
  BY <1>7 DEF Raise, Lookup, Report, HC!Raise, HC!Lookup, HC!Report
<1>8. CASE LinkLost \/ Reconnect \/ Receive \/ Dispatch \/ Operate \/ Reply
  BY <1>8 DEF LinkLost, Reconnect, Receive, Dispatch, Operate, Reply, clientVars
<1>9. CASE Signal \/ HandlerLogout \/ HandlerExit \/ SecondSignal \/ UNCHANGED vars
  BY <1>9 DEF Signal, HandlerLogout, HC!LogoutDevice, HandlerExit, SecondSignal, vars, clientVars
<1> QED BY <1>1, <1>2, <1>3, <1>4, <1>5, <1>6, <1>7, <1>8, <1>9, NextCases

LEMMA CommandKnownStep ==
  ASSUME OwnTypeOK, Stages, HCP!IInv, CommandKnown, [Next]_vars
  PROVE  CommandKnown'
<1>1. CASE Dispatch
  <2> SUFFICES ASSUME cmd'.at = "operate"
               PROVE  /\ client' # "none"
                      /\ Working' /\ cmd'.name = "by user id" =>
                           \E i \in DOMAIN lDevices' :
                             lDevices'[i].userId = cmd'.userId /\ lDevices'[i].devId = cmd'.devId
    BY DEF CommandKnown
  <2>1. /\ client \in {"live", "closing"} /\ UNCHANGED <<client, lDevices>>
        /\ WithDevId(cmd.devId) # {} /\ cmd.at = "dispatch"
        /\ cmd' = [at |-> "operate", devId |-> cmd.devId, name |-> cmd.name, userId |-> Target(cmd)]
    <3>1. cmd.at = "dispatch" /\ UNCHANGED <<client, lDevices>>
      BY <1>1 DEF Dispatch, clientVars
    <3>2. cmd' # cmd
      BY <3>1
    <3>3. cmd' # Idle
      BY DEF Idle
    <3> QED BY <1>1, <3>1, <3>2, <3>3 DEF Dispatch
  <2> QED BY <2>1, TargetIsKnown
<1>2. CASE Receive \/ Reply \/ Restart
  <2>1. cmd'.at # "operate"
    BY <1>2 DEF Receive, Received, Reply, Restart, Idle
  <2> QED BY <2>1 DEF CommandKnown
<1>4. CASE Operate
  <2>1. CASE client = "gone"
    BY <1>4, <2>1 DEF Operate, CommandKnown, Working, clientVars
  <2>2. CASE client # "gone"
    <3>1. cmd'.at # "operate"
      BY <1>4, <2>2 DEF Operate, Idle
    <3> QED BY <3>1 DEF CommandKnown
  <2> QED BY <2>1, <2>2
<1>3. CASE UNCHANGED cmd /\ ~Restart
  <2> SUFFICES ASSUME cmd.at = "operate"
               PROVE  /\ client' # "none"
                      /\ Working' /\ cmd.name = "by user id" =>
                           \E i \in DOMAIN lDevices' :
                             lDevices'[i].userId = cmd.userId /\ lDevices'[i].devId = cmd.devId
    BY <1>3 DEF CommandKnown
  <2>1. client # "none" /\ client' # "none"
    BY <1>3, ClientChange DEF CommandKnown
  <2>2. ASSUME Working', cmd.name = "by user id"
        PROVE  \E i \in DOMAIN lDevices' :
                 lDevices'[i].userId = cmd.userId /\ lDevices'[i].devId = cmd.devId
    <3>1. Working
      BY <2>1, <2>2, <1>3, ClientChange DEF Working
    <3>2. PICK i \in DOMAIN lDevices :
            lDevices[i].userId = cmd.userId /\ lDevices[i].devId = cmd.devId
      BY <3>1, <2>2 DEF CommandKnown
    <3>3. ~HandlerCleanup
      BY <2>2 DEF HandlerCleanup, HC!Cleanup, Working
    <3> QED BY <3>2, <3>3, <1>3, ListChange, AppendedEntry, ListType
  <2> QED BY <2>1, <2>2
<1> QED BY <1>1, <1>2, <1>3, <1>4, CmdFrame


\* While the handler closes the client, only it and the SDK threads touch that.
LEMMA ClosingFrame ==
  ASSUME [Next]_vars, Stages, client = "closing", client' = "closing"
  PROVE  \/ HandlerLogout
         \/ \E t \in SdkThreads : Raise(t) \/ Lookup(t) \/ Report(t)
         \/ UNCHANGED <<owner, armed, lDevices, callback>>
<1>1. handler = "logout"
  BY DEF Stages
<1>2. CASE Walk
  BY <1>2, WalkFrame DEF clientVars
<1>3. ~(Construct \/ AddSource \/ WaitDequeue \/ Publish)
  BY <1>1 DEF Construct, AddSource, WaitDequeue, Publish, At
<1>4. CASE LinkLost \/ Reconnect \/ Receive \/ Dispatch \/ Operate \/ Reply
  BY <1>4 DEF LinkLost, Reconnect, Receive, Dispatch, Operate, Reply, clientVars
<1>5. CASE Signal \/ HandlerDelete \/ HandlerCleanup \/ HandlerExit \/ SecondSignal
  BY <1>1, <1>5 DEF Signal, HandlerDelete, HandlerCleanup, HC!Cleanup, HandlerExit,
     SecondSignal, clientVars
<1>6. CASE Restart \/ UNCHANGED vars
  BY <1>6 DEF Restart, HC!Restart, vars, clientVars
<1> QED BY <1>2, <1>3, <1>4, <1>5, <1>6, NextCases

LEMMA EntriesNamedStep ==
  ASSUME OwnTypeOK, Stages, HCP!IInv, HCP!IInv', EntriesNamed, [Next]_vars
  PROVE  EntriesNamed'
<1>1. CASE client' = "live"
  BY <1>1 DEF EntriesNamed, Working, HCP!IInv, HCP!Live, HCP!RegisteredAreArmed,
     HCP!CallbacksOwned
<1>2. CASE client' # "live"
  <2>1. lDevices' = lDevices \/ lDevices' = << >>
    BY <1>2, ListChange DEF HandlerCleanup, HC!Cleanup, Restart, HC!Restart, HC!Register
  <2>2. \A i \in DOMAIN lDevices' : lDevices'[i].devId = Devices[lDevices'[i].cam]
    BY <2>1 DEF EntriesNamed
  <2>3. ASSUME client' = "closing", NEW i \in DOMAIN lDevices'
        PROVE  LET d == lDevices'[i] IN
                 /\ d.userId \in armed' => owner'[d.userId] = d.cam
                 /\ \A t \in SdkThreads :
                      callback'[t].at = "lookup" /\ callback'[t].userId = d.userId =>
                        callback'[t].cam = d.cam
    <3>1. CASE UNCHANGED <<owner, armed, lDevices, callback>> /\ client \in {"live", "closing"}
      BY <3>1, <2>3 DEF EntriesNamed, Working
    <3>2. CASE client = "closing"
      <4>0. /\ callback \in [SdkThreads -> {HCP!Quiet} \cup HCP!Entering \cup HCP!Reporting]
            /\ owner \in [UserIds -> HCP!Cameras \cup {HCP!NoCamera}]
        BY DEF HCP!IInv, HCP!TypeOK
      <4>1. CASE HandlerLogout
        <5>1. /\ UNCHANGED <<lDevices, callback>> /\ armed' \subseteq armed
              /\ \A u \in armed' : owner'[u] = owner[u]
          <6>1. PICK v : owner' = [owner EXCEPT ![v] = HC!NoCamera] /\ armed' = armed \ {v}
                         /\ UNCHANGED <<lDevices, callback>>
            BY <4>1 DEF HandlerLogout, HC!LogoutDevice
          <6> QED BY <6>1, <4>0
        <5> QED BY <5>1, <3>2, <2>3 DEF EntriesNamed, Working
      <4>2. ASSUME NEW s \in SdkThreads, Raise(s) \/ Lookup(s) \/ Report(s)
            PROVE  /\ UNCHANGED <<owner, armed, lDevices>>
                   /\ \A t \in SdkThreads :
                        callback'[t].at = "lookup" =>
                          \/ callback'[t] = callback[t]
                          \/ callback'[t].userId \in armed /\ callback'[t].cam = owner[callback'[t].userId]
        <5>1. CASE Raise(s)
          <6>1. PICK u \in armed, k \in HC!Kinds : callback' = [callback EXCEPT ![s] =
                  [at |-> "lookup", userId |-> u, kind |-> k, cam |-> owner[u]]]
            BY <5>1 DEF Raise, HC!Raise
          <6>2. \A t \in SdkThreads : t # s => callback'[t] = callback[t]
            BY <6>1, <4>0
          <6>3. callback'[s].userId = u /\ callback'[s].cam = owner[u]
            BY <6>1, <4>0
          <6> QED BY <5>1, <6>2, <6>3 DEF Raise, HC!Raise, HC!sdk
        <5>2. CASE Lookup(s)
          <6>1. \/ callback' = callback
                \/ callback' = [callback EXCEPT ![s] = HC!Quiet]
                \/ \E d, c : callback' = [callback EXCEPT ![s] =
                                           [at |-> "report", devId |-> d, cam |-> c]]
            BY <5>2 DEF Lookup, HC!Lookup
          <6>2. \A t \in SdkThreads : callback'[t] = callback[t] \/ callback'[t].at # "lookup"
            <7>1. \A t \in SdkThreads : t # s => callback'[t] = callback[t]
              BY <6>1, <4>0
            <7>2. CASE callback' = callback
              BY <7>2
            <7>3. CASE callback' = [callback EXCEPT ![s] = HC!Quiet]
              BY <7>1, <7>3, <4>0 DEF HC!Quiet
            <7>4. CASE \E d, c : callback' = [callback EXCEPT ![s] =
                                             [at |-> "report", devId |-> d, cam |-> c]]
              BY <7>1, <7>4, <4>0
            <7> QED BY <6>1, <7>2, <7>3, <7>4
          <6> QED BY <5>2, <6>2 DEF Lookup, HC!Lookup, HC!sdk
        <5>3. CASE Report(s)
          BY <5>3, <4>0 DEF Report, HC!Report, HC!sdk, HC!Quiet
        <5> QED BY <4>2, <5>1, <5>2, <5>3
      <4>3. CASE \E s \in SdkThreads : Raise(s) \/ Lookup(s) \/ Report(s)
        BY <4>3, <4>2, <3>2, <2>3 DEF EntriesNamed, Working
      <4> QED BY <4>1, <4>3, <3>1, <3>2, <2>3, ClosingFrame
    <3> QED BY <3>1, <3>2, <2>3, ClientChange
  <2> QED BY <1>2, <2>2, <2>3 DEF EntriesNamed, Working
<1> QED BY <1>1, <1>2

\* A callback finds its camera's entry, in the live client and in the closing.
LEMMA CallbacksNamedStep ==
  ASSUME OwnTypeOK, Stages, HCP!IInv, EntriesNamed, CallbacksNamed, [Next]_vars
  PROVE  CallbacksNamed'
<1>0. callback \in [SdkThreads -> {HCP!Quiet} \cup HCP!Entering \cup HCP!Reporting]
  BY DEF HCP!IInv, HCP!TypeOK
<1>1. CASE UNCHANGED callback
  BY <1>1 DEF CallbacksNamed
<1>2. CASE Restart
  BY <1>2 DEF Restart, HC!Restart, HC!Quiet, CallbacksNamed
<1>3. ASSUME NEW s \in SdkThreads, Raise(s) \/ Report(s) PROVE CallbacksNamed'
  BY <1>0, <1>3 DEF Raise, HC!Raise, Report, HC!Report, HC!Quiet, CallbacksNamed
<1>4. ASSUME NEW s \in SdkThreads, Lookup(s) PROVE CallbacksNamed'
  <2> DEFINE u == callback[s].userId
             d == HCP!get_device_byUserId(u)
  <2>0. HCP!Lookup(s)
    BY <1>4, SdkActions DEF Lookup
  <2>1. CASE callback' = callback
    BY <1>1, <2>1
  <2>2. CASE callback' # callback
    <3>1. /\ callback[s].at = "lookup" /\ client # "gone" /\ HCP!Matches(u) # {}
          /\ \/ callback' = [callback EXCEPT ![s] =
                 [at |-> "report", devId |-> d.devId, cam |-> callback[s].cam]]
             \/ callback' = [callback EXCEPT ![s] = HCP!Quiet]
      BY <2>0, <2>2 DEF HCP!Lookup
    <3>2. PICK i \in DOMAIN lDevices : d = lDevices[i] /\ lDevices[i].userId = u
      <4> HIDE DEF u
      <4>1. HCP!TypeOK
        BY DEF HCP!IInv
      <4> QED BY <3>1, <4>1, HCP!LookupFinds, DevicesAssumption, UserIdsAssumption
    <3>3. Working
      <4>1. client \in {"none", "live", "closing", "gone"} /\ HCP!Unborn
        BY DEF HCP!IInv, HCP!TypeOK
      <4>2. HCP!Quiet.at # "lookup"
        BY DEF HCP!Quiet
      <4>3. client # "none"
        BY <3>1, <4>1, <4>2 DEF HCP!Unborn
      <4> QED BY <3>1, <4>1, <4>3 DEF Working
    <3>4. d.devId = Devices[callback[s].cam]
      BY <3>1, <3>2, <3>3 DEF EntriesNamed
    <3> HIDE DEF u, d
    <3> QED BY <1>0, <3>1, <3>4 DEF CallbacksNamed, HCP!Quiet
  <2> QED BY <2>1, <2>2
<1> QED BY <1>1, <1>2, <1>3, <1>4, CallbackFrame

LEMMA MessagesNamedStep ==
  ASSUME OwnTypeOK, HCP!IInv, CallbacksNamed, MessagesNamed, [Next]_vars
  PROVE  MessagesNamed'
<1>0. queue \in [Threads -> Seq(Message)]
  BY DEF OwnTypeOK
<1>1. CASE UNCHANGED <<queue, alert>>
  BY <1>1 DEF MessagesNamed, Named
<1>2. CASE WaitDequeue
  <2>1. PICK t \in Threads : /\ queue[t] # << >> /\ alert' = Head(queue[t])
                             /\ queue' = [queue EXCEPT ![t] = Tail(@)]
    BY <1>2 DEF WaitDequeue, MQ!Dequeue
  <2>2. queue[t] \in Seq(Message)
    BY <1>0
  <2>3. /\ Head(queue[t]) = queue[t][1] /\ 1 \in DOMAIN queue[t]
        /\ \A i \in DOMAIN Tail(queue[t]) :
             i + 1 \in DOMAIN queue[t] /\ Tail(queue[t])[i] = queue[t][i + 1]
    BY <2>1, <2>2
  <2>4. \A v \in Threads : queue'[v] = IF v = t THEN Tail(queue[t]) ELSE queue[v]
    BY <1>0, <2>1
  <2> QED BY <2>1, <2>3, <2>4 DEF MessagesNamed, Named
<1>3. ASSUME NEW t \in Threads, NEW d, NEW c, Enqueue(t, d, c),
             c # NoCamera => d = Devices[c]
      PROVE  MessagesNamed'
  <2> DEFINE m == [from |-> t, n |-> reported[t] + 1, devId |-> d, cam |-> c]
  <2>1. queue' = [queue EXCEPT ![t] = Append(queue[t], m)] /\ alert' = alert
    BY <1>3 DEF Enqueue, MQ!Enqueue
  <2>2. Named(m)
    BY <1>3 DEF Named
  <2> HIDE DEF m
  <2>3. queue[t] \in Seq(Message)
    BY <1>0
  <2>4. \A i \in DOMAIN Append(queue[t], m) :
          (i \in DOMAIN queue[t] /\ Append(queue[t], m)[i] = queue[t][i]) \/ Append(queue[t], m)[i] = m
    BY <2>3
  <2>5. \A v \in Threads : queue'[v] = IF v = t THEN Append(queue[t], m) ELSE queue[v]
    BY <1>0, <2>1
  <2> QED BY <2>1, <2>2, <2>4, <2>5 DEF MessagesNamed, Named
<1>4. ASSUME NEW t \in SdkThreads, Report(t) PROVE MessagesNamed'
  <2>1. t \in Threads /\ callback[t].at = "report"
    BY <1>4 DEF Threads, Report, HC!Report
  <2>2. callback[t].devId = Devices[callback[t].cam]
    BY <2>1 DEF CallbacksNamed
  <2> QED BY <1>3, <1>4, <2>1, <2>2 DEF Report
<1>5. CASE Reply
  BY <1>3, <1>5 DEF Reply, Threads
<1>6. CASE Restart
  BY <1>6, NoMessageAssumption DEF Restart, MessagesNamed
<1> QED BY <1>1, <1>2, <1>4, <1>5, <1>6, QueueFrame

-----------------------------------------------------------------------------
(* Theorems.                                                               *)

LEMMA IInvHolds == Spec => [](IInv /\ HCP!IInv)
<1>1. IInv /\ HCP!IInv /\ HCP!IInv' /\ [Next]_vars => IInv'
  BY OwnTypeStep, StagesStep, FaultsStep, EntriesNamedStep, CallbacksNamedStep,
     MessagesNamedStep, CommandKnownStep, NumberedStep, NumbersLeftStep DEF IInv
<1> QED BY <1>1, InitInv, ClientInv, PTL DEF Spec

\* The variables of the whole program keep their types, and no thread reports
\* more messages than it is granted.
THEOREM TypeCorrect == Spec => []TypeOK
<1>1. IInv /\ HCP!IInv => TypeOK
  BY DEF IInv, TypeOK, HCP!IInv, HC!TypeOK, HCP!TypeOK, HC!Cameras, HCP!Cameras,
     HC!NoUser, HCP!NoUser, HC!NoCamera, HCP!NoCamera, HC!Quiet, HCP!Quiet,
     HC!Entering, HCP!Entering, HC!Kinds, HCP!Kinds, HC!Reporting, HCP!Reporting,
     HC!DevInfo, HCP!DevInfo
<1> QED BY <1>1, IInvHolds, PTL

\* From the callback over the queue to the broker, an alarm names the camera
\* that raised it, also when the client has been destroyed in the meantime.
THEOREM AlarmsAttributed == Spec => []AlarmsNameTheirCamera
<1>1. IInv => AlarmsNameTheirCamera
  <2> SUFFICES ASSUME IInv, NEW t \in SdkThreads,
                      NEW m \in Range(queue[t]) \cup ({alert} \cap Message),
                      m.cam # NoCamera
               PROVE  m.devId = Devices[m.cam]
    BY DEF AlarmsNameTheirCamera
  <2>1. t \in Threads
    BY DEF Threads
  <2> QED BY <2>1 DEF IInv, MessagesNamed, Named, Range
<1> QED BY <1>1, IInvHolds, PTL

\* After the loop over the devices no device, command or message ends the
\* process; only a signal does.
THEOREM NoFaultAfterDevices == Spec => []NoFaultAfterStartup
<1>1. IInv /\ HCP!IInv => NoFaultAfterStartup
  <2> SUFFICES ASSUME IInv, HCP!IInv, handler = "none", pc \in {"wait", "publish", "free"}
               PROVE  Alive
    BY DEF NoFaultAfterStartup
  <2>1. client \notin {"none", "gone"} /\ it \notin Cameras
    BY DEF IInv, Stages
  <2>2. crash = "none"
    BY <2>1 DEF IInv, OwnTypeOK, Faults
  <2>3. fault # "null device"
    BY <2>1 DEF HCP!IInv, HCP!TypeOK, HCP!NullDeviceOnlyWhileRegistering, HCP!Cameras, Cameras
  <2>4. fault = "none"
    BY <2>1, <2>3 DEF IInv, Faults, HCP!IInv, HCP!TypeOK
  <2> QED BY <2>2, <2>4 DEF Alive, HC!Alive
<1> QED BY <1>1, IInvHolds, PTL

\* A command or a callback meets a freed client only after the handler is through
\* with its clean-up.
THEOREM FreedClientWindow == Spec => []FreedClientOnlyBeforeExit
<1>1. IInv => FreedClientOnlyBeforeExit
  BY DEF IInv, Faults, Stages, FreedClientOnlyBeforeExit
<1> QED BY <1>1, IInvHolds, PTL

\* A command that looks its user id up acts on the camera of the device it
\* names, although the list may have grown since the search.
THEOREM LookedUpCommands == Spec => []LookedUpCommandReachesDevice
<1>1. IInv /\ HCP!IInv => LookedUpCommandReachesDevice
  <2> SUFFICES ASSUME IInv, HCP!IInv, client = "live", cmd.at = "operate",
                      cmd.name = "by user id"
               PROVE  Reaches(cmd.userId, cmd.devId)
    BY DEF LookedUpCommandReachesDevice
  <2>1. PICK i \in DOMAIN lDevices :
          lDevices[i].userId = cmd.userId /\ lDevices[i].devId = cmd.devId
    BY DEF IInv, CommandKnown, Working
  <2>2. /\ owner[lDevices[i].userId] = lDevices[i].cam
        /\ lDevices[i].devId = Devices[lDevices[i].cam]
    BY <2>1 DEF HCP!IInv, HCP!Live, HCP!RegisteredAreArmed
  <2>3. lDevices[i].userId \in UserIds /\ lDevices[i].cam \in Cameras
    BY <2>1, ListType
  <2> QED BY <2>1, <2>2, <2>3 DEF Reaches
<1> QED BY <1>1, IInvHolds, PTL

\* run() is done with the messages of each thread one by one and in the order
\* that thread reported them, in whichever order it takes those of different
\* threads.
THEOREM MessagesInOrder == Spec => InOrder
<1> DEFINE A == \A t \in Threads : handled'[t] \in {handled[t], handled[t] + 1} \/ Restart
<1>1. ASSUME IInv, [Next]_vars PROVE A
  <2>1. CASE Publish
    <3>1. alert \in Message /\ alert.n = handled[alert.from] + 1 /\ alert.from \in Threads
      BY <1>1, <2>1 DEF Publish, At, IInv, Numbered, Message
    <3> QED BY <1>1, <2>1, <3>1 DEF Publish, IInv, OwnTypeOK
  <2>2. CASE UNCHANGED handled \/ Restart
    BY <2>2
  <2> QED BY <1>1, <2>1, <2>2, HandledFrame
<1>2. IInv /\ [Next]_vars => [A]_vars
  BY <1>1
<1> QED BY <1>2, IInvHolds, PTL DEF Spec, InOrder

=============================================================================
