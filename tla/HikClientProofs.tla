-------------------------- MODULE HikClientProofs --------------------------
(***************************************************************************)
(* Proofs about HikClient for every list of devices, every set of user ids *)
(* and every number of SDK threads.                                        *)
(*                                                                         *)
(* None of the properties is inductive by itself: whether the list search  *)
(* succeeds, and finds the right entry, depends on what the main thread    *)
(* has done with the session the event came from.  The invariant IInv      *)
(* therefore follows a session from its login over the armed channel to    *)
(* its entry in the list, and each callback back to its session.           *)
(***************************************************************************)
EXTENDS HikClient, FiniteSetTheorems, SequenceTheorems, WellFoundedInduction, TLAPS

\* A non-empty set of numbers has a least one, the one Min picks: what a
\* search that leaves its loop at the first match returns.
LEMMA MinOfNaturals ==
  ASSUME NEW S, S \subseteq Nat, S # {}
  PROVE  Min(S) \in S /\ \A y \in S : Min(S) <= y
<1> DEFINE Below == {0 .. x : x \in S}
<1>1. Below \subseteq FiniteSubsetsOf(Nat) /\ Below # {}
  <2>1. \A x \in S : 0 .. x \in SUBSET Nat /\ IsFiniteSet(0 .. x)
    BY FS_Interval
  <2> QED BY <2>1 DEF FiniteSubsetsOf
<1>2. PICK X \in Below : \A Y \in Below : ~ (<<Y, X>> \in StrictSubsetOrdering(Nat))
  <2> HIDE DEF Below
  <2> QED BY <1>1, FS_StrictSubsetOrderingWellFounded, WFMin
<1>3. PICK m \in S : X = 0 .. m
  OBVIOUS
<1>4. ASSUME NEW y \in S, y < m PROVE FALSE
  <2>1. 0 .. y \in Below /\ 0 .. y \subseteq X /\ m \in X /\ m \notin 0 .. y
    BY <1>3, <1>4
  <2> QED BY <2>1, <1>1, <1>2, <1>3 DEF StrictSubsetOrdering, FiniteSubsetsOf
<1>5. \A y \in S : m <= y
  BY <1>4
<1> QED BY <1>5 DEF Min

-----------------------------------------------------------------------------
(* The invariant.                                                          *)

Working == client \in {"live", "closing"}

\* Before the constructor has run there is no session, entry or callback.
Unborn ==
  client = "none" =>
    /\ src = "login" /\ logoutAt = 1 /\ lDevices = << >> /\ armed = {}
    /\ owner = [u \in UserIds |-> NoCamera]
    /\ callback = [t \in SdkThreads |-> Quiet]

LogoutPosition ==
  /\ client = "live" => logoutAt = 1
  /\ client = "closing" => logoutAt <= Len(lDevices) + 1

\* Only a session whose channel was set up is armed, and an armed one is open.
ArmedOpen ==
  /\ \A u \in armed : owner[u] \in Cameras
  /\ src \in {"arm", "logout"} => lUserId \notin armed

\* While the client lives, add_source's session is open, new, and armed once
\* it is to be pushed.
SetupOpen ==
  client = "live" /\ src # "login" =>
    /\ owner[lUserId] = it /\ lUserId \notin Registered
    /\ src = "push" => lUserId \in armed

\* An armed session is in the list, or the next to be pushed.
Known(u) == u \in Registered \/ (src = "push" /\ u = lUserId)

ArmedKnown == Working => \A u \in armed : Known(u)

CallbacksKnown ==
  Working => \A t \in SdkThreads :
               callback[t].at = "lookup" => Known(callback[t].userId)

\* While the client lives, a callback's session still belongs to its camera.
CallbacksOwned ==
  client = "live" =>
    \A t \in SdkThreads :
      callback[t].at = "lookup" => owner[callback[t].userId] = callback[t].cam

\* The sessions the destructor has not closed yet are ahead of it in the
\* list, or in add_source.
ClosingAccounted ==
  client = "closing" =>
    \A u \in UserIds :
      owner[u] # NoCamera =>
        \/ u \in InProgress
        \/ \E i \in logoutAt .. Len(lDevices) : lDevices[i].userId = u

\* What the main thread makes of a session while the client lives.
Live == SetupOpen /\ SessionsAccounted /\ RegisteredAreArmed

IInv ==
  /\ TypeOK /\ Unborn /\ LogoutPosition /\ ArmedOpen /\ Live
  /\ ArmedKnown /\ CallbacksKnown /\ CallbacksOwned
  /\ Attribution /\ NullDeviceOnlyWhileRegistering /\ ClosingAccounted

-----------------------------------------------------------------------------
(* The list search.                                                        *)

\* get_device_byUserId returns an entry of the list with the user id it was
\* given, whenever there is one.
LEMMA LookupFinds ==
  ASSUME TypeOK, NEW u, Matches(u) # {}
  PROVE  \E i \in DOMAIN lDevices : /\ get_device_byUserId(u) = lDevices[i]
                                    /\ lDevices[i].userId = u
<1>0. lDevices \in Seq(DevInfo)
  BY DEF TypeOK
<1>1. DOMAIN lDevices \subseteq Nat
  BY <1>0
<1>2. Min(Matches(u)) \in Matches(u)
  BY <1>1, MinOfNaturals DEF Matches
<1> QED BY <1>2 DEF Matches, get_device_byUserId

LEMMA DevicesType ==
  Len(Devices) \in Nat /\ \A i \in 1 .. Len(Devices) : Devices[i] \in DevIds
BY DevicesAssumption

LEMMA RegisteredMatch ==
  ASSUME NEW u
  PROVE  u \in Registered <=> Matches(u) # {}
BY DEF Registered, Matches

-----------------------------------------------------------------------------
(* Type correctness.                                                       *)

LEMMA TypeStep ==
  ASSUME TypeOK, ArmedOpen, Next
  PROVE  TypeOK'
<1> USE DevicesType
<1>1. CASE Construct
  BY <1>1 DEF Construct, TypeOK, main, sdk
<1>2. CASE LoginOk
  BY <1>2 DEF LoginOk, TypeOK
<1>3. CASE LoginFails
  <2>1. lUserId' = NoUser /\ src' = "login"
    BY <1>3 DEF LoginFails, NextDevice
  <2>2. it' \in 1 .. Len(Devices) + 1
    BY <1>3 DEF LoginFails, NextDevice, Cameras
  <2> QED BY <1>3, <2>1, <2>2 DEF LoginFails, TypeOK, sdk
<1>4. CASE ArmOk
  BY <1>4 DEF ArmOk, TypeOK
<1>5. CASE ArmFails
  BY <1>5 DEF ArmFails, TypeOK, sdk
<1>6. CASE LogoutRefused
  <2>1. lUserId' = NoUser /\ src' = "login"
    BY <1>6 DEF LogoutRefused, NextDevice
  <2>0. it \in Cameras
    BY <1>6 DEF LogoutRefused, TypeOK
  <2>2. it' \in 1 .. Len(Devices) + 1
    BY <1>6, <2>0 DEF LogoutRefused, NextDevice, Cameras
  <2>3. owner' \in [UserIds -> Cameras \cup {NoCamera}]
    BY <1>6 DEF LogoutRefused, TypeOK
  <2> QED BY <1>6, <2>1, <2>2, <2>3 DEF LogoutRefused, TypeOK
<1>7. CASE Register
  <2>1. CASE client = "gone"
    BY <1>7, <2>1 DEF Register, TypeOK, main, sdk
  <2>2. CASE client # "gone"
    <3>0. it \in Cameras /\ lUserId \in UserIds /\ lDevices \in Seq(DevInfo)
      BY <1>7 DEF Register, TypeOK
    <3>1. [devId |-> Devices[it], userId |-> lUserId, cam |-> it] \in DevInfo
      BY <3>0 DEF DevInfo, Cameras
    <3>2. lDevices' \in Seq(DevInfo)
      BY <1>7, <2>2, <3>0, <3>1 DEF Register
    <3>3. it' \in 1 .. Len(Devices) + 1 /\ src' = "login"
      BY <1>7, <2>2, <3>0 DEF Register, NextDevice, Cameras
    <3> QED BY <1>7, <2>2, <3>2, <3>3 DEF Register, TypeOK, sdk
  <2> QED BY <2>1, <2>2
<1>8. ASSUME NEW t \in SdkThreads, Raise(t) PROVE TypeOK'
  <2>1. PICK u \in armed, k \in Kinds :
          callback' = [callback EXCEPT ![t] =
            [at |-> "lookup", userId |-> u, kind |-> k, cam |-> owner[u]]]
    BY <1>8 DEF Raise
  <2>2. [at |-> "lookup", userId |-> u, kind |-> k, cam |-> owner[u]] \in Entering
    BY DEF Entering, ArmedOpen, TypeOK
  <2> QED BY <2>1, <2>2, <1>8 DEF Raise, TypeOK, main, sdk
<1>9. ASSUME NEW t \in SdkThreads, Lookup(t) PROVE TypeOK'
  <2>0. /\ UNCHANGED <<client, main, sdk, lDevices, logoutAt>>
        /\ fault' \in {"none", "null device", "freed client"}
    BY <1>9 DEF Lookup, TypeOK
  <2>1. CASE UNCHANGED callback
    BY <2>1, <2>0 DEF TypeOK, main, sdk
  <2>2. CASE callback' # callback
    <3> DEFINE c == callback[t]
               d == get_device_byUserId(c.userId)
    <3>1. /\ Matches(c.userId) # {}
          /\ c.at = "lookup"
          /\ callback' = [callback EXCEPT ![t] =
               IF c.kind = "rule"
               THEN [at |-> "report", devId |-> d.devId, cam |-> c.cam] ELSE Quiet]
      BY <1>9, <2>2 DEF Lookup
    <3>2. d \in DevInfo
      <4> HIDE DEF d
      <4>1. \E i \in DOMAIN lDevices : d = lDevices[i]
        BY <3>1, LookupFinds DEF d
      <4>2. lDevices \in Seq(DevInfo)
        BY DEF TypeOK
      <4> QED BY <4>1, <4>2
    <3>3. c \in Entering
      <4>1. c \in {Quiet} \cup Entering \cup Reporting
        BY DEF TypeOK
      <4> QED BY <3>1, <4>1 DEF Quiet, Reporting
    <3>4. [at |-> "report", devId |-> d.devId, cam |-> c.cam] \in Reporting
      <4> HIDE DEF d, c
      <4> QED BY <3>2, <3>3 DEF DevInfo, Entering, Reporting
    <3>5. callback' \in [SdkThreads -> {Quiet} \cup Entering \cup Reporting]
      <4> HIDE DEF d, c
      <4> QED BY <3>1, <3>4 DEF TypeOK
    <3> QED BY <2>0, <3>5 DEF TypeOK, main, sdk
  <2> QED BY <2>1, <2>2
<1>10. ASSUME NEW t \in SdkThreads, Report(t) PROVE TypeOK'
  BY <1>10 DEF Report, TypeOK, main, sdk
<1>11. CASE Destroy
  BY <1>11 DEF Destroy, TypeOK, main, sdk
<1>12. CASE LogoutDevice
  <2>1. owner' \in [UserIds -> Cameras \cup {NoCamera}]
    BY <1>12 DEF LogoutDevice, TypeOK
  <2>2. armed' \in SUBSET UserIds
    BY <1>12 DEF LogoutDevice, TypeOK
  <2>0. logoutAt \in Nat \ {0}
    BY DEF TypeOK
  <2>3. logoutAt' \in Nat \ {0}
    BY <1>12, <2>0 DEF LogoutDevice
  <2> QED BY <1>12, <2>1, <2>2, <2>3 DEF LogoutDevice, TypeOK, main
<1>13. CASE Cleanup
  <2>1. lDevices' \in Seq(DevInfo)
    BY <1>13, EmptySeq DEF Cleanup
  <2> QED BY <1>13, <2>1 DEF Cleanup, TypeOK, main
<1>14. CASE Restart
  <2>1. lDevices' \in Seq(DevInfo)
    BY <1>14, EmptySeq DEF Restart
  <2>2. owner' \in [UserIds -> Cameras \cup {NoCamera}] /\ armed' \in SUBSET UserIds
    BY <1>14 DEF Restart
  <2>3. it' \in 1 .. Len(Devices) + 1 /\ logoutAt' \in Nat \ {0}
    BY <1>14 DEF Restart
  <2> QED BY <1>14, <2>1, <2>2, <2>3 DEF Restart, TypeOK
<1> QED BY <1>1, <1>2, <1>3, <1>4, <1>5, <1>6, <1>7, <1>8, <1>9, <1>10, <1>11,
           <1>12, <1>13, <1>14 DEF Next, AddSource, Callback, Destructor

-----------------------------------------------------------------------------
(* Sessions: the main thread and the destructor.                           *)

\* What the SDK threads do leaves the sessions and the list alone.
SdkStep == \E t \in SdkThreads : Raise(t) \/ Callback(t)

LEMMA SdkStepFrame ==
  ASSUME SdkStep
  PROVE  UNCHANGED <<client, main, sdk, lDevices, logoutAt>>
BY DEF SdkStep, Callback, Raise, Lookup, Report

LEMMA NextCases ==
  ASSUME Next
  PROVE  \/ Construct \/ LoginOk \/ LoginFails \/ ArmOk \/ ArmFails \/ LogoutRefused
         \/ Register \/ SdkStep \/ Destroy \/ LogoutDevice \/ Cleanup \/ Restart
BY DEF Next, AddSource, SdkStep, Destructor

LEMMA UnbornStep ==
  ASSUME TypeOK, Unborn, Next
  PROVE  Unborn'
<1> SUFFICES ASSUME client' = "none" PROVE Unborn'
  BY DEF Unborn
<1>1. CASE Restart
  BY <1>1 DEF Restart, Unborn
<1>2. CASE Construct \/ LoginOk \/ Destroy \/ Cleanup \/ LoginFails \/ LogoutDevice
  BY <1>2 DEF Construct, LoginOk, Destroy, Cleanup, LoginFails, LogoutDevice, Initialised
<1>3. CASE ArmOk \/ ArmFails \/ LogoutRefused
  BY <1>3 DEF ArmOk, ArmFails, LogoutRefused, Unborn
<1>4. CASE Register
  BY <1>4 DEF Register, Unborn
<1>5. CASE SdkStep
  <2>1. client = "none"
    BY <1>5, SdkStepFrame
  <2>2. PICK t \in SdkThreads : Raise(t) \/ Lookup(t) \/ Report(t)
    BY <1>5 DEF SdkStep, Callback
  <2>3. callback[t].at = "idle"
    BY <2>1 DEF Unborn, Quiet
  <2> QED BY <2>1, <2>2, <2>3 DEF Raise, Lookup, Report, Initialised
<1> QED BY <1>1, <1>2, <1>3, <1>4, <1>5, NextCases

LEMMA LogoutPositionStep ==
  ASSUME TypeOK, Unborn, LogoutPosition, Next
  PROVE  LogoutPosition'
<1> USE DEF LogoutPosition
<1>0. Len(lDevices) \in Nat /\ logoutAt \in Nat
  <2>1. lDevices \in Seq(DevInfo) /\ logoutAt \in Nat
    BY DEF TypeOK
  <2> QED BY <2>1
<1>1. CASE Construct
  BY <1>1 DEF Construct, Unborn
<1>2. CASE LoginOk \/ LoginFails \/ ArmOk \/ ArmFails \/ LogoutRefused
  BY <1>2 DEF LoginOk, LoginFails, ArmOk, ArmFails, LogoutRefused
<1>3. CASE Register
  <2>1. /\ UNCHANGED <<client, logoutAt>>
        /\ \/ UNCHANGED lDevices
           \/ \E d : lDevices' = Append(lDevices, d)
    BY <1>3 DEF Register
  <2>2. Len(lDevices') \in {Len(lDevices), Len(lDevices) + 1}
    <3>1. lDevices \in Seq(DevInfo)
      BY DEF TypeOK
    <3> QED BY <2>1, <3>1
  <2> QED BY <2>1, <2>2, <1>0
<1>4. CASE SdkStep
  BY <1>4, SdkStepFrame
<1>5. CASE Destroy
  BY <1>5, <1>0 DEF Destroy
<1>6. CASE LogoutDevice
  BY <1>6, <1>0 DEF LogoutDevice
<1>7. CASE Cleanup \/ Restart
  BY <1>7 DEF Cleanup, Restart
<1> QED BY <1>1, <1>2, <1>3, <1>4, <1>5, <1>6, <1>7, NextCases

LEMMA ArmedOpenStep ==
  ASSUME TypeOK, Unborn, ArmedOpen, Next
  PROVE  ArmedOpen'
<1>0. owner \in [UserIds -> Cameras \cup {NoCamera}] /\ armed \subseteq UserIds
  BY DEF TypeOK
<1>1. CASE Construct \/ LoginFails \/ ArmFails \/ Register \/ Destroy
  BY <1>1 DEF Construct, LoginFails, ArmFails, Register, Destroy, NextDevice,
              ArmedOpen, main, sdk
<1>2. CASE LoginOk
  <2>1. PICK u \in UserIds : /\ owner[u] = NoCamera /\ lUserId' = u
                             /\ owner' = [owner EXCEPT ![u] = it]
    BY <1>2 DEF LoginOk
  <2>2. u \notin armed
    BY <2>1 DEF ArmedOpen, NoCamera, Cameras
  <2> QED BY <1>2, <2>1, <2>2, <1>0 DEF LoginOk, ArmedOpen
<1>3. CASE ArmOk
  BY <1>3, <1>0 DEF ArmOk, ArmedOpen, TypeOK
<1>4. CASE LogoutRefused
  BY <1>4, <1>0 DEF LogoutRefused, NextDevice, ArmedOpen
<1>5. CASE SdkStep
  BY <1>5, SdkStepFrame DEF ArmedOpen, main, sdk
<1>6. CASE LogoutDevice
  BY <1>6, <1>0 DEF LogoutDevice, ArmedOpen, main
<1>7. CASE Cleanup \/ Restart
  BY <1>7 DEF Cleanup, Restart, ArmedOpen
<1> QED BY <1>1, <1>2, <1>3, <1>4, <1>5, <1>6, <1>7, NextCases

LEMMA ListFrame ==
  ASSUME UNCHANGED lDevices
  PROVE  Registered' = Registered /\ \A u : Matches(u)' = Matches(u)
BY DEF Registered, Matches

\* Register appends one entry, for the session in lUserId.
LEMMA RegisterAppends ==
  ASSUME TypeOK, Register, client # "gone"
  PROVE  LET n == Len(lDevices) + 1 IN
         /\ n \in Nat /\ Len(lDevices) = n - 1 /\ Len(lDevices') = n
         /\ DOMAIN lDevices = 1 .. n - 1 /\ DOMAIN lDevices' = 1 .. n
         /\ \A i \in 1 .. n - 1 : lDevices'[i] = lDevices[i]
         /\ lDevices'[n].devId = Devices[it]
         /\ lDevices'[n].userId = lUserId
         /\ lDevices'[n].cam = it
         /\ Registered' = Registered \cup {lUserId}
<1> DEFINE d == [devId |-> Devices[it], userId |-> lUserId, cam |-> it]
           n == Len(lDevices) + 1
<1>1. lDevices \in Seq(DevInfo) /\ lDevices' = Append(lDevices, d)
  BY DEF TypeOK, Register
<1> HIDE DEF d
<1>2. /\ n \in Nat /\ Len(lDevices) = n - 1 /\ Len(lDevices') = n
      /\ DOMAIN lDevices = 1 .. n - 1 /\ DOMAIN lDevices' = 1 .. n
      /\ \A i \in 1 .. n - 1 : lDevices'[i] = lDevices[i]
      /\ lDevices'[n] = d
  BY <1>1
<1>3. d.devId = Devices[it] /\ d.userId = lUserId /\ d.cam = it
  BY DEF d
<1>4. Registered' = Registered \cup {lUserId}
  <2>1. 1 .. n = (1 .. n - 1) \cup {n}
    BY <1>2
  <2> HIDE DEF n
  <2> QED BY <1>2, <1>3, <2>1 DEF Registered
<1> QED BY <1>2, <1>3, <1>4

LEMMA LiveStep ==
  ASSUME TypeOK, Unborn, ArmedOpen, Live, Next
  PROVE  Live'
<1> SUFFICES ASSUME client' = "live" PROVE Live'
  BY DEF Live, SetupOpen, SessionsAccounted, RegisteredAreArmed
<1>0. /\ owner \in [UserIds -> Cameras \cup {NoCamera}] /\ armed \subseteq UserIds
      /\ src # "login" => lUserId \in UserIds /\ it \in Cameras
      /\ \A i \in DOMAIN lDevices : lDevices[i].userId \in UserIds
                                    /\ lDevices[i].cam \in Cameras
  <2>1. lDevices \in Seq(DevInfo)
    BY DEF TypeOK
  <2>2. \A i \in DOMAIN lDevices : lDevices[i] \in DevInfo
    BY <2>1
  <2> QED BY <2>2 DEF TypeOK, DevInfo
<1>1. CASE Construct
  <2>1. /\ src' = "login" /\ lDevices' = << >>
        /\ owner' = [u \in UserIds |-> NoCamera]
    BY <1>1 DEF Construct, Unborn, main, sdk
  <2>2. Registered' = {}
    BY <2>1 DEF Registered
  <2> QED BY <2>1, <2>2 DEF Live, SetupOpen, SessionsAccounted, RegisteredAreArmed,
                            InProgress
<1>2. CASE LoginOk
  <2>0. client = "live" /\ src = "login" /\ UNCHANGED <<lDevices, armed, it>> /\ src' = "arm"
    BY <1>2 DEF LoginOk
  <2>1. PICK u \in UserIds : /\ owner[u] = NoCamera /\ lUserId' = u
                             /\ owner' = [owner EXCEPT ![u] = it]
    BY <1>2 DEF LoginOk
  <2>2. it # NoCamera
    BY <1>2 DEF LoginOk, Cameras, NoCamera
  <2>3. Registered' = Registered /\ \A v : Matches(v)' = Matches(v)
    BY <2>0, ListFrame
  <2>4. \A i \in DOMAIN lDevices : lDevices[i].userId # u
    BY <2>0, <2>1, <1>0 DEF Live, RegisteredAreArmed, Cameras, NoCamera
  <2>5. SetupOpen'
    BY <2>0, <2>1, <2>3, <2>4, <1>0 DEF SetupOpen, Registered
  <2>6. SessionsAccounted'
    BY <2>0, <2>1, <2>2, <2>3, <1>0 DEF Live, SessionsAccounted, InProgress
  <2>7. RegisteredAreArmed'
    BY <2>0, <2>1, <2>3, <2>4, <1>0 DEF Live, RegisteredAreArmed, Matches
  <2> QED BY <2>5, <2>6, <2>7 DEF Live
<1>3. CASE LoginFails
  <2>1. client = "live" /\ src = "login" /\ src' = "login" /\ UNCHANGED <<owner, armed, lDevices>>
    BY <1>3 DEF LoginFails, NextDevice, sdk
  <2>2. Registered' = Registered
    BY <2>1, ListFrame
  <2> QED BY <2>1, <2>2 DEF Live, SetupOpen, SessionsAccounted, RegisteredAreArmed,
                            InProgress, Matches
<1>4. CASE ArmOk
  <2>1. /\ client = "live" /\ src = "arm" /\ src' = "push"
        /\ armed' = armed \cup {lUserId} /\ UNCHANGED <<it, lUserId, owner, lDevices>>
    BY <1>4 DEF ArmOk
  <2>2. Registered' = Registered
    BY <2>1, ListFrame
  <2> QED BY <2>1, <2>2 DEF Live, SetupOpen, SessionsAccounted, RegisteredAreArmed,
                            InProgress, Matches
<1>5. CASE ArmFails
  <2>1. /\ client = "live" /\ src = "arm" /\ src' = "logout"
        /\ UNCHANGED <<it, lUserId, armed, owner, lDevices>>
    BY <1>5 DEF ArmFails, sdk
  <2>2. Registered' = Registered
    BY <2>1, ListFrame
  <2> QED BY <2>1, <2>2 DEF Live, SetupOpen, SessionsAccounted, RegisteredAreArmed,
                            InProgress, Matches
<1>6. CASE LogoutRefused
  <2>1. /\ client = "live" /\ src = "logout" /\ src' = "login"
        /\ owner' = [owner EXCEPT ![lUserId] = NoCamera]
        /\ UNCHANGED <<armed, lDevices>>
    BY <1>6 DEF LogoutRefused, NextDevice
  <2>2. Registered' = Registered /\ \A v : Matches(v)' = Matches(v)
    BY <2>1, ListFrame
  <2>3. \A i \in DOMAIN lDevices : lDevices[i].userId # lUserId
    BY <2>1 DEF Live, SetupOpen, Registered
  <2>4. SetupOpen'
    BY <2>1 DEF SetupOpen
  <2>5. SessionsAccounted'
    <3>1. Registered \cap {lUserId} = {}
      BY <2>3 DEF Registered
    <3>2. {u \in UserIds : owner'[u] # NoCamera}
            = {u \in UserIds : owner[u] # NoCamera} \ {lUserId}
      BY <2>1, <1>0
    <3>3. {u \in UserIds : owner[u] # NoCamera} = Registered \cup {lUserId}
      BY <2>1 DEF Live, SessionsAccounted, InProgress
    <3> QED BY <2>1, <2>2, <3>1, <3>2, <3>3 DEF SessionsAccounted, InProgress
  <2>6. RegisteredAreArmed'
    BY <2>1, <2>2, <2>3, <1>0 DEF Live, RegisteredAreArmed, Matches
  <2> QED BY <2>4, <2>5, <2>6 DEF Live
<1>7. CASE Register
  <2> DEFINE n == Len(lDevices) + 1
  <2>1. /\ client = "live" /\ src = "push" /\ src' = "login"
        /\ UNCHANGED <<owner, armed>>
    BY <1>7 DEF Register, NextDevice, sdk
  <2>2. /\ n \in Nat /\ DOMAIN lDevices = 1 .. n - 1 /\ DOMAIN lDevices' = 1 .. n
        /\ \A i \in 1 .. n - 1 : lDevices'[i] = lDevices[i]
        /\ lDevices'[n].devId = Devices[it]
        /\ lDevices'[n].userId = lUserId
        /\ lDevices'[n].cam = it
        /\ Registered' = Registered \cup {lUserId}
    BY <1>7, <2>1, RegisterAppends
  <2> HIDE DEF n
  <2>3. SetupOpen'
    BY <2>1 DEF SetupOpen
  <2>4. SessionsAccounted'
    BY <2>1, <2>2 DEF Live, SessionsAccounted, InProgress
  <2>5. \A i \in 1 .. n - 1 : lDevices[i].userId # lUserId
    BY <2>1, <2>2 DEF Live, SetupOpen, Registered
  <2>6. ASSUME NEW i \in DOMAIN lDevices'
        PROVE  /\ owner'[lDevices'[i].userId] = lDevices'[i].cam
               /\ lDevices'[i].userId \in armed'
               /\ lDevices'[i].devId = Devices[lDevices'[i].cam]
               /\ {j \in DOMAIN lDevices' : lDevices'[j].userId = lDevices'[i].userId} = {i}
    <3>1. CASE i = n
      <4>1. owner[lUserId] = it /\ lUserId \in armed
        BY <2>1 DEF Live, SetupOpen
      <4> QED BY <3>1, <4>1, <2>1, <2>2, <2>5
    <3>2. CASE i # n
      <4>1. i \in 1 .. n - 1
        BY <3>2, <2>2
      <4>2. /\ owner[lDevices[i].userId] = lDevices[i].cam
            /\ lDevices[i].userId \in armed
            /\ lDevices[i].devId = Devices[lDevices[i].cam]
            /\ {j \in DOMAIN lDevices : lDevices[j].userId = lDevices[i].userId} = {i}
        BY <4>1, <2>1, <2>2 DEF Live, RegisteredAreArmed, Matches
      <4> QED BY <4>1, <4>2, <2>1, <2>2, <2>5
    <3> QED BY <3>1, <3>2
  <2>7. RegisteredAreArmed'
    BY <2>6 DEF RegisteredAreArmed, Matches
  <2> QED BY <2>3, <2>4, <2>7 DEF Live
<1>8. CASE SdkStep
  <2>1. UNCHANGED <<client, main, sdk, lDevices, logoutAt>>
    BY <1>8, SdkStepFrame
  <2> QED BY <2>1 DEF Live, SetupOpen, SessionsAccounted, RegisteredAreArmed,
                      InProgress, Matches, Registered, main, sdk
<1>9. CASE Destroy \/ LogoutDevice \/ Cleanup \/ Restart
  BY <1>9 DEF Destroy, LogoutDevice, Cleanup, Restart
<1> QED BY <1>1, <1>2, <1>3, <1>4, <1>5, <1>6, <1>7, <1>8, <1>9, NextCases

\* While the client is there, what is known stays known: a session leaves the
\* add_source that is about to push it only for the list.
LEMMA KnownStays ==
  ASSUME TypeOK, Next, Working, Working', NEW u, Known(u)
  PROVE  Known(u)'
<1>1. CASE LoginOk \/ LoginFails \/ ArmOk \/ ArmFails \/ LogoutRefused
  <2>1. UNCHANGED lDevices /\ src # "push"
    BY <1>1 DEF LoginOk, LoginFails, ArmOk, ArmFails, LogoutRefused
  <2> QED BY <2>1, ListFrame DEF Known
<1>2. CASE Register
  <2>1. CASE client = "gone"
    BY <2>1 DEF Working
  <2>2. CASE client # "gone"
    BY <1>2, <2>2, RegisterAppends DEF Known
  <2> QED BY <2>1, <2>2
<1>3. CASE Construct \/ Destroy \/ LogoutDevice
  <2>1. UNCHANGED <<lDevices, src, lUserId>>
    BY <1>3 DEF Construct, Destroy, LogoutDevice, main
  <2> QED BY <2>1, ListFrame DEF Known
<1>4. CASE SdkStep
  <2>1. UNCHANGED <<lDevices, src, lUserId>>
    BY <1>4, SdkStepFrame DEF main
  <2> QED BY <2>1, ListFrame DEF Known
<1>5. CASE Cleanup \/ Restart
  BY <1>5 DEF Cleanup, Restart, Working
<1> QED BY <1>1, <1>2, <1>3, <1>4, <1>5, NextCases

LEMMA WorkingStep ==
  ASSUME Next, Working'
  PROVE  Working \/ Construct
BY NextCases, SdkStepFrame DEF Construct, LoginOk, LoginFails, ArmOk, ArmFails,
   LogoutRefused, Register, Destroy, LogoutDevice, Cleanup, Restart, Working

LEMMA ArmedKnownStep ==
  ASSUME TypeOK, Unborn, ArmedKnown, Next
  PROVE  ArmedKnown'
<1> SUFFICES ASSUME Working', NEW u \in armed' PROVE Known(u)'
  BY DEF ArmedKnown
<1>1. CASE Construct
  BY <1>1 DEF Construct, Unborn, sdk
<1>2. CASE Working /\ u \in armed
  BY <1>2, KnownStays DEF ArmedKnown
<1>3. CASE Working /\ u \notin armed
  <2>1. CASE ArmOk
    BY <2>1, <1>3 DEF ArmOk, Known
  <2>2. CASE ~ ArmOk
    <3>1. armed' \subseteq armed
      BY <2>2, NextCases, SdkStepFrame DEF Construct, LoginOk, LoginFails, ArmFails,
         LogoutRefused, Register, Destroy, LogoutDevice, Cleanup, Restart, sdk
    <3> QED BY <3>1, <1>3
  <2> QED BY <2>1, <2>2
<1> QED BY <1>1, <1>2, <1>3, WorkingStep

-----------------------------------------------------------------------------
(* Callbacks.                                                              *)

\* A callback that is in its look-up was there before, or was just raised by
\* an armed session.
LEMMA LookupOrigin ==
  ASSUME TypeOK, Next, NEW t \in SdkThreads, callback'[t].at = "lookup"
  PROVE  \/ callback'[t] = callback[t]
         \/ /\ Initialised /\ callback'[t].userId \in armed
            /\ callback'[t].cam = owner[callback'[t].userId]
            /\ UNCHANGED <<client, main, sdk, lDevices>>
<1>1. CASE SdkStep
  <2>1. PICK s \in SdkThreads : Raise(s) \/ Lookup(s) \/ Report(s)
    BY <1>1 DEF SdkStep, Callback
  <2>2. CASE s # t
    BY <2>1, <2>2 DEF TypeOK, Raise, Lookup, Report
  <2>3. CASE s = t /\ Raise(s)
    <3>1. PICK u \in armed, k \in Kinds :
            callback' = [callback EXCEPT ![s] =
              [at |-> "lookup", userId |-> u, kind |-> k, cam |-> owner[u]]]
      BY <2>3 DEF Raise
    <3>2. callback'[t] = [at |-> "lookup", userId |-> u, kind |-> k, cam |-> owner[u]]
      BY <3>1, <2>3 DEF TypeOK
    <3> QED BY <3>2, <2>3 DEF Raise
  <2>4. CASE s = t /\ Lookup(s)
    <3>1. \/ UNCHANGED callback
          \/ \E d : callback' = [callback EXCEPT ![t] = [at |-> "report",
                                   devId |-> d, cam |-> callback[t].cam]]
          \/ callback' = [callback EXCEPT ![t] = Quiet]
      BY <2>4 DEF Lookup
    <3>2. callback \in [SdkThreads -> {Quiet} \cup Entering \cup Reporting]
      BY DEF TypeOK
    <3> QED BY <3>1, <3>2 DEF Quiet
  <2>5. CASE s = t /\ Report(s)
    BY <2>5 DEF Report, TypeOK, Quiet
  <2> QED BY <2>1, <2>2, <2>3, <2>4, <2>5
<1>2. CASE ~ SdkStep /\ ~ Restart
  BY <1>2, NextCases DEF Construct, LoginOk, LoginFails, ArmOk, ArmFails,
     LogoutRefused, Register, Destroy, LogoutDevice, Cleanup
<1>3. CASE Restart
  BY <1>3 DEF Restart, Quiet
<1> QED BY <1>1, <1>2, <1>3

LEMMA CallbacksKnownStep ==
  ASSUME TypeOK, Unborn, ArmedKnown, CallbacksKnown, Next
  PROVE  CallbacksKnown'
<1> SUFFICES ASSUME Working', NEW t \in SdkThreads, callback'[t].at = "lookup"
             PROVE  Known(callback[t].userId)'
  BY DEF CallbacksKnown
<1> DEFINE u == callback'[t].userId
<1>1. CASE Construct
  BY <1>1 DEF Construct, Unborn, Quiet
<1>2. CASE Working
  <2>1. Known(u)
    <3>1. CASE callback'[t] = callback[t]
      BY <3>1, <1>2 DEF CallbacksKnown
    <3>2. CASE callback'[t].userId \in armed
      BY <3>2, <1>2 DEF ArmedKnown
    <3> QED BY <3>1, <3>2, LookupOrigin
  <2>2. u \in Registered' \/ (src' = "push" /\ u = lUserId')
    <3> HIDE DEF u
    <3> QED BY <2>1, <1>2, KnownStays DEF Known
  <2> QED BY <2>2 DEF Known
<1> QED BY <1>1, <1>2, WorkingStep

LEMMA CallbacksOwnedStep ==
  ASSUME TypeOK, Unborn, Live, CallbacksKnown, CallbacksOwned, Next
  PROVE  CallbacksOwned'
<1> SUFFICES ASSUME client' = "live", NEW t \in SdkThreads, callback'[t].at = "lookup"
             PROVE  owner'[callback'[t].userId] = callback'[t].cam
  BY DEF CallbacksOwned
<1>1. CASE Construct
  BY <1>1 DEF Construct, Unborn, Quiet
<1>2. CASE SdkStep
  BY <1>2, SdkStepFrame, LookupOrigin DEF CallbacksOwned, main, sdk
<1>3. CASE ~ Construct /\ ~ SdkStep
  <2> DEFINE u == callback[t].userId
  <2>1. client = "live" /\ UNCHANGED callback
    BY <1>3, NextCases DEF LoginOk, LoginFails, ArmOk, ArmFails, LogoutRefused,
       Register, Destroy, LogoutDevice, Cleanup, Restart
  <2>2. owner[u] = callback[t].cam /\ Known(u)
    BY <2>1 DEF CallbacksOwned, CallbacksKnown, Working
  <2>3. u \in UserIds /\ callback[t].cam \in Cameras
    <3>1. callback[t] \in {Quiet} \cup Entering \cup Reporting
      BY DEF TypeOK
    <3> QED BY <3>1, <2>1 DEF Quiet, Entering, Reporting
  <2>4. CASE LoginOk
    <3>1. PICK v \in UserIds : /\ owner[v] = NoCamera
                               /\ owner' = [owner EXCEPT ![v] = it]
      BY <2>4 DEF LoginOk
    <3>2. u # v
      BY <2>2, <2>3, <3>1 DEF NoCamera, Cameras
    <3>3. owner \in [UserIds -> Cameras \cup {NoCamera}]
      BY DEF TypeOK
    <3> HIDE DEF u
    <3>4. owner'[u] = owner[u]
      BY <3>1, <3>2, <3>3, <2>3
    <3> QED BY <3>4, <2>1, <2>2 DEF u
  <2>5. CASE LogoutRefused
    <3>1. u # lUserId
      BY <2>1, <2>2, <2>5 DEF LogoutRefused, Live, SetupOpen, Known
    <3> QED BY <3>1, <2>1, <2>2, <2>3, <2>5 DEF LogoutRefused, TypeOK
  <2>6. CASE ~ LoginOk /\ ~ LogoutRefused
    BY <2>1, <2>2, <2>6, <1>3, NextCases DEF LoginFails, ArmOk, ArmFails, Register,
       Destroy, LogoutDevice, Cleanup, Restart, sdk
  <2> QED BY <2>4, <2>5, <2>6
<1> QED BY <1>1, <1>2, <1>3

LEMMA AttributionStep ==
  ASSUME TypeOK, Unborn, Live, CallbacksOwned, Attribution, Next
  PROVE  Attribution'
<1> SUFFICES ASSUME client' = "live", NEW t \in SdkThreads, callback'[t].at = "report"
             PROVE  callback'[t].devId = Devices[callback'[t].cam]
  BY DEF Attribution
<1>1. CASE Construct
  BY <1>1 DEF Construct, Unborn, Quiet
<1>2. CASE callback'[t] = callback[t] /\ client = "live"
  BY <1>2 DEF Attribution
<1>3. CASE SdkStep /\ callback'[t] # callback[t]
  <2>1. client = "live"
    BY <1>3, SdkStepFrame
  <2>2. PICK s \in SdkThreads : Raise(s) \/ Lookup(s) \/ Report(s)
    BY <1>3 DEF SdkStep, Callback
  <2>3. CASE Raise(s)
    <3>1. PICK u, k, c : callback' = [callback EXCEPT ![s] =
                     [at |-> "lookup", userId |-> u, kind |-> k, cam |-> c]]
      BY <2>3 DEF Raise
    <3> QED BY <3>1, <1>3 DEF TypeOK
  <2>4. CASE Report(s)
    BY <2>4, <1>3 DEF Report, TypeOK, Quiet
  <2>5. CASE Lookup(s)
    <3> DEFINE u == callback[s].userId
               d == get_device_byUserId(u)
    <3>1. /\ Matches(u) # {} /\ callback[s].at = "lookup"
          /\ \/ callback' = [callback EXCEPT ![s] =
                 [at |-> "report", devId |-> d.devId, cam |-> callback[s].cam]]
             \/ callback' = [callback EXCEPT ![s] = Quiet]
      BY <2>5, <1>3 DEF Lookup
    <3>2. PICK i \in DOMAIN lDevices : d = lDevices[i] /\ lDevices[i].userId = u
      <4> HIDE DEF u
      <4> QED BY <3>1, LookupFinds
    <3>3. d.devId = Devices[owner[u]]
      BY <2>1, <3>2 DEF Live, RegisteredAreArmed
    <3>4. owner[u] = callback[s].cam
      BY <2>1, <3>1 DEF CallbacksOwned
    <3>5. callback \in [SdkThreads -> {Quiet} \cup Entering \cup Reporting]
      BY DEF TypeOK
    <3> HIDE DEF u, d
    <3> QED BY <3>1, <3>3, <3>4, <3>5, <1>3 DEF Quiet
  <2> QED BY <2>2, <2>3, <2>4, <2>5
<1>4. CASE ~ Construct /\ ~ SdkStep
  BY <1>2, <1>4, NextCases DEF LoginOk, LoginFails, ArmOk, ArmFails, LogoutRefused,
     Register, Destroy, LogoutDevice, Cleanup, Restart
<1> QED BY <1>1, <1>2, <1>3, <1>4, SdkStepFrame

LEMMA NullDeviceStep ==
  ASSUME TypeOK, Unborn, CallbacksKnown, NullDeviceOnlyWhileRegistering, Next
  PROVE  NullDeviceOnlyWhileRegistering'
<1> SUFFICES ASSUME fault' = "null device" PROVE NullDeviceOnlyWhileRegistering'
  BY DEF NullDeviceOnlyWhileRegistering
<1>1. CASE SdkStep
  <2>1. PICK t \in SdkThreads : Raise(t) \/ Lookup(t) \/ Report(t)
    BY <1>1 DEF SdkStep, Callback
  <2>2. Alive /\ UNCHANGED <<main, lDevices>>
    BY <2>1 DEF Raise, Lookup, Report
  <2>3. /\ Lookup(t) /\ client # "gone" /\ Matches(callback[t].userId) = {}
        /\ UNCHANGED callback
    BY <2>1, <2>2 DEF Raise, Lookup, Report, Alive
  <2>4. Working
    <3>0. callback[t].at = "lookup"
      BY <2>3 DEF Lookup
    <3>1. client = "none" => callback[t] = Quiet
      BY DEF Unborn
    <3>2. Quiet.at = "idle"
      BY DEF Quiet
    <3>3. client # "none"
      BY <3>0, <3>1, <3>2
    <3> QED BY <2>3, <3>3 DEF Working, TypeOK
  <2>5. callback[t].userId \notin Registered
    BY <2>3, RegisteredMatch
  <2>6. src = "push" /\ callback[t].userId = lUserId /\ callback[t].at = "lookup"
    BY <2>3, <2>4, <2>5 DEF CallbacksKnown, Known, Lookup
  <2> QED BY <2>2, <2>3, <2>6 DEF NullDeviceOnlyWhileRegistering, main
<1>2. CASE ~ SdkStep
  BY <1>2, NextCases DEF Construct, LoginOk, LoginFails, ArmOk, ArmFails,
     LogoutRefused, Register, Destroy, LogoutDevice, Cleanup, Restart, Alive
<1> QED BY <1>1, <1>2

-----------------------------------------------------------------------------
(* The destructor.                                                         *)

LEMMA ClosingStep ==
  ASSUME TypeOK, LogoutPosition, Live, ClosingAccounted, Next
  PROVE  ClosingAccounted'
<1> SUFFICES ASSUME client' = "closing", NEW u \in UserIds, owner'[u] # NoCamera
             PROVE  \/ u \in InProgress'
                    \/ \E i \in logoutAt' .. Len(lDevices') : lDevices'[i].userId = u
  BY DEF ClosingAccounted
<1>0. /\ owner \in [UserIds -> Cameras \cup {NoCamera}]
      /\ lDevices \in Seq(DevInfo) /\ logoutAt \in Nat /\ Len(lDevices) \in Nat
      /\ src # "login" => lUserId \in UserIds
  <2>1. lDevices \in Seq(DevInfo)
    BY DEF TypeOK
  <2>2. Len(lDevices) \in Nat
    BY <2>1
  <2> QED BY <2>1, <2>2 DEF TypeOK
<1>1. CASE Destroy
  <2>1. /\ client = "live" /\ logoutAt' = 1
        /\ UNCHANGED <<owner, lDevices, src, lUserId>>
    BY <1>1 DEF Destroy, LogoutPosition, main, sdk
  <2>2. u \in Registered \/ u \in InProgress
    BY <2>1 DEF Live, SessionsAccounted
  <2> QED BY <2>1, <2>2, <1>0 DEF Registered, InProgress
<1>2. CASE LoginOk \/ LoginFails \/ ArmOk \/ ArmFails \/ LogoutRefused
  <2>1. client = "closing" /\ UNCHANGED <<lDevices, logoutAt>>
    BY <1>2 DEF LoginOk, LoginFails, ArmOk, ArmFails, LogoutRefused
  <2>2. CASE u \in InProgress'
    BY <2>2
  <2>3. CASE u \notin InProgress'
    <3>1. owner[u] # NoCamera /\ u \notin InProgress
      BY <1>2, <2>3, <1>0 DEF LoginOk, LoginFails, ArmOk, ArmFails, LogoutRefused,
                              NextDevice, InProgress, sdk
    <3> QED BY <2>1, <3>1 DEF ClosingAccounted
  <2> QED BY <2>2, <2>3
<1>3. CASE Register
  <2> DEFINE n == Len(lDevices) + 1
  <2>1. client = "closing" /\ src = "push" /\ UNCHANGED <<owner, logoutAt>>
    BY <1>3 DEF Register, sdk
  <2>2. /\ n \in Nat /\ Len(lDevices) = n - 1 /\ Len(lDevices') = n
        /\ \A i \in 1 .. n - 1 : lDevices'[i] = lDevices[i]
        /\ lDevices'[n].userId = lUserId
    BY <1>3, <2>1, RegisterAppends
  <2>3. logoutAt <= n
    BY <2>1 DEF LogoutPosition
  <2>6. logoutAt >= 1
    <3>1. logoutAt \in Nat \ {0}
      BY DEF TypeOK
    <3> QED BY <3>1
  <2> HIDE DEF n
  <2>4. CASE u \in InProgress
    <3>1. u = lUserId
      BY <2>4, <2>1 DEF InProgress
    <3>2. n \in logoutAt' .. Len(lDevices')
      BY <2>1, <2>2, <2>3, <1>0
    <3> QED BY <3>1, <3>2, <2>2
  <2>5. CASE u \notin InProgress
    <3>1. PICK i \in logoutAt .. Len(lDevices) : lDevices[i].userId = u
      BY <2>1, <2>5 DEF ClosingAccounted
    <3>2. i \in 1 .. n - 1 /\ i \in logoutAt' .. Len(lDevices')
      BY <2>1, <2>2, <2>3, <2>6, <1>0
    <3> QED BY <3>1, <3>2, <2>2
  <2> QED BY <2>4, <2>5
<1>4. CASE SdkStep
  <2>1. UNCHANGED <<client, owner, lDevices, logoutAt, src, lUserId>>
    BY <1>4, SdkStepFrame DEF main, sdk
  <2> QED BY <2>1 DEF ClosingAccounted, InProgress
<1>5. CASE LogoutDevice
  <2> DEFINE v == lDevices[logoutAt].userId
  <2>1. /\ client = "closing" /\ logoutAt' = logoutAt + 1
        /\ owner' = [owner EXCEPT ![v] = NoCamera]
        /\ UNCHANGED <<lDevices, src, lUserId>>
    BY <1>5 DEF LogoutDevice, main
  <2> HIDE DEF v
  <2>2. owner[u] # NoCamera /\ u # v
    BY <2>1, <1>0
  <2>3. CASE u \in InProgress
    BY <2>1, <2>3 DEF InProgress
  <2>4. CASE u \notin InProgress
    <3>1. PICK i \in logoutAt .. Len(lDevices) : lDevices[i].userId = u
      BY <2>1, <2>2, <2>4 DEF ClosingAccounted
    <3>2. i # logoutAt
      BY <3>1, <2>2 DEF v
    <3>3. i \in logoutAt' .. Len(lDevices')
      BY <2>1, <3>2, <1>0
    <3> QED BY <3>1, <3>3, <2>1
  <2> QED BY <2>3, <2>4
<1>6. CASE Construct \/ Cleanup \/ Restart
  BY <1>6 DEF Construct, Cleanup, Restart
<1> QED BY <1>1, <1>2, <1>3, <1>4, <1>5, <1>6, NextCases

-----------------------------------------------------------------------------
(* The theorems.                                                           *)

LEMMA IInvInit == Init => IInv
<1> SUFFICES ASSUME Init PROVE IInv
  OBVIOUS
<1>1. TypeOK
  <2>1. it \in 1 .. Len(Devices) + 1 /\ logoutAt \in Nat \ {0}
    BY DevicesType DEF Init
  <2>2. lDevices \in Seq(DevInfo)
    BY EmptySeq DEF Init
  <2> QED BY <2>1, <2>2 DEF Init, TypeOK
<1>2. Unborn /\ LogoutPosition /\ ArmedOpen
  BY DEF Init, Unborn, LogoutPosition, ArmedOpen
<1>3. Live
  BY DEF Init, Live, SetupOpen, SessionsAccounted, RegisteredAreArmed
<1>4. ArmedKnown /\ CallbacksKnown /\ CallbacksOwned
  BY DEF Init, ArmedKnown, CallbacksKnown, CallbacksOwned, Working
<1>5. Attribution /\ NullDeviceOnlyWhileRegistering /\ ClosingAccounted
  BY DEF Init, Attribution, NullDeviceOnlyWhileRegistering, ClosingAccounted
<1> QED BY <1>1, <1>2, <1>3, <1>4, <1>5 DEF IInv

LEMMA IInvStep == IInv /\ [Next]_vars => IInv'
<1>1. ASSUME IInv, Next PROVE IInv'
  BY <1>1, TypeStep, UnbornStep, LogoutPositionStep, ArmedOpenStep, LiveStep,
     ArmedKnownStep, CallbacksKnownStep, CallbacksOwnedStep, AttributionStep,
     NullDeviceStep, ClosingStep DEF IInv
<1>2. ASSUME IInv, UNCHANGED vars PROVE IInv'
  <2> USE <1>2 DEF vars
  <2>1. TypeOK'
    BY DEF IInv, TypeOK
  <2>2. Unborn' /\ LogoutPosition' /\ ArmedOpen'
    BY DEF IInv, Unborn, LogoutPosition, ArmedOpen
  <2>3. Live'
    BY DEF IInv, Live, SetupOpen, SessionsAccounted, RegisteredAreArmed,
           Registered, InProgress, Matches
  <2>4. ArmedKnown' /\ CallbacksKnown' /\ CallbacksOwned'
    BY DEF IInv, ArmedKnown, CallbacksKnown, CallbacksOwned, Working, Known, Registered
  <2>5. Attribution' /\ NullDeviceOnlyWhileRegistering' /\ ClosingAccounted'
    BY DEF IInv, Attribution, NullDeviceOnlyWhileRegistering, ClosingAccounted, InProgress
  <2> QED BY <2>1, <2>2, <2>3, <2>4, <2>5 DEF IInv
<1> QED BY <1>1, <1>2

LEMMA IInvHolds == Spec => []IInv
BY IInvInit, IInvStep, PTL DEF Spec

\* The variables keep their types.
THEOREM TypeCorrect == Spec => []TypeOK
BY IInvHolds, PTL DEF IInv

\* No session is leaked: while the client lives, every session that
\* NET_DVR_Login_V40 opened is in lDevices or being set up by add_source.
THEOREM NoSessionLeak == Spec => []SessionsAccounted
<1>1. IInv => SessionsAccounted
  BY DEF IInv, Live
<1> QED BY <1>1, IInvHolds, PTL

\* Each entry of lDevices is the open, armed session of its own device, and
\* no user id is listed twice, so the search by user id is unambiguous.
THEOREM RegistrationCorrect == Spec => []RegisteredAreArmed
<1>1. IInv => RegisteredAreArmed
  BY DEF IInv, Live
<1> QED BY <1>1, IInvHolds, PTL

\* Whatever the interleaving of SDK threads and registrations, an alarm is
\* reported under the id of the device that raised it.
THEOREM AttributionCorrect == Spec => []Attribution
BY IInvHolds, PTL DEF IInv

\* The null dereference of the alarm handlers can only hit the event of a
\* device whose channel is armed and whose push_back is still to come.
THEOREM NullDeviceWindow == Spec => []NullDeviceOnlyWhileRegistering
BY IInvHolds, PTL DEF IInv

\* The destructor logs out every session but the one in add_source.
THEOREM DestructorLogsOut == Spec => []LogoutLeavesInProgress
<1>1. IInv => LogoutLeavesInProgress
  <2> SUFFICES ASSUME IInv, client = "closing", logoutAt > Len(lDevices),
                      NEW u \in UserIds, owner[u] # NoCamera
               PROVE  u \in InProgress
    BY DEF LogoutLeavesInProgress
  <2>1. logoutAt \in Nat /\ Len(lDevices) \in Nat
    <3>1. lDevices \in Seq(DevInfo) /\ logoutAt \in Nat
      BY DEF IInv, TypeOK
    <3> QED BY <3>1
  <2>2. logoutAt .. Len(lDevices) = {}
    BY <2>1
  <2> QED BY <2>2 DEF IInv, ClosingAccounted
<1> QED BY <1>1, IInvHolds, PTL

=============================================================================
