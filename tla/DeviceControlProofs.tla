------------------------- MODULE DeviceControlProofs -------------------------
(***************************************************************************)
(* Proofs about DeviceControl, for every list of devices, any channels and *)
(* names, and a table of presets of any length.                            *)
(***************************************************************************)
EXTENDS DeviceControl, FiniteSetTheorems, SequenceTheorems, WellFoundedInduction, TLAPS

\* A non-empty set of numbers has a least one, the one Min picks: what a
\* search that leaves its loop at the first match returns.
LEMMA MinOfNaturals ==
  ASSUME NEW S, S \subseteq Nat, S # {}
  PROVE  Min(S) \in S /\ \A y \in S : Min(S) <= y
<1> DEFINE Below == {0 .. x : x \in S}
<1>1. Below \subseteq FiniteSubsetsOf(Nat) /\ Below # {}
  <2>1. \A x \in S : 0 .. x \in SUBSET Nat /\ IsFiniteSet(0 .. x)
    BY FS_Interval
  <2> QED BY <2>1 DEF FiniteSubsetsOf
<1>2. PICK X \in Below : \A Y \in Below : ~ (<<Y, X>> \in StrictSubsetOrdering(Nat))
  <2> HIDE DEF Below
  <2> QED BY <1>1, FS_StrictSubsetOrderingWellFounded, WFMin
<1>3. PICK m \in S : X = 0 .. m
  OBVIOUS
<1>4. ASSUME NEW y \in S, y < m PROVE FALSE
  <2>1. 0 .. y \in Below /\ 0 .. y \subseteq X /\ m \in X /\ m \notin 0 .. y
    BY <1>3, <1>4
  <2> QED BY <2>1, <1>1, <1>2, <1>3 DEF StrictSubsetOrdering, FiniteSubsetsOf
<1>5. \A y \in S : m <= y
  BY <1>4
<1> QED BY <1>5 DEF Min

-----------------------------------------------------------------------------
(* The invariant.                                                          *)

\* Entries are appended as devices are tried, and only one that is there has
\* been updated.
Behind == Len(lDevices) < it /\ synced \subseteq DOMAIN lDevices

IInv == TypeOK /\ Behind /\ CacheCurrent /\ MovementEnds /\ ShownAsAsked

LEMMA DevicesType ==
  /\ Len(Devices) \in Nat
  /\ DOMAIN Devices = Cameras
  /\ \A i \in Cameras : Devices[i] \in DevIds /\ StartChan[i] \in Channels
BY DevicesAssumption, StartChanAssumption DEF Cameras

\* No more entries than devices are configured.
LEMMA EntriesAreCameras ==
  ASSUME TypeOK, Behind
  PROVE  DOMAIN lDevices \subseteq Cameras
BY DevicesType DEF TypeOK, Behind, Cameras

\* get_device_byDevId returns an entry with the id it was given, if there is
\* one.
LEMMA LookupFinds ==
  ASSUME TypeOK, NEW d, WithDevId(d) # {}
  PROVE  Min(WithDevId(d)) \in DOMAIN lDevices
<1>1. DOMAIN lDevices \subseteq Nat
  BY DEF TypeOK
<1> QED BY <1>1, MinOfNaturals DEF WithDevId

\* A command that is being executed has a request and an entry.
LEMMA Executing ==
  ASSUME TypeOK, cmd # Idle
  PROVE  /\ cmd.req \in Command /\ cmd.req.channel \in Channels
         /\ cmd.dev \in DOMAIN lDevices /\ cmd.dev \in Cameras
         /\ cam \in Cameras /\ struParams \in PresetList
<1>1. cmd \in Doing \cup Telling \cup Showing
  BY DEF TypeOK
<1>2. cmd.req \in Command /\ cmd.dev \in Cameras
  BY <1>1 DEF Doing, Telling, Showing
<1>3. cmd.dev \in DOMAIN lDevices
  BY DEF TypeOK
<1>4. lDevices[cmd.dev] \in DevInfo
  <2>1. lDevices \in Seq(DevInfo)
    BY DEF TypeOK
  <2> QED BY <1>3, <2>1
<1>5. cmd.req.channel \in Channels
  BY <1>2 DEF Command
<1> QED BY <1>2, <1>3, <1>4, <1>5 DEF DevInfo, cam, struParams

-----------------------------------------------------------------------------
(* Type correctness.                                                       *)

\* A command under way is not Idle.
LEMMA NotIdle ==
  /\ \A methods : Calls(methods) => cmd # Idle
  /\ cmd.at \in {"sleep", "reply"} => cmd # Idle
BY DEF Calls, Idle

LEMMA TellType ==
  ASSUME TypeOK, cmd # Idle, NEW code \in InfoT, Tell(code)
  PROVE  cmd' \in Telling /\ cmd'.dev = cmd.dev
BY Executing DEF Tell, Telling

LEMMA SearchType ==
  ASSUME TypeOK, Calls(Search), SearchPreset
  PROVE  cmd' \in {Idle} \cup Showing /\ (cmd' # Idle => cmd'.dev = cmd.dev)
<1> DEFINE p == Min(Found)
<1>1. cmd # Idle /\ struParams \in PresetList
  BY NotIdle, Executing
<1>2. CASE Found = {}
  BY <1>2 DEF SearchPreset
<1>3. CASE Found # {}
  <2>1. Found \subseteq Slots
    BY DEF Found, byName, byNumber
  <2>2. p \in Slots
    <3>1. Found \subseteq Nat
      BY <2>1 DEF Slots
    <3>2. p \in Found
      BY <1>3, <3>1, MinOfNaturals
    <3> QED BY <2>1, <3>2
  <2>3. wPresetNum(p) \in Slots \cup {0} /\ struParams[p] \in Names \cup {NoName}
    BY <1>1, <2>2 DEF wPresetNum, PresetList
  <2>4. cmd' = [at |-> "reply", req |-> cmd.req, dev |-> cmd.dev,
                infoT |-> "HM_PRESET_DETAILS",
                preset |-> wPresetNum(p), name |-> struParams[p]]
    BY <1>3 DEF SearchPreset
  <2>5. cmd.req \in Command /\ cmd.dev \in Cameras
    BY <1>1, Executing
  <2> QED BY <2>3, <2>4, <2>5 DEF Showing, InfoT
<1> QED BY <1>2, <1>3

\* The steps that write to a cache, and the one that adds an entry.
LEMMA CacheWritten ==
  ASSUME TypeOK, cmd # Idle, NEW list \in PresetList,
         lDevices' = [lDevices EXCEPT ![cmd.dev].struParams = list]
  PROVE  /\ lDevices' \in Seq(DevInfo) /\ DOMAIN lDevices' = DOMAIN lDevices
         /\ Len(lDevices') = Len(lDevices)
         /\ lDevices'[cmd.dev].cam = cam /\ lDevices'[cmd.dev].struParams = list
         /\ \A i \in DOMAIN lDevices : i # cmd.dev => lDevices'[i] = lDevices[i]
<1>1. lDevices \in Seq(DevInfo) /\ cmd.dev \in DOMAIN lDevices
  BY Executing DEF TypeOK
<1>2. lDevices[cmd.dev] \in DevInfo
  BY <1>1
<1> DEFINE d == [lDevices[cmd.dev] EXCEPT !.struParams = list]
<1>3. d \in DevInfo /\ d.cam = cam /\ d.struParams = list
  BY <1>2 DEF DevInfo, cam
<1>4. lDevices' = [lDevices EXCEPT ![cmd.dev] = d]
  OBVIOUS
<1> HIDE DEF d
<1> QED BY <1>1, <1>3, <1>4

LEMMA CacheType ==
  ASSUME TypeOK, Next
  PROVE  lDevices' \in Seq(DevInfo)
<1>0. lDevices \in Seq(DevInfo)
  BY DEF TypeOK
<1>1. CASE AddSource
  <2>1. [cam |-> it, struParams |-> Unset] \in DevInfo
    BY <1>1 DEF AddSource, DevInfo, PresetList, Unset
  <2> QED BY <1>0, <1>1, <2>1 DEF AddSource
<1>2. CASE UpdatePresetNames
  <2>1. cmd # Idle /\ cam \in Cameras
    BY <1>2, NotIdle, Executing DEF UpdatePresetNames
  <2>2. presets[cam][StartChan[cam]] \in PresetList
    BY <2>1, DevicesType DEF TypeOK
  <2> QED BY <1>2, <2>1, <2>2, CacheWritten DEF UpdatePresetNames
<1>5. CASE UpdateRefused
  BY <1>5, NotIdle, CacheWritten DEF UpdateRefused
<1>3. CASE Restart
  BY <1>3 DEF Restart
<1>4. CASE UNCHANGED lDevices
  BY <1>0, <1>4
<1> QED
  BY <1>1, <1>2, <1>3, <1>4, <1>5 DEF Next, Receive, Execute, SearchPreset,
    PtzPreset, PtzPresetRefused, PtzStart, PtzStartRefused, PtzStop,
    PtzStopRefused, OtherCommand, Reply, CameraChange, CameraPans, program

LEMMA CommandType ==
  ASSUME TypeOK, Behind, Next
  PROVE  /\ cmd' \in {Idle} \cup Doing \cup Telling \cup Showing
         /\ cmd' # Idle => cmd'.dev \in DOMAIN lDevices'
<1> DEFINE Fine(c) == /\ c \in {Idle} \cup Doing \cup Telling \cup Showing
                      /\ c # Idle => c.dev \in DOMAIN lDevices
<1>0. Fine(cmd)
  BY DEF TypeOK
<1>1. CASE UNCHANGED cmd /\ (UNCHANGED lDevices \/ AddSource)
  <2>1. DOMAIN lDevices \subseteq DOMAIN lDevices'
    BY <1>1 DEF AddSource, TypeOK
  <2> QED BY <1>0, <1>1, <2>1
<1>2. CASE cmd' = Idle
  BY <1>2
<1>3. ASSUME cmd # Idle, NEW code \in InfoT, Tell(code)
      PROVE  Fine(cmd')
  BY <1>0, <1>3, TellType
<1>4. CASE Receive
  <2>1. PICK c \in Command :
          /\ WithDevId(c.devId) # {}
          /\ cmd' = [at |-> "call", req |-> c, dev |-> Min(WithDevId(c.devId))]
    BY <1>4 DEF Receive
  <2>2. Min(WithDevId(c.devId)) \in DOMAIN lDevices
    BY <2>1, LookupFinds
  <2>3. DOMAIN lDevices \subseteq Cameras
    BY EntriesAreCameras
  <2> QED BY <1>4, <2>1, <2>2, <2>3 DEF Receive, Doing
<1>5. CASE SearchPreset
  <2>1. Calls(Search) /\ UNCHANGED lDevices
    BY <1>5 DEF SearchPreset
  <2> QED BY <1>0, <1>5, <2>1, NotIdle, SearchType
<1>6. CASE PtzStart
  <2>1. cmd # Idle /\ cmd.at = "call" /\ cmd' = [cmd EXCEPT !.at = "sleep"]
        /\ UNCHANGED lDevices
    BY <1>6, NotIdle DEF PtzStart, Calls
  <2>2. cmd \in Doing
    BY <1>0, <2>1 DEF Telling, Showing
  <2>3. cmd' \in Doing /\ cmd'.dev = cmd.dev
    BY <2>1, <2>2 DEF Doing
  <2> QED BY <1>0, <2>1, <2>3
<1>7. CASE PtzPresetRefused \/ PtzStartRefused
  BY <1>3, <1>7, NotIdle DEF PtzPresetRefused, PtzStartRefused, InfoT
<1>9. CASE UpdateRefused
  <2>1. cmd # Idle /\ Tell("HM_UPDATE_PRESET_NAMES") /\ DOMAIN lDevices' = DOMAIN lDevices
    BY <1>9, NotIdle, CacheWritten DEF UpdateRefused
  <2>2. Fine(cmd')
    BY <1>3, <2>1 DEF InfoT
  <2> QED BY <2>1, <2>2
<1>8. CASE OtherCommand
  <2>1. cmd # Idle /\ UNCHANGED lDevices /\ cmd.req.method \in Ask \cup Order
    BY <1>8, NotIdle DEF OtherCommand, Calls
  <2>2. Codes(cmd.req.method) \subseteq InfoT
    BY <2>1 DEF Codes, InfoT, Ask, Order
  <2> QED BY <1>2, <1>3, <1>8, <2>1, <2>2 DEF OtherCommand
<1> QED
  BY <1>1, <1>2, <1>4, <1>5, <1>6, <1>7, <1>8, <1>9 DEF Next, AddSource, Execute,
    UpdatePresetNames, PtzPreset, PtzStop, PtzStopRefused, Reply, CameraChange,
    CameraPans, program, Restart

LEMMA CamerasType ==
  ASSUME TypeOK, Next
  PROVE  /\ it' \in 1 .. Len(Devices) + 1
         /\ presets' \in [Cameras -> [Channels -> PresetList]]
         /\ moving' \in SUBSET (Cameras \X Channels)
         /\ changes' \in 0 .. MaxChanges
         /\ synced' \in SUBSET Cameras
         /\ abandoned' \in SUBSET (Cameras \X Channels)
<1>1. cmd # Idle => Target \in Cameras \X Channels /\ cmd.dev \in Cameras
                    /\ cmd.req.channel \in Channels /\ cam \in Cameras
  BY Executing DEF Target
<1>2. ASSUME NEW c \in Cameras, NEW ch \in Channels, NEW p \in Slots,
             NEW n \in Names \cup {NoName},
             presets' = [presets EXCEPT ![c][ch][p] = n]
      PROVE  presets' \in [Cameras -> [Channels -> PresetList]]
  BY <1>2 DEF TypeOK, PresetList
<1>3. ASSUME NEW c \in Cameras, Changed(c)
      PROVE  changes' \in 0 .. MaxChanges /\ synced' \in SUBSET Cameras
  BY <1>3, LimitAssumption DEF TypeOK, Changed
<1>4. CASE AddSource
  BY <1>4, DevicesType DEF AddSource, TypeOK, Cameras, cameras
<1>5. CASE UpdatePresetNames \/ UpdateRefused
  BY <1>1, <1>5, NotIdle DEF UpdatePresetNames, UpdateRefused, TypeOK, cameras
<1>6. CASE PtzPreset
  <2>1. /\ cam \in Cameras /\ cmd.req.channel \in Channels
        /\ cmd.req.preset \in Slots /\ UNCHANGED <<it, moving, abandoned>>
    BY <1>1, <1>6, NotIdle DEF PtzPreset
  <2>2. CASE UNCHANGED <<presets, changes, synced>>
    BY <2>1, <2>2 DEF TypeOK
  <2>3. ASSUME NEW n \in Names \cup {NoName}, Changed(cam),
               presets' = [presets EXCEPT ![cam][cmd.req.channel][cmd.req.preset] = n]
        PROVE  /\ presets' \in [Cameras -> [Channels -> PresetList]]
               /\ changes' \in 0 .. MaxChanges
               /\ synced' \in SUBSET Cameras
    BY <1>2, <1>3, <2>1, <2>3
  <2> QED BY <1>6, <2>1, <2>2, <2>3 DEF PtzPreset, TypeOK
<1>7. CASE PtzStart \/ PtzStartRefused \/ PtzStop \/ PtzStopRefused \/ CameraPans
  BY <1>1, <1>7, NotIdle DEF PtzStart, PtzStartRefused, PtzStop, PtzStopRefused, CameraPans,
     TypeOK, cameras, program
<1>8. CASE CameraChange
  BY <1>2, <1>3, <1>8 DEF CameraChange, TypeOK, program
<1>9. CASE Restart
  <2>1. InMotion \subseteq Cameras \X Channels
    BY <1>1, NotIdle DEF InMotion
  <2> QED BY <1>9, <2>1, DevicesType DEF Restart, TypeOK, cameras
<1>10. CASE UNCHANGED <<it, cameras, synced, abandoned>>
  BY <1>10 DEF TypeOK, cameras
<1> QED
  BY <1>4, <1>5, <1>6, <1>7, <1>8, <1>9, <1>10 DEF Next, Execute, Receive,
    SearchPreset, PtzPresetRefused, OtherCommand, Reply

LEMMA TypeStep ==
  ASSUME TypeOK, Behind, Next
  PROVE  TypeOK'
BY CacheType, CommandType, CamerasType DEF TypeOK

-----------------------------------------------------------------------------
(* The cache and the entries.                                              *)

LEMMA BehindStep ==
  ASSUME TypeOK, Behind, Next
  PROVE  Behind'
<1>0. Len(lDevices) \in Nat /\ it \in Nat
  BY DevicesType DEF TypeOK
<1>1. CASE AddSource
  BY <1>0, <1>1 DEF AddSource, Behind, TypeOK
<1>2. CASE UpdatePresetNames \/ UpdateRefused
  <2>0. cmd # Idle /\ it' = it
    BY <1>2, NotIdle DEF UpdatePresetNames, UpdateRefused
  <2>1. /\ cmd.dev \in DOMAIN lDevices /\ lDevices \in Seq(DevInfo)
        /\ \E list : lDevices' = [lDevices EXCEPT ![cmd.dev].struParams = list]
    BY <1>2, <2>0, Executing DEF UpdatePresetNames, UpdateRefused, TypeOK
  <2>3. DOMAIN lDevices' = DOMAIN lDevices /\ Len(lDevices') = Len(lDevices)
    BY <2>1
  <2>2. synced' \subseteq synced \cup {cmd.dev}
    BY <1>2 DEF UpdatePresetNames, UpdateRefused
  <2> QED BY <2>0, <2>1, <2>2, <2>3 DEF Behind
<1>3. ASSUME NEW c, Changed(c), UNCHANGED <<it, lDevices>>
      PROVE  Behind'
  BY <1>0, <1>3 DEF Changed, Behind, TypeOK
<1>4. CASE Restart
  BY <1>4 DEF Restart, Behind
<1>5. CASE UNCHANGED <<it, lDevices, synced>>
  BY <1>5 DEF Behind
<1> QED
  BY <1>1, <1>2, <1>3, <1>4, <1>5 DEF Next, Receive, Execute,
    SearchPreset, PtzPreset, PtzPresetRefused, PtzStart, PtzStartRefused,
    PtzStop, PtzStopRefused, OtherCommand, Reply, CameraChange, CameraPans, program

\* The presets of a camera change only together with what is known of its
\* entries.
LEMMA ChangeDesyncs ==
  ASSUME TypeOK, Behind, CacheCurrent, NEW c \in Cameras, NEW ch, NEW p, NEW n,
         presets' = [presets EXCEPT ![c][ch][p] = n], Changed(c),
         UNCHANGED lDevices
  PROVE  CacheCurrent'
<1> SUFFICES ASSUME NEW i \in synced'
             PROVE  lDevices[i].struParams =
                      presets'[lDevices[i].cam][StartChan[lDevices[i].cam]]
  BY DEF CacheCurrent
<1>2. lDevices[i].cam # c /\ i \in synced
  BY DEF Changed
<1>3. presets'[lDevices[i].cam] = presets[lDevices[i].cam]
  BY <1>2 DEF TypeOK
<1> QED BY <1>2, <1>3 DEF CacheCurrent

LEMMA CacheStep ==
  ASSUME TypeOK, Behind, CacheCurrent, Next
  PROVE  CacheCurrent'
<1>0. lDevices \in Seq(DevInfo) /\ Len(lDevices) \in Nat
  BY DEF TypeOK
<1>1. CASE AddSource
  <2>1. synced' = synced /\ presets' = presets
    BY <1>1 DEF AddSource, cameras
  <2>2. CASE UNCHANGED lDevices
    BY <2>1, <2>2 DEF CacheCurrent
  <2>3. CASE lDevices' = Append(lDevices, [cam |-> it, struParams |-> Unset])
    <3>1. \A i \in DOMAIN lDevices : lDevices'[i] = lDevices[i]
      BY <1>0, <2>3
    <3> QED BY <2>1, <3>1 DEF CacheCurrent, Behind
  <2> QED BY <1>1, <2>2, <2>3 DEF AddSource
<1>2. CASE UpdatePresetNames
  <2>1. cmd # Idle /\ cam \in Cameras /\ presets[cam][StartChan[cam]] \in PresetList
    BY <1>2, NotIdle, Executing, DevicesType DEF UpdatePresetNames, TypeOK
  <2>2. /\ lDevices'[cmd.dev].cam = cam
        /\ lDevices'[cmd.dev].struParams = presets[cam][StartChan[cam]]
        /\ \A i \in DOMAIN lDevices : i # cmd.dev => lDevices'[i] = lDevices[i]
    BY <1>2, <2>1, CacheWritten DEF UpdatePresetNames
  <2>3. synced' = synced \cup {cmd.dev} /\ synced \subseteq DOMAIN lDevices
    BY <1>2 DEF UpdatePresetNames, Behind
  <2>4. presets' = presets
    BY <1>2 DEF UpdatePresetNames, cameras
  <2> QED BY <2>2, <2>3, <2>4 DEF CacheCurrent
<1>7. CASE UpdateRefused
  <2>1. /\ synced' = synced \ {cmd.dev} /\ synced \subseteq DOMAIN lDevices
        /\ presets' = presets
    BY <1>7 DEF UpdateRefused, Behind, cameras
  <2>2. \A i \in DOMAIN lDevices : i # cmd.dev => lDevices'[i] = lDevices[i]
    BY <1>7, NotIdle, CacheWritten DEF UpdateRefused
  <2> QED BY <2>1, <2>2 DEF CacheCurrent
<1>3. CASE PtzPreset
  <2>1. cam \in Cameras
    BY <1>3, NotIdle, Executing DEF PtzPreset
  <2>2. CASE UNCHANGED <<presets, synced>>
    BY <1>3, <2>2 DEF PtzPreset, CacheCurrent
  <2> QED BY <1>3, <2>1, <2>2, ChangeDesyncs DEF PtzPreset
<1>4. CASE CameraChange
  BY <1>4, ChangeDesyncs DEF CameraChange, program
<1>5. CASE Restart
  BY <1>5 DEF Restart, CacheCurrent
<1>6. CASE UNCHANGED <<lDevices, presets, synced>>
  BY <1>6 DEF CacheCurrent
<1> QED
  BY <1>1, <1>2, <1>3, <1>4, <1>5, <1>6, <1>7 DEF Next, Receive, Execute,
    SearchPreset, PtzPresetRefused, PtzStart, PtzStartRefused, PtzStop,
    PtzStopRefused, OtherCommand, Reply, CameraPans, program, cameras

-----------------------------------------------------------------------------
(* Movements.                                                              *)

\* A registration leaves the entry of the command under way where it is.
LEMMA EntryStays ==
  ASSUME TypeOK, cmd # Idle, AddSource
  PROVE  /\ cmd' = cmd /\ lDevices'[cmd.dev] = lDevices[cmd.dev]
         /\ struParams' = struParams /\ Target' = Target
<1>1. cmd.dev \in DOMAIN lDevices /\ lDevices \in Seq(DevInfo) /\ cmd' = cmd
  BY DEF AddSource, TypeOK
<1>2. lDevices'[cmd.dev] = lDevices[cmd.dev]
  BY <1>1 DEF AddSource
<1> QED BY <1>1, <1>2 DEF struParams, Target, cam

LEMMA MovementStep ==
  ASSUME TypeOK, MovementEnds, Next
  PROVE  MovementEnds'
<1> USE DEF MovementEnds
<1>1. CASE AddSource
  <2>1. UNCHANGED <<moving, abandoned>> /\ cmd' = cmd
    BY <1>1 DEF AddSource, cameras
  <2>2. InMotion' = InMotion
    BY <1>1, <2>1, EntryStays, NotIdle DEF InMotion, Calls
  <2> QED BY <2>1, <2>2
<1>2. CASE PtzStart
  <2>1. /\ moving' = moving \cup {Target} /\ abandoned' = abandoned \ {Target}
        /\ cmd' = [cmd EXCEPT !.at = "sleep"] /\ lDevices' = lDevices
        /\ cmd.at = "call" /\ cmd # Idle
    BY <1>2, NotIdle DEF PtzStart, Calls
  <2>2. cmd \in Doing
    BY <2>1 DEF TypeOK, Telling, Showing
  <2>3. cmd'.at = "sleep" /\ cmd'.dev = cmd.dev /\ cmd'.req = cmd.req
    BY <2>1, <2>2 DEF Doing
  <2>4. InMotion' = {Target} /\ InMotion = {Target}
    <3>1. InMotion' = {Target}
      BY <2>1, <2>3 DEF InMotion, Target, cam
    <3>2. InMotion = {Target}
      BY <1>2 DEF PtzStart, InMotion
    <3> QED BY <3>1, <3>2
  <2> QED BY <2>1, <2>4
<1>3. CASE PtzStartRefused
  BY <1>3 DEF PtzStartRefused, InMotion, cameras
<1>4. CASE PtzStop
  BY <1>4 DEF PtzStop, InMotion
<1>5. CASE PtzStopRefused
  BY <1>5 DEF PtzStopRefused, InMotion, cameras
<1>6. CASE CameraPans
  <2>1. InMotion' = {Target} /\ InMotion = {Target}
    BY <1>6 DEF CameraPans, InMotion, Calls, Target, cam, program
  <2> QED BY <1>6, <2>1 DEF CameraPans
<1>7. CASE Restart
  BY <1>7 DEF Restart, cameras
<1>8. CASE UNCHANGED <<program, moving, abandoned>>
  BY <1>8 DEF program, InMotion, Calls, Target, cam
<1>9. CASE Receive \/ UpdatePresetNames \/ UpdateRefused \/ SearchPreset \/ PtzPreset
           \/ PtzPresetRefused \/ OtherCommand \/ Reply
  <2>1. UNCHANGED <<moving, abandoned>>
    BY <1>9 DEF Receive, UpdatePresetNames, UpdateRefused, SearchPreset, PtzPreset,
      PtzPresetRefused, OtherCommand, Reply, cameras
  <2>2. cmd.at # "sleep" /\ ~Calls({"ptz_move"})
    BY <1>9 DEF Receive, Idle, UpdatePresetNames, UpdateRefused, SearchPreset, PtzPreset,
      PtzPresetRefused, OtherCommand, Reply, Calls, Search, Preset, Ask, Order
  <2> QED BY <2>1, <2>2 DEF InMotion
<1> QED
  BY <1>1, <1>2, <1>3, <1>4, <1>5, <1>6, <1>7, <1>8, <1>9 DEF Next, Execute, CameraChange

-----------------------------------------------------------------------------
(* Searches.                                                               *)

\* What get_preset_details and get_preset_byname show.
LEMMA SearchShows ==
  ASSUME TypeOK, SearchPreset
  PROVE  ShownAsAsked'
<1> DEFINE p == Min(Found)
<1>1. /\ Calls(Search) /\ lDevices' = lDevices /\ cmd # Idle
      /\ struParams \in PresetList
  BY NotIdle, Executing DEF SearchPreset
<1>2. CASE Found = {}
  BY <1>2 DEF SearchPreset, ShownAsAsked, Idle
<1>3. CASE Found # {}
  <2>1. cmd' = [at |-> "reply", req |-> cmd.req, dev |-> cmd.dev,
                infoT |-> "HM_PRESET_DETAILS",
                preset |-> wPresetNum(p), name |-> struParams[p]]
    BY <1>3 DEF SearchPreset
  <2>2. struParams' = struParams
    BY <1>1, <2>1 DEF struParams
  <2>3. Found \subseteq Slots /\ Found \subseteq Nat
    BY DEF Found, byName, byNumber, Slots
  <2>4. p \in Found /\ \A q \in Found : p <= q
    BY <1>3, <2>3, MinOfNaturals
  <2>5. p \in Slots
    BY <2>3, <2>4
  <2>6. wPresetNum(p) = (IF struParams[p] = NoName THEN 0 ELSE p) /\ p # 0
    BY <2>5 DEF wPresetNum, Slots
  <2> HIDE DEF p
  <2>7. CASE cmd.req.method = "get_preset_details"
    <3>1. p = cmd.req.preset /\ struParams[p] # NoName
      BY <2>4, <2>7 DEF Found, byNumber
    <3> QED BY <2>1, <2>2, <2>6, <2>7, <3>1 DEF ShownAsAsked
  <2>8. CASE cmd.req.method = "get_preset_byname"
    <3>1. struParams[p] = cmd.req.name /\ Found = {q \in Slots : struParams[q] = cmd.req.name}
      BY <2>4, <2>8 DEF Found, byName
    <3>2. \A q \in Slots : struParams[q] = struParams[p] => q >= p
      BY <2>3, <2>4, <3>1
    <3> QED BY <2>1, <2>2, <2>6, <2>8, <3>1, <3>2 DEF ShownAsAsked
  <2> QED BY <1>1, <2>7, <2>8 DEF Calls, Search
<1> QED BY <1>2, <1>3

LEMMA ShownStep ==
  ASSUME TypeOK, ShownAsAsked, Next
  PROVE  ShownAsAsked'
<1>1. CASE AddSource
  <2>1. CASE cmd = Idle
    BY <1>1, <2>1 DEF AddSource, ShownAsAsked, Idle
  <2>2. CASE cmd # Idle
    BY <1>1, <2>2, EntryStays DEF ShownAsAsked
  <2> QED BY <2>1, <2>2
<1>2. CASE SearchPreset
  BY <1>2, SearchShows
<1>3. ASSUME NEW code, Tell(code), cmd.req.method \notin Search
      PROVE  ShownAsAsked'
  BY <1>3 DEF Tell, ShownAsAsked
<1>4. CASE UpdateRefused \/ PtzPresetRefused \/ PtzStartRefused
  BY <1>3, <1>4 DEF UpdateRefused, PtzPresetRefused, PtzStartRefused, Calls,
    Preset, Search
<1>5. CASE OtherCommand
  <2>1. cmd.req.method \notin Search
    BY <1>5 DEF OtherCommand, Calls, Ask, Order, Search
  <2>2. CASE cmd' = Idle
    BY <2>2 DEF ShownAsAsked, Idle
  <2> QED BY <1>3, <1>5, <2>1, <2>2 DEF OtherCommand
<1>6. CASE PtzStart
  <2>1. cmd' = [cmd EXCEPT !.at = "sleep"] /\ cmd.at = "call" /\ cmd # Idle
    BY <1>6, NotIdle DEF PtzStart, Calls
  <2>2. cmd \in Doing
    BY <2>1 DEF TypeOK, Telling, Showing
  <2>3. cmd'.at = "sleep"
    BY <2>1, <2>2 DEF Doing
  <2> QED BY <2>3 DEF ShownAsAsked
<1>7. CASE cmd' = Idle
  BY <1>7 DEF ShownAsAsked, Idle
<1>8. CASE Receive
  BY <1>8 DEF Receive, ShownAsAsked
<1>9. CASE UNCHANGED program
  BY <1>9 DEF program, ShownAsAsked, struParams
<1> QED
  BY <1>1, <1>2, <1>4, <1>5, <1>6, <1>7, <1>8, <1>9 DEF Next, Execute,
    UpdatePresetNames, PtzPreset, PtzStop, PtzStopRefused, Reply, CameraChange,
    CameraPans, Restart

-----------------------------------------------------------------------------
LEMMA Initially == Init => IInv
BY DevicesType, LimitAssumption
DEF Init, IInv, TypeOK, Behind, CacheCurrent, MovementEnds, ShownAsAsked, Idle,
    PresetList, Unset

LEMMA Preserved == IInv /\ [Next]_vars => IInv'
<1> SUFFICES ASSUME IInv, [Next]_vars PROVE IInv'
  OBVIOUS
<1> USE DEF IInv
<1>1. CASE Next
  BY <1>1, TypeStep, BehindStep, CacheStep, MovementStep, ShownStep
<1>2. CASE UNCHANGED vars
  BY <1>2 DEF vars, program, cameras, TypeOK, Behind, CacheCurrent, MovementEnds,
    ShownAsAsked, InMotion, Calls, Target, cam, struParams
<1> QED BY <1>1, <1>2

LEMMA Invariance == Spec => []IInv
BY Initially, Preserved, PTL DEF Spec

\* Type correctness: no command works on an entry that is not there, and no
\* reply shows a preset beyond the table.
THEOREM TypeCorrect == Spec => []TypeOK
BY Invariance, PTL DEF IInv

\* After a successful update_preset_names the cache is the list of presets of
\* the camera's start channel, until one of them changes or an update fails.
THEOREM CacheCorrect == Spec => []CacheCurrent
BY Invariance, PTL DEF IInv

\* A channel goes on panning only after a start or a stop that was answered with
\* a failure, which the camera may have carried out or not, or after the end of
\* the process between the two.
THEOREM MovementCorrect == Spec => []MovementEnds
BY Invariance, PTL DEF IInv

\* get_preset_details and get_preset_byname show what was asked for.
THEOREM ShownCorrect == Spec => []ShownAsAsked
BY Invariance, PTL DEF IInv

\* They leave unanswered only what the cache does not have.
THEOREM SearchComplete == Spec => SearchAnswered
<1>1. ASSUME TypeOK, [Next]_vars, Calls(Search), lDevices' # << >>, cmd' = Idle,
             NEW p \in Slots, struParams[p] # NoName
      PROVE  IF cmd.req.method = "get_preset_byname"
             THEN struParams[p] # cmd.req.name ELSE p # cmd.req.preset
  <2>1. cmd.at = "call" /\ cmd.req.method \in Search /\ cmd # Idle /\ cmd' # cmd
    BY <1>1, NotIdle DEF Calls
  <2>2. SearchPreset
    BY <1>1, <2>1 DEF Next, Execute, AddSource, Receive, UpdatePresetNames,
      UpdateRefused, PtzPreset, PtzPresetRefused, PtzStart, PtzStartRefused,
      PtzStop, PtzStopRefused, OtherCommand, Reply, CameraChange, CameraPans, Restart, Calls,
      Search, Preset, Ask, Order, program, vars
  <2>3. Found = {}
    BY <1>1, <2>2 DEF SearchPreset, Idle
  <2> QED BY <1>1, <2>1, <2>3 DEF Found, byName, byNumber, Search
<1>2. TypeOK /\ [Next]_vars =>
        [Calls(Search) /\ lDevices' # << >> /\ cmd' = Idle =>
           \A p \in Slots : struParams[p] # NoName =>
             IF cmd.req.method = "get_preset_byname"
             THEN struParams[p] # cmd.req.name ELSE p # cmd.req.preset]_vars
  BY <1>1
<1> QED BY <1>2, TypeCorrect, PTL DEF Spec, SearchAnswered

=============================================================================
