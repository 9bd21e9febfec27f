---------------------------- MODULE DeviceControl ----------------------------
(***************************************************************************)
(* The device commands: the methods of hikmqtt behind command_list         *)
(* (src/src/main.cpp), the methods of hik_client they call (src/src/       *)
(* hik.cpp), and the preset cache struParams the latter keep with every    *)
(* registered device.  The loop thread runs one command at a time; while   *)
(* one waits for its device, the main thread may register another, the     *)
(* presets may be changed at a camera itself, and the process may end.     *)
(*                                                                         *)
(* The camera of an entry of lDevices is the one its user id is logged in  *)
(* to (RegisteredAreArmed of HikClient).                                   *)
(***************************************************************************)
EXTENDS Integers, Sequences, FiniteSetsExt, Functions

CONSTANTS
  DevIds,           \* the device ids a configuration or a command may use
  Devices,          \* the devId of each configured device, in file order
  Channels,         \* the channels of a camera
  StartChan,        \* byStartChan of each device
  Names, NoName,    \* names of presets, and the empty string
  MAX_PRESET_V40,
  MaxChanges        \* bound: changes of the presets of the cameras

ASSUME DevicesAssumption == Devices \in Seq(DevIds)
ASSUME StartChanAssumption == StartChan \in [DOMAIN Devices -> Channels]
ASSUME NamesAssumption == NoName \notin Names
ASSUME LimitAssumption == MAX_PRESET_V40 \in Nat /\ MaxChanges \in Nat

Cameras == 1 .. Len(Devices)
Slots == 1 .. MAX_PRESET_V40

(***************************************************************************)
(* A list of presets by their names, NoName where none is set: there the   *)
(* SDK's entry is zeros, its number is 0 and its name empty.               *)
(***************************************************************************)
PresetList == [Slots -> Names \cup {NoName}]
Unset == [p \in Slots |-> NoName]
DevInfo == [cam : Cameras, struParams : PresetList]

VARIABLES
  it,         \* run(): position in the configured devices
  lDevices,   \* of each registered device, its camera and its struParams
  cmd,        \* the command the loop thread executes
  presets,    \* the cameras: the presets of each channel
  moving,     \* the cameras: the channels that pan
  changes,    \* how often a preset was changed
  synced,     \* history: the entries whose last update succeeded, with no
              \* change of a preset of their camera since
  abandoned   \* history: the channels left panning by a start or a stop that
              \* was answered with a failure, or by the end of the process

program == <<it, lDevices, cmd>>
cameras == <<presets, moving, changes>>
vars == <<program, cameras, synced, abandoned>>

-----------------------------------------------------------------------------
(* The commands.                                                           *)

\* By what they do: change a preset or go to it; answer from the cache; ask
\* the device something and answer; give an order and answer only a refusal.
Preset == {"set_preset", "call_preset", "delete_preset"}
Search == {"get_preset_details", "get_preset_byname"}
Ask == {"get_ptz_pos", "set_ptz_pos", "get_dvr_info", "dvr_reboot"}
Order == {"start_record", "stop_record"}

Command ==
  [method : Preset \cup {"get_preset_details"}, devId : DevIds,
   channel : Channels, preset : 0 .. MAX_PRESET_V40 + 1]
  \cup
  [method : {"get_preset_byname"}, devId : DevIds,
   channel : Channels, name : Names \cup {NoName}]
  \cup
  [method : {"update_preset_names", "ptz_move"} \cup Ask \cup Order,
   devId : DevIds, channel : Channels]

Idle == [at |-> "idle"]
Doing == [at : {"call", "sleep"}, req : Command, dev : Cameras]

\* A reply carries its info code and, for a search, the number and the name of
\* the preset.
InfoT == {"HM_DVR_CONFIG", "HM_PRESET_DETAILS", "HM_GET_PTZPOS", "HM_SET_PTZPOS",
          "HM_GET_DVRCONFIG", "HM_SET_SUPPLIGHT", "HM_UPDATE_PRESET_NAMES",
          "HM_PTZ_CONTROL", "HM_PTZ_PRESET", "HM_DVR_REBOOT", "HM_START_RECORD",
          "HM_STOP_RECORD"}
Telling == [at : {"reply"}, req : Command, dev : Cameras, infoT : InfoT]
Showing == [at : {"reply"}, req : Command, dev : Cameras, infoT : InfoT,
            preset : Slots \cup {0}, name : Names \cup {NoName}]

TypeOK ==
  /\ it \in 1 .. Len(Devices) + 1
  /\ lDevices \in Seq(DevInfo)
  /\ cmd \in {Idle} \cup Doing \cup Telling \cup Showing
  /\ cmd # Idle => cmd.dev \in DOMAIN lDevices
  /\ presets \in [Cameras -> [Channels -> PresetList]]
  /\ moving \in SUBSET (Cameras \X Channels)
  /\ changes \in 0 .. MaxChanges
  /\ synced \in SUBSET Cameras
  /\ abandoned \in SUBSET (Cameras \X Channels)

Init ==
  /\ it = 1
  /\ lDevices = << >>
  /\ cmd = Idle
  /\ presets = [c \in Cameras |-> [ch \in Channels |-> Unset]]
  /\ moving = {}
  /\ changes = 0
  /\ synced = {}
  /\ abandoned = {}

-----------------------------------------------------------------------------
(* The main thread registers the devices one after the other; one that     *)
(* fails is left out.                                                      *)

AddSource ==
  /\ it \in Cameras
  /\ it' = it + 1
  /\ \/ lDevices' = Append(lDevices, [cam |-> it, struParams |-> Unset])
     \/ UNCHANGED lDevices
  /\ UNCHANGED <<cmd, cameras, synced, abandoned>>

-----------------------------------------------------------------------------
(* The loop thread.                                                        *)

WithDevId(d) == {i \in DOMAIN lDevices : Devices[lDevices[i].cam] = d}

\* A method of hikmqtt: with the arguments it needs it calls the method of
\* hik_client, which looks the device up.  Anything else is dropped silently.
Receive ==
  /\ cmd = Idle
  /\ \E c \in Command :
       /\ WithDevId(c.devId) # {}
       /\ cmd' = [at |-> "call", req |-> c, dev |-> Min(WithDevId(c.devId))]
  /\ UNCHANGED <<it, lDevices, cameras, synced, abandoned>>

Calls(methods) == cmd.at = "call" /\ cmd.req.method \in methods
cam == lDevices[cmd.dev].cam
struParams == lDevices[cmd.dev].struParams
Target == <<cam, cmd.req.channel>>

\* simple_report, and the reply of a command that asks.
Tell(code) ==
  cmd' = [at |-> "reply", req |-> cmd.req, dev |-> cmd.dev, infoT |-> code]

\* The presets of camera c changed: no cache of them is current any more.
Changed(c) ==
  /\ changes < MaxChanges /\ changes' = changes + 1
  /\ synced' = {i \in synced : lDevices[i].cam # c}

\* The call fails.  It was given the cache itself to write to, and what it has
\* written by then stays there.
UpdateRefused ==
  /\ Calls({"update_preset_names"})
  /\ \E list \in PresetList : lDevices' = [lDevices EXCEPT ![cmd.dev].struParams = list]
  /\ synced' = synced \ {cmd.dev}
  /\ Tell("HM_UPDATE_PRESET_NAMES")
  /\ UNCHANGED <<it, cameras, abandoned>>

\* Mutant: the buffer is that of the first entry of the list.
UpdatePresetNames_FirstEntry ==
  /\ Calls({"update_preset_names"})
  /\ lDevices' = [lDevices EXCEPT ![1].struParams = presets[cam][StartChan[cam]]]
  /\ synced' = synced \cup {cmd.dev}
  /\ cmd' = Idle
  /\ UNCHANGED <<it, cameras, abandoned>>

\* The device is asked for its start channel, whatever channel was named.
UpdatePresetNames ==
  /\ Calls({"update_preset_names"})
  /\ lDevices' = [lDevices EXCEPT ![cmd.dev].struParams = presets[cam][StartChan[cam]]]
  /\ synced' = synced \cup {cmd.dev}
  /\ cmd' = Idle
  /\ UNCHANGED <<it, cameras, abandoned>>

\* Mutant: the loop ends one short of the table.
byName_OneShort(name) ==
  {p \in Slots : p < MAX_PRESET_V40 /\ struParams[p] = name}

\* get_preset_byname compares with every entry, those not set included.
byName(name) == {p \in Slots : struParams[p] = name}

\* Mutant: presetIndx itself is the index of the entry.
byNumber_NextEntry(presetIndx) ==
  {p \in Slots : p = presetIndx + 1 /\ struParams[p] # NoName}

\* get_preset_details takes a number within the table whose entry has one.
byNumber(presetIndx) == {p \in Slots : p = presetIndx /\ struParams[p] # NoName}

Found == IF cmd.req.method = "get_preset_byname" THEN byName(cmd.req.name)
         ELSE byNumber(cmd.req.preset)

\* Mutant: the number is the one of the next entry.
wPresetNum_NextEntry(p) == IF struParams[p] = NoName THEN 0 ELSE p + 1

\* The entry's own number, 0 where no preset is set.
wPresetNum(p) == IF struParams[p] = NoName THEN 0 ELSE p

\* The first entry found is shown; if there is none nothing is.
SearchPreset ==
  /\ Calls(Search)
  /\ IF Found = {} THEN cmd' = Idle
     ELSE LET p == Min(Found) IN
       cmd' = [at |-> "reply", req |-> cmd.req, dev |-> cmd.dev,
               infoT |-> "HM_PRESET_DETAILS",
               preset |-> wPresetNum(p), name |-> struParams[p]]
  /\ UNCHANGED <<it, lDevices, cameras, synced, abandoned>>

\* ptz_preset: the camera sets, deletes or goes to a preset, without a reply.
\* It names a preset that is set.  The cache is left as it is.
PtzPreset ==
  /\ Calls(Preset) /\ cmd.req.preset \in Slots
  /\ \/ cmd.req.method = "call_preset" /\ UNCHANGED <<presets, changes, synced>>
     \/ \E n \in Names \cup {NoName} :
          /\ cmd.req.method = IF n = NoName THEN "delete_preset" ELSE "set_preset"
          /\ presets' = [presets EXCEPT ![cam][cmd.req.channel][cmd.req.preset] = n]
          /\ Changed(cam)
  /\ cmd' = Idle
  /\ UNCHANGED <<it, lDevices, moving, abandoned>>

\* A preset that the camera changed although the answer is a failure is one of
\* CameraChange.
PtzPresetRefused ==
  /\ Calls(Preset)
  /\ Tell("HM_PTZ_PRESET")
  /\ UNCHANGED <<it, lDevices, cameras, synced, abandoned>>

\* ptz_controlwithspeed: start, sleep for half a second ...
PtzStart ==
  /\ Calls({"ptz_move"})
  /\ moving' = moving \cup {Target}
  /\ abandoned' = abandoned \ {Target}
  /\ cmd' = [cmd EXCEPT !.at = "sleep"]
  /\ UNCHANGED <<it, lDevices, presets, changes, synced>>

\* A failure is told, and no stop is sent, whether the camera pans or not.
PtzStartRefused ==
  /\ Calls({"ptz_move"})
  /\ abandoned' = abandoned \cup (moving \cap {Target})
  /\ Tell("HM_PTZ_CONTROL")
  /\ UNCHANGED <<it, lDevices, cameras, synced>>

\* Mutant: the stop goes to the start channel.
PtzStop_StartChan ==
  /\ cmd.at = "sleep"
  /\ moving' = moving \ {<<cam, StartChan[cam]>>}
  /\ cmd' = Idle
  /\ UNCHANGED <<it, lDevices, presets, changes, synced, abandoned>>

\* ... and stop.
PtzStop ==
  /\ cmd.at = "sleep"
  /\ moving' = moving \ {Target}
  /\ cmd' = Idle
  /\ UNCHANGED <<it, lDevices, presets, changes, synced, abandoned>>

\* The result of the stop is ignored.
PtzStopRefused ==
  /\ cmd.at = "sleep"
  /\ abandoned' = abandoned \cup (moving \cap {Target})
  /\ cmd' = Idle
  /\ UNCHANGED <<it, lDevices, cameras, synced>>

Codes(method) ==
  CASE method = "get_ptz_pos"  -> {"HM_GET_PTZPOS"}
    [] method = "set_ptz_pos"  -> {"HM_SET_PTZPOS"}
    [] method = "get_dvr_info" -> {"HM_DVR_CONFIG", "HM_GET_DVRCONFIG"}
    [] method = "dvr_reboot"   -> {"HM_DVR_REBOOT", "HM_SET_SUPPLIGHT"}
    [] method = "start_record" -> {"HM_START_RECORD"}
    [] method = "stop_record"  -> {"HM_STOP_RECORD"}

\* The other commands change nothing here: each tells its success or failure,
\* recording only the failure.
OtherCommand ==
  /\ Calls(Ask \cup Order)
  /\ \/ \E code \in Codes(cmd.req.method) : Tell(code)
     \/ cmd.req.method \in Order /\ cmd' = Idle
  /\ UNCHANGED <<it, lDevices, cameras, synced, abandoned>>

\* messageQueue->enqueue(msg), and process_mqtt_cmd returns.
Reply ==
  /\ cmd.at = "reply"
  /\ cmd' = Idle
  /\ UNCHANGED <<it, lDevices, cameras, synced, abandoned>>

Execute ==
  \/ UpdatePresetNames \/ UpdateRefused \/ SearchPreset
  \/ PtzPreset \/ PtzPresetRefused
  \/ PtzStart \/ PtzStartRefused \/ PtzStop \/ PtzStopRefused
  \/ OtherCommand \/ Reply

-----------------------------------------------------------------------------
\* A preset is set, renamed or deleted at the camera itself.
CameraChange ==
  /\ \E c \in Cameras, ch \in Channels, p \in Slots, n \in Names \cup {NoName} :
       /\ presets[c][ch][p] # n
       /\ presets' = [presets EXCEPT ![c][ch][p] = n]
       /\ Changed(c)
  /\ UNCHANGED <<program, moving, abandoned>>

\* The camera begins to pan before the program has its answer, which may be a
\* timeout then.
CameraPans ==
  /\ Calls({"ptz_move"})
  /\ moving' = moving \cup {Target}
  /\ UNCHANGED <<program, presets, changes, synced, abandoned>>

\* The channel a command may have set in motion and has not yet stopped.
InMotion == IF cmd.at = "sleep" \/ Calls({"ptz_move"}) THEN {Target} ELSE {}

\* The process ends at any moment and is started again (Restart=always).
Restart ==
  /\ it' = 1 /\ lDevices' = << >> /\ cmd' = Idle
  /\ synced' = {}
  /\ abandoned' = abandoned \cup (moving \cap InMotion)
  /\ UNCHANGED cameras

Next == AddSource \/ Receive \/ Execute \/ CameraChange \/ CameraPans \/ Restart

Spec == Init /\ [][Next]_vars

-----------------------------------------------------------------------------
(* Properties.                                                             *)

\* After a successful update_preset_names the cache of that device, and of no
\* other, is what its camera has on its start channel, until a preset changes
\* there or another update fails, by whatever commands run or registrations
\* come in between.  (The start channel is not what README.md says: see
\* UpdatesNamedChannel.)
CacheCurrent ==
  \A i \in synced :
    lDevices[i].struParams = presets[lDevices[i].cam][StartChan[lDevices[i].cam]]

\* A preset is shown under the number or the name that was asked for, as the
\* first of that name; number 0 is shown for the empty name only.
ShownAsAsked ==
  cmd.at = "reply" /\ cmd.req.method \in Search =>
    /\ cmd.req.method = "get_preset_details" =>
         cmd.preset = cmd.req.preset /\ cmd.name = struParams[cmd.preset]
    /\ cmd.req.method = "get_preset_byname" =>
         /\ cmd.name = cmd.req.name
         /\ cmd.preset # 0 =>
              \A p \in Slots : struParams[p] = cmd.name => p >= cmd.preset
    /\ cmd.preset = 0 => cmd.name = NoName

\* A search is left unanswered only if the cache does not have the preset.
SearchAnswered ==
  [][Calls(Search) /\ lDevices' # << >> /\ cmd' = Idle =>
       \A p \in Slots : struParams[p] # NoName =>
         IF cmd.req.method = "get_preset_byname"
         THEN struParams[p] # cmd.req.name ELSE p # cmd.req.preset]_vars

\* A channel that pans while no command is at it has had a start or a stop that
\* was answered with a failure, or the process ended between the two.  Nothing
\* else, and no registration during the half second, keeps a stop from the
\* channel that was started.
MovementEnds == moving \subseteq abandoned \cup InMotion

-----------------------------------------------------------------------------
(* What the documentation says of the program, and the program does not do. *)

\* README.md: update_preset_names updates the local copy of the preset names
\* for the given device and channel.
UpdatesNamedChannel ==
  [][UpdatePresetNames => lDevices'[cmd.dev].struParams = presets[cam][cmd.req.channel]]_vars

=============================================================================
