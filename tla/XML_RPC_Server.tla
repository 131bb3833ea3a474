--------------------------- MODULE XML_RPC_Server ---------------------------
(***************************************************************************)
(* What XML-RPC calls manage: the register of loaded modules (DLLs) with   *)
(* their reference counts and dependencies, the devices, the segments of   *)
(* a channel and the device each reads or writes, and the settings that are*)
(* kept along.  server.loadConfigFile takes all of it down and builds it   *)
(* anew, the exit handler takes it down; other reactor threads run calls   *)
(* between their steps, for a timer or a connection accepted before.       *)
(***************************************************************************)
EXTENDS Naturals, FiniteSets

CONSTANTS
    DevModules, SegModules, \* module names: dev..., mod...
    Deps,       \* [SegModules -> DevModules \cup {None}]: the dependency in the .dsc file
    Side,       \* [SegModules -> {"reader", "writer"}]: what it is to a device
    Takes,      \* [SegModules -> SUBSET DevModules]: the devices it can use
    Broken,     \* modules whose file dlopen() refuses
    Devices, Segments, None,
    Files,      \* configuration files: their settings
    MaxCalls,   \* bound: calls of the other threads
    MaxSwitches \* bound: changes of configuration

Modules == DevModules \cup SegModules
NoneOr(S) == S \cup {None}
Sides == {"reader", "writer"}
Empty(S) == [x \in S |-> None]

\* What a file says, and what CEcfg holds: Devices.*.devType, *.dllName and *.deviceName.
Settings == [devType : [Devices -> NoneOr(DevModules)], dllName : [Segments -> NoneOr(SegModules)],
             deviceName : [Segments -> NoneOr(Devices)]]
NoSettings == [devType |-> Empty(Devices), dllName |-> Empty(Segments), deviceName |-> Empty(Segments)]

ASSUME ServerAssumption ==
    /\ IsFiniteSet(Modules) /\ IsFiniteSet(Devices) /\ IsFiniteSet(Segments)
    /\ DevModules \cap SegModules = {} /\ Broken \subseteq Modules
    /\ Deps \in [SegModules -> NoneOr(DevModules)]
    /\ Side \in [SegModules -> {"reader", "writer"}] /\ Takes \in [SegModules -> SUBSET DevModules]
    /\ None \notin Modules \cup Devices \cup Segments
    /\ Files \subseteq Settings /\ MaxCalls \in Nat /\ MaxSwitches \in Nat

VARIABLES
    _dllRegister,   \* modules loaded
    rdeps,          \* their descriptions' _reverseDependencies
    refs,           \* _referenceCount of each module
    rpcRegistry,    \* modules whose methods can be called
    _devices,       \* module of each device that exists
    channel,        \* the channel exists
    _handlers,      \* module of each of its segments
    user,           \* reader_ and writer_ of each device
    device,         \* the device of each segment
    cfg,            \* the settings in memory
    pc, todo,       \* the switch or exit under way: its place, names left to load
    paused,         \* the acceptor takes no connections
    exit_requested, calls, switches,
    mishaps         \* history: what a switch is not made for

registry == <<_dllRegister, rdeps, rpcRegistry>>
objects  == <<_devices, channel, _handlers, refs>>
use      == <<user, device>>
progress == <<pc, todo, paused, exit_requested, switches>>
vars == <<registry, objects, use, cfg, progress, calls, mishaps>>

Stages == {"idle", "channels", "devices", "modules", "load", "addDevices", "addSegments", "exited"}

\* The types of the server's tables.
TypeOK ==
    /\ _dllRegister \subseteq Modules /\ rpcRegistry \subseteq Modules
    /\ rdeps \in [DevModules -> SUBSET SegModules] /\ refs \in [Modules -> Nat]
    /\ _devices \in [Devices -> NoneOr(DevModules)] /\ channel \in BOOLEAN
    /\ _handlers \in [Segments -> NoneOr(SegModules)]
    /\ user \in [Sides -> [Devices -> NoneOr(Segments)]]
    /\ device \in [Segments -> NoneOr(Devices)]
    /\ cfg \in Settings /\ pc \in Stages
    /\ todo \subseteq IF pc = "addSegments" THEN Segments ELSE Devices
    /\ paused \in BOOLEAN /\ exit_requested \in BOOLEAN /\ calls \in 0..MaxCalls /\ switches \in 0..MaxSwitches
    /\ mishaps \subseteq {"lateCall", "noModule", "noDevice", "refreshed"}

\* Started with an empty configuration.
Init ==
    /\ _dllRegister = {} /\ rdeps = [m \in DevModules |-> {}] /\ refs = [m \in Modules |-> 0]
    /\ rpcRegistry = {} /\ _devices = Empty(Devices) /\ channel = FALSE
    /\ _handlers = Empty(Segments) /\ user = [i \in Sides |-> Empty(Devices)]
    /\ device = Empty(Segments)
    /\ cfg = NoSettings /\ pc = "idle" /\ todo = {} /\ paused = FALSE
    /\ exit_requested = FALSE /\ calls = 0 /\ switches = 0 /\ mishaps = {}

-----------------------------------------------------------------------------
Existing(f) == {x \in DOMAIN f : f[x] # None}

(* CE_DLL_Registry.                                                        *)

DepsOf(m) == IF m \in SegModules THEN {Deps[m]} \ {None} ELSE {}

\* The modules loadIfNotLoaded() adds: dependencies first, nothing more once one has failed.
NewlyLoaded(m) ==
    IF m \in _dllRegister \/ DepsOf(m) \cap Broken # {} THEN {}
    ELSE (DepsOf(m) \cup ({m} \ Broken)) \ _dllRegister

\* Mutant: the dependency is not told of what depends on it.
LoadUnrecorded(m) ==
    /\ _dllRegister' = _dllRegister \cup NewlyLoaded(m)
    /\ rpcRegistry' = rpcRegistry \cup NewlyLoaded(m)
    /\ UNCHANGED rdeps

Load(m) ==
    /\ _dllRegister' = _dllRegister \cup NewlyLoaded(m)
    /\ rpcRegistry' = rpcRegistry \cup NewlyLoaded(m)
    /\ rdeps' = [d \in DevModules |->
                    IF m \notin _dllRegister /\ d \in DepsOf(m) \ Broken THEN rdeps[d] \cup {m}
                    ELSE rdeps[d]]

\* Mutant: only the module asked for is looked at.
RefusesNot(m) == {}

\* The reverse dependencies that are loaded and still referenced.
Refuses(m) == {r \in _dllRegister : m \in DevModules /\ r \in rdeps[m] /\ refs[r] > 0}

\* Mutant: the methods are those of before.
UnloadUnlisted(m) ==
    /\ m \in _dllRegister /\ refs[m] = 0 /\ Refuses(m) = {}
    /\ _dllRegister' = _dllRegister \ ({m} \cup IF m \in DevModules THEN rdeps[m] ELSE {})
    /\ UNCHANGED <<rdeps, rpcRegistry>>

\* unloadIfLoaded(): what depends on the module goes first, in the order of the names; one
\* that refuses leaves the module loaded, and those before it unloaded.  rebuild() follows
\* each one that was unloaded.
Unload(m) ==
    /\ m \in _dllRegister /\ refs[m] = 0
    /\ LET dependents == IF m \in DevModules THEN rdeps[m] ELSE {} IN
       IF Refuses(m) = {}
       THEN /\ _dllRegister' = _dllRegister \ ({m} \cup dependents)
            /\ rpcRegistry' = _dllRegister'
       ELSE \E before \in SUBSET (dependents \ Refuses(m)) :
            /\ _dllRegister' = _dllRegister \ before
            /\ rpcRegistry' = IF before \cap _dllRegister = {} THEN rpcRegistry ELSE _dllRegister'
    /\ UNCHANGED rdeps

(* CE_Device and the segments that read or write devices.                  *)

Wiring == [user |-> user, device |-> device, deviceName |-> cfg.deviceName]
Wired(w) == /\ user' = w.user /\ device' = w.device
            /\ cfg' = [cfg EXCEPT !.deviceName = w.deviceName]

\* Mutant: the user there was is not told.
SetUserSilently(w, i, d, h) == [w EXCEPT !.user[i][d] = h]

\* setReader(), setWriter(): the user there was lets go and loses the setting.
SetUser(w, i, d, h) ==
    LET Without(f) == [s \in Segments |-> IF s = w.user[i][d] THEN None ELSE f[s]]
    IN  [user |-> [w.user EXCEPT ![i][d] = h],
         device |-> Without(w.device), deviceName |-> Without(w.deviceName)]

ConnectDevice(w, i, h, d) == [SetUser(w, i, d, h) EXCEPT !.device[h] = d]

\* Mutant: the setting goes, the segment stays with its device.
DisconnectNameOnly(w, h) == [w EXCEPT !.deviceName[h] = None]

\* disconnectDevice(): its setReader(0) comes back to the segment and takes the setting.
DisconnectDevice(w, h) ==
    IF w.device[h] = None THEN w
    ELSE [SetUser(w, Side[_handlers[h]], w.device[h], None) EXCEPT !.device[h] = None]

\* Mutant: the destructor forgets the device's users.
DeleteDeviceSilently(d) ==
    /\ _devices' = [_devices EXCEPT ![d] = None]
    /\ refs' = [refs EXCEPT ![_devices[d]] = @ - 1]
    /\ user' = [i \in Sides |-> [user[i] EXCEPT ![d] = None]]
    /\ UNCHANGED <<device, channel, _handlers>>

\* remove(): the device's destructor tells its users, whose settings stay.
DeleteDevice(d) ==
    /\ _devices' = [_devices EXCEPT ![d] = None]
    /\ refs' = [refs EXCEPT ![_devices[d]] = @ - 1]
    /\ user' = [i \in Sides |-> [user[i] EXCEPT ![d] = None]]
    /\ device' = [s \in Segments |-> IF \E i \in Sides : s = user[i][d] THEN None ELSE device[s]]
    /\ UNCHANGED <<channel, _handlers>>

\* Mutant: an object that turns out to be superfluous is not deleted.
CreateDeviceLeaked(d, m) ==
    /\ cfg' = [cfg EXCEPT !.devType[d] = m]
    /\ _devices' = IF _devices[d] = None THEN [_devices EXCEPT ![d] = m] ELSE _devices
    /\ refs' = [refs EXCEPT ![m] = @ + 1]
    /\ UNCHANGED <<use, channel, _handlers>>

\* Mutant: the object that is deleted again was never counted.
CreateDeviceUncounted(d, m) ==
    /\ cfg' = [cfg EXCEPT !.devType[d] = m]
    /\ _devices' = IF _devices[d] = None THEN [_devices EXCEPT ![d] = m] ELSE _devices
    /\ refs' = [refs EXCEPT ![m] = IF _devices[d] = None THEN @ + 1 ELSE @ - 1]
    /\ UNCHANGED <<use, channel, _handlers>>

\* add(): the constructor sets devType before the name is found to be taken.
CreateDevice(d, m) ==
    /\ cfg' = [cfg EXCEPT !.devType[d] = m]
    /\ IF _devices[d] = None
       THEN _devices' = [_devices EXCEPT ![d] = m] /\ refs' = [refs EXCEPT ![m] = @ + 1]
       ELSE UNCHANGED <<_devices, refs>>
    /\ UNCHANGED <<use, channel, _handlers>>

\* The settings left when every segment has disconnected its device.
Undisconnected == [s \in Segments |-> IF device[s] = None THEN cfg.deviceName[s] ELSE None]

\* delete of a channel: that of each segment it still has.
DeleteChannel ==
    /\ channel' = FALSE /\ _handlers' = Empty(Segments)
    /\ refs' = [m \in Modules |-> refs[m] - Cardinality({h \in Segments : _handlers[h] = m})]
    /\ user' = [i \in Sides |-> Empty(Devices)] /\ device' = Empty(Segments)
    /\ UNCHANGED _devices

\* delete of a segment; its destructor disconnects the device.
DeleteSegment(h) ==
    /\ _handlers' = [_handlers EXCEPT ![h] = None]
    /\ refs' = [refs EXCEPT ![_handlers[h]] = @ - 1]
    /\ UNCHANGED <<_devices, channel>>

\* The device in the settings is no device: the addition throws, the segment stays.
NoSuchDevice(h) == cfg.deviceName[h] # None /\ _devices[cfg.deviceName[h]] = None

\* Mutant: the settings of connections are left alone.
CreateSegmentBare(h, m) ==
    /\ _handlers' = [_handlers EXCEPT ![h] = m] /\ refs' = [refs EXCEPT ![m] = @ + 1]
    /\ cfg' = [cfg EXCEPT !.dllName[h] = m]
    /\ UNCHANGED <<_devices, channel, use>>

\* Channel::add<HandlerType>() with initializeHandlerConnections().
CreateSegment(h, m) ==
    LET d == cfg.deviceName[h]
        w == IF d = None \/ NoSuchDevice(h) THEN Wiring ELSE ConnectDevice(Wiring, Side[m], h, d)
    IN  /\ _handlers' = [_handlers EXCEPT ![h] = m] /\ refs' = [refs EXCEPT ![m] = @ + 1]
        /\ user' = w.user /\ device' = w.device
        /\ cfg' = [cfg EXCEPT !.dllName[h] = m, !.deviceName = w.deviceName]
        /\ UNCHANGED <<_devices, channel>>

-----------------------------------------------------------------------------
(* XML-RPC calls.                                                          *)

Call == /\ calls < MaxCalls /\ pc # "exited" /\ calls' = calls + 1
        /\ UNCHANGED progress
Noted(what) == mishaps' = mishaps \cup IF pc = "idle" THEN {} ELSE {what}

LoadModule(m) == /\ Call /\ Load(m) /\ Noted("lateCall")
                 /\ UNCHANGED <<objects, use, cfg>>

UnloadModule(m) == /\ Call /\ Unload(m) /\ Noted("lateCall")
                   /\ UNCHANGED <<objects, use, cfg>>

\* refreshAvailableDLLList() makes the descriptions anew, without reverse dependencies.
RefreshAvailable ==
    /\ Call /\ rdeps' = [m \in DevModules |-> {}]
    /\ mishaps' = mishaps \cup {"refreshed"}
    /\ UNCHANGED <<_dllRegister, rpcRegistry, objects, use, cfg>>

AddDevice(d, m) == /\ Call /\ m \in rpcRegistry /\ CreateDevice(d, m) /\ Noted("lateCall")
                   /\ UNCHANGED registry

RemoveDevice(d) ==
    /\ Call /\ _devices[d] \in rpcRegistry
    /\ DeleteDevice(d) /\ cfg' = [cfg EXCEPT !.devType[d] = None] /\ Noted("lateCall")
    /\ UNCHANGED registry

AddChannel == /\ Call /\ ~channel /\ channel' = TRUE /\ Noted("lateCall")
              /\ UNCHANGED <<registry, _devices, _handlers, refs, use, cfg>>

AddSegment(h, m) ==
    /\ Call /\ m \in rpcRegistry /\ channel /\ _handlers[h] = None
    /\ CreateSegment(h, m) /\ Noted("lateCall")
    /\ UNCHANGED registry

RemoveChannel ==
    /\ Call /\ channel /\ DeleteChannel
    /\ cfg' = [cfg EXCEPT !.dllName = Empty(Segments), !.deviceName = Empty(Segments)]
    /\ Noted("lateCall") /\ UNCHANGED registry

RemoveSegment(h) ==
    /\ Call /\ channel /\ _handlers[h] # None
    /\ DeleteSegment(h)
    /\ LET w == DisconnectDevice(Wiring, h) IN
       /\ user' = w.user /\ device' = w.device
       /\ cfg' = [cfg EXCEPT !.dllName[h] = None, !.deviceName = [w.deviceName EXCEPT ![h] = None]]
    /\ Noted("lateCall") /\ UNCHANGED registry

\* set_device() with a device of a kind the segment can use.
SetDevice(h, d) ==
    /\ Call /\ _handlers[h] \in rpcRegistry
    /\ _devices[d] \in Takes[_handlers[h]]
    /\ LET w == ConnectDevice(DisconnectDevice(Wiring, h), Side[_handlers[h]], h, d)
       IN  Wired([w EXCEPT !.deviceName[h] = d])
    /\ Noted("lateCall") /\ UNCHANGED <<registry, objects>>

ClearDevice(h) ==
    /\ Call /\ _handlers[h] \in rpcRegistry
    /\ Wired([DisconnectDevice(Wiring, h) EXCEPT !.deviceName[h] = None])
    /\ Noted("lateCall") /\ UNCHANGED <<registry, objects>>

Calls ==
    \/ \E m \in Modules : LoadModule(m) \/ UnloadModule(m)
    \/ RefreshAvailable \/ AddChannel \/ RemoveChannel
    \/ \E d \in Devices, m \in DevModules : AddDevice(d, m)
    \/ \E d \in Devices : RemoveDevice(d)
    \/ \E h \in Segments : RemoveSegment(h) \/ ClearDevice(h)
    \/ \E h \in Segments, m \in SegModules : AddSegment(h, m)
    \/ \E h \in Segments, d \in Devices : SetDevice(h, d)

-----------------------------------------------------------------------------
(* switchToConfigFile() and the exit handler, whose first three stages are *)
(* the same.                                                               *)

Begin == /\ pc = "idle" /\ pc' = "channels" /\ paused' = TRUE
         /\ UNCHANGED <<registry, objects, use, cfg, todo, calls, mishaps>>

SwitchToConfigFile == /\ Begin /\ switches < MaxSwitches /\ switches' = switches + 1
                      /\ UNCHANGED exit_requested

HandleSignal == Begin /\ exit_requested' = TRUE /\ UNCHANGED switches

Goto(stage) == pc' = stage /\ UNCHANGED <<exit_requested, switches, calls>>

RemoveChannels ==
    /\ pc = "channels" /\ Goto("devices")
    /\ IF channel THEN DeleteChannel /\ cfg' = [cfg EXCEPT !.deviceName = Undisconnected]
       ELSE UNCHANGED <<objects, use, cfg>>
    /\ UNCHANGED <<registry, todo, paused, mishaps>>

\* DeviceRegistry::removeAll(), device by device.
RemoveDevices ==
    /\ pc = "devices"
    /\ IF Existing(_devices) # {}
       THEN \E d \in Existing(_devices) : DeleteDevice(d) /\ Goto("devices")
       ELSE Goto("modules") /\ UNCHANGED <<objects, use>>
    /\ UNCHANGED <<registry, cfg, todo, paused, mishaps>>

\* unloadAll() tries the first module again until none is left.
UnloadAll ==
    /\ pc = "modules"
    /\ IF _dllRegister # {}
       THEN /\ LET m == CHOOSE x \in _dllRegister : TRUE IN
               IF refs[m] = 0 THEN Unload(m) ELSE UNCHANGED registry
            /\ Goto("modules")
       ELSE Goto(IF exit_requested THEN "exited" ELSE "load") /\ UNCHANGED registry
    /\ UNCHANGED <<objects, use, cfg, todo, paused, mishaps>>

\* loadConfig(): a file that cannot be read leaves no settings.
LoadConfig ==
    /\ pc = "load" /\ Goto("addDevices")
    /\ cfg' \in Files \cup {NoSettings}
    /\ todo' = Existing(cfg'.devType)
    /\ UNCHANGED <<registry, objects, use, paused, mishaps>>

\* DeviceRegistry::autoLoad(): what fails is logged and passed over.
AutoLoadDevice ==
    /\ pc = "addDevices"
    /\ IF todo # {}
       THEN \E d \in todo : LET m == cfg.devType[d] IN
            /\ todo' = todo \ {d} /\ Goto("addDevices")
            /\ IF m # None /\ _devices[d] = None
               THEN /\ Load(m)
                    /\ IF m \in rpcRegistry' THEN CreateDevice(d, m) ELSE UNCHANGED <<objects, use, cfg>>
               ELSE UNCHANGED <<registry, objects, use, cfg>>
       ELSE /\ channel' = TRUE
            /\ todo' = IF channel THEN {} ELSE Existing(cfg.dllName)
            /\ Goto("addSegments")
            /\ UNCHANGED <<registry, _devices, _handlers, refs, use, cfg>>
    /\ UNCHANGED <<paused, mishaps>>

\* An exception of Channel::autoLoad() ends the call.
Abandon(why) == Goto("idle") /\ todo' = {} /\ mishaps' = mishaps \cup {why} /\ UNCHANGED paused

\* Channel::autoLoad(), and the acceptor resumed at its end.
AutoLoadSegment ==
    /\ pc = "addSegments" /\ todo # {}
    /\ \E h \in todo : LET m == cfg.dllName[h] IN
       IF m = None
       THEN Abandon("lateCall") /\ UNCHANGED <<registry, objects, use, cfg>>
       ELSE /\ Load(m)
            /\ IF m \notin _dllRegister'
               THEN Abandon("noModule") /\ UNCHANGED <<objects, use, cfg>>
               ELSE IF _handlers[h] # None \/ ~channel
               THEN Abandon("lateCall") /\ UNCHANGED <<objects, use, cfg>>
               ELSE /\ CreateSegment(h, m)
                    /\ IF NoSuchDevice(h) THEN Abandon("noDevice")
                       ELSE todo' = todo \ {h} /\ Goto("addSegments") /\ UNCHANGED <<paused, mishaps>>

Unpause ==
    /\ pc = "addSegments" /\ todo = {}
    /\ Goto("idle") /\ paused' = FALSE
    /\ UNCHANGED <<registry, objects, use, cfg, todo, mishaps>>

Step == RemoveChannels \/ RemoveDevices \/ UnloadAll \/ LoadConfig \/ AutoLoadDevice
        \/ AutoLoadSegment \/ Unpause
Next == Calls \/ SwitchToConfigFile \/ HandleSignal \/ Step

Spec == Init /\ [][Next]_vars

\* The thread that runs the switch or the exit goes on.
FairSpec == Spec /\ WF_vars(Step)

-----------------------------------------------------------------------------
\* Reference counting keeps code as long as an object needs it: a module is loaded while
\* there is a device or segment of it, after every sequence of additions that fail,
\* replacements, refusals to unload and changes of configuration.
ObjectsHaveCode ==
    \A m \in Modules : m \in {_devices[d] : d \in Devices} \cup {_handlers[h] : h \in Segments}
        => m \in _dllRegister

\* "Unload reverse dependencies" (CE_DLL_Registry.cpp:401): no module stays without the one
\* it depends on, unless the list of what is available has been made anew.
DependenciesLoaded ==
    \A m \in _dllRegister : DepsOf(m) \subseteq _dllRegister \/ "refreshed" \in mishaps

\* A method that can be called is one of a module that is loaded, and the other way round.
MethodsHaveCode == rpcRegistry = _dllRegister

\* Nothing refers to code that is not there: no object, no module through its dependencies
\* and no method, whatever loads, refusals and switches came before.
CodeInPlace == TypeOK /\ ObjectsHaveCode /\ DependenciesLoaded /\ MethodsHaveCode

\* Two records are kept of who uses a device, by the device and by the segment: they agree,
\* both exist, and the settings name the device.
UsersAgree ==
    /\ \A h \in Segments : device[h] # None =>
           /\ _handlers[h] # None /\ _devices[device[h]] # None
           /\ user[Side[_handlers[h]]][device[h]] = h
    /\ \A i \in Sides, d \in Devices : user[i][d] # None => device[user[i][d]] = d

\* A segment that is connected to a device has it in its settings, unless a call came in late.
SettingsFollow ==
    "lateCall" \notin mishaps => \A h \in Segments : device[h] # None => cfg.deviceName[h] = device[h]

\* The three records of a device's user agree: the device's, the segment's and the
\* settings' (CE_Device.hpp:69-104).
DeviceRecordsAgree == UsersAgree /\ SettingsFollow

\* A switch that nobody disturbs and nothing aborts ends with what the file says: the
\* devices and segments of modules that can be loaded, connected as written.  A device named
\* for a segment that is not described is passed over.
SwitchedAsWritten ==
    pc = "addSegments" /\ todo = {} /\ mishaps = {} =>
        /\ _handlers = cfg.dllName
        /\ \A h \in Segments : device[h] = IF _handlers[h] = None THEN None ELSE cfg.deviceName[h]
        /\ \A d \in Devices : _devices[d] = IF cfg.devType[d] \in Broken THEN None ELSE cfg.devType[d]

\* A switch comes to its end with the server taking connections again, an exit with
\* everything unloaded, when no call comes between and the file can be carried out.
SwitchEnds == [](mishaps = {}) =>
    (pc # "idle" ~> (pc = "idle" /\ ~paused) \/ (pc = "exited" /\ _dllRegister = {}))

\* What server.saveConfigFile would write can be carried out again: the device a segment
\* names is described as well.
SavedLoads ==
    mishaps = {} /\ pc = "idle" => \A h \in Segments :
        cfg.deviceName[h] # None => cfg.devType[cfg.deviceName[h]] # None
=============================================================================
