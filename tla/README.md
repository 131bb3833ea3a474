# TLA+ models of the NASA Channel Emulator

The Channel Emulator (`src/`) is a daemon, `ctsced`, that emulates a space
communication channel. XML-RPC calls over HTTP assemble *traffic handlers*
(segments) into *channels*; units of data flow from handler to handler over
links and enter and leave the process through *devices*. Four reactor threads
execute the calls and the I/O events; every handler has a message queue and a
service thread of its own. This directory holds TLA+ models of the parts of the
daemon that are hard to test, TLC configurations that check them on small
instances, and TLAPS proofs of their central properties.

## Inventory

| Part | State | Operations | Interacts with | Correct when | Model |
|---|---|---|---|---|---|
| Service task (`modules/lib/BaseTask`) | `shutdown_`, `svcDone_`, `svcThreadID_`, the message queue's activation, the thread | `open`, `stopTraffic(shutdown)`, `svcStart_`, `svcEnd_`, `continueService` | reactor threads call it, the service thread runs in it, no lock | a stopped task handles nothing; an opened one is served; calls return | `BaseTask` |
| Handler graph (`HandlerLink`, `BaseTrafficHandler`, `server/Channel*`) | `links_[4]` of each handler, the link objects, the channel's map, the output settings | connect, disconnect, add, remove, withdraw, autoLoad, switchToConfigFile | settings manager, DLL registry, service threads that send over links | the ends of a link agree; no loops; removed handlers are in no link; the settings rebuild the graph | `HandlerGraph` |
| TM multiplexers and demultiplexers (`TM_Mux_Base`, `TM_Demux_Base` and the four modules on them) | queues with priorities, maps from identifier to output link, their settings | connect, withdraw, forward | targets' input slots, management calls during traffic | link, map and setting agree; a user gets its own frames, in order | `TM_Demux_Base`, `TM_Tree` |
| TM packet service (`modTM_VC_Gen_Packet`, `modTM_VC_Rcv_Packet`) | the unfilled frame, frame counters, the packet being reassembled | pack, idle fill, validate, reassemble | frames travel over any chain of handlers and devices, which drop, corrupt and delay | every delivered packet was sent, in order; service always returns to the queue | `TM_VC_Link` |
| AOS packet service (`modAOS_M_PDU_*`, `modAOS_VC_Gen`, `modAOS_VC_Rcv`) | the unfilled M_PDU, what is over of a packet, frame counters | as above, set_frame_size and set_m_pdu_length during traffic | as above | as above; gaps are counted | `AOS_VC_Link` |
| Other TM and AOS services (access, frame, OCF, FSH, AF, B_PDU, insert zone) | counters, aux queues | per unit | as above | units are restored | not modelled |
| Periodic transmission (`PeriodicTransmitter`, `PeriodicLink`, `PeriodicTrafficHandler`) | interval, queue, idle unit | set interval, pulse | a second service thread between source and target | one unit per interval, idle when none | `PeriodicTransmitter` |
| Delay emulation (`modEmulateDelay`, `TimeLine`) | deadline queue, time line | put, send, set delay, time line, order | clock, management calls during traffic | no unit is early, lost or, unless asked for, overtaken | `modEmulateDelay`, `TimeLine`, `PacedLink` |
| Other emulation (`Rate`, `BitErrors`, `PhaseAmbiguity`) | distribution parameters | per unit | clock | | appear as what the channel does to frames |
| ASM attachment and detachment (`modASM_Add`, `modASM_Remove`) | the unit being collected, the part of a marker matched so far and its bit errors | per unit, per buffer | a byte stream cut into arbitrary buffers, with bit errors | what is taken for a marker is one, within the allowed errors; readable markers lose no unit | `ASM_Stream` |
| Other CCSDS coding (`modPseudoRandomize`, `modEncapPkt_*`) | the rest of a packet | per unit | | units are restored | not modelled |
| ECC (`modRSEncode/Decode`, `modResolvePhaseAmbiguity`) | code parameters, phase | per unit | | the decoded block is the encoded one | not modelled |
| TCP server device (`devTcp4Server`, `modTcp4Receiver`, `modTcp4Transmitter`) | listening and connected socket, reactor registrations, notifications | accept, exception, read, send, open, close, reconnect | reactor threads, a service thread, the peers | one connection at a time, which the receiver hears; every client is served | `devTcp4Server` |
| Other devices (`modules/Devices`, `Ethernet`, `IP`, `Utility`) | handle, reader, writer | set reader/writer, open, close | handlers, reactor, operating system | the users of a device and the device of a segment agree | the users, in `XML_RPC_Server` |
| Device and channel registries | name to object maps | add, remove, removeAll, autoLoad | settings | every name is at most one object; records agree | `XML_RPC_Server` |
| DLL registry (`CE_DLL`, `CE_DLL_Registry`) | loaded modules, reference counts, reverse dependencies | load, unload, unloadAll, refresh | handlers and devices hold references | nothing in use is unloaded; unloading ends | `XML_RPC_Server` |
| Configuration and exit (`XML_RPC_Server::switchToConfigFile`, `ExitSequence`) | acceptor, all registries | load, exit | calls of the other reactor threads | what is loaded is what the file says, and the server answers again | `XML_RPC_Server` |
| Timers and delayed results (`Time_Handler`, `Timer_Interface`, `DelayedResults`) | the reactor's timer heap, the server's timer map, the list of results, the zero times | set, expire, yank, set zero time, set limit | reactor threads | an alarm is due when meant; the list keeps its limit; each result has one fate | `Timers` |
| HTTP server (`server/httpd`) | request buffer, connection state, uploaded files | accept, read, parse, upload, respond | reactor threads, clients that send in pieces or stop reading | one response per request, as asked; files are whole | `ClientService` |
| Settings (`SettingsManager`, `Settings_Interface`) | the libconfig trees | load, save, get-or-add, remove | everything | a saved configuration can be loaded | as the settings of `HandlerGraph` and `XML_RPC_Server` |
| Protocol library (`src/lib`) | packet and frame buffers, the PPP LCP automaton | encode, decode | modules | fields survive encoding | the fields the models need |
| Web interface (`src/www`), packaging, build files | | | XML-RPC | | not modelled |

What is hard: nothing that handlers share with the reactor threads is locked;
starting and stopping a thread is split over two threads and three flags;
connections, loads and removals fail halfway; frames are lost between a sender
and a receiver that keep state about a packet that spans them; counters wrap;
timers fire while they are being registered; notifications arrive after what
they were about is gone; intervals, delays and lengths are changed between the
reading of a setting and its use; requests arrive in pieces and files are
written by several threads.

## Plan

Order: what everything stands on first, then the protocol with the most state,
then the pieces that can be composed with them.

| # | Module | Composes | Status |
|---|---|---|---|
| 1 | `BaseTask` | | done, proved |
| 2 | `HandlerGraph` | | done, proved |
| 3 | `TM_Transfer_Frame`, `TM_VC_Gen_Packet`, `TM_VC_Rcv_Packet`, `TM_VC_Link`; abstract: `TM_PacketLink` | generator and receiver over a channel | done, proved |
| 4 | `ASM_Stream` | attachment, channel, detachment | done, proved |
| 5 | `devTcp4Server` | device, receiver, transmitter, reactor | done, proved |
| 6 | `XML_RPC_Server` | DLL registry, devices, segments, settings, switch and exit | done, proved |
| 7 | `modAOS_M_PDU_Add`, `modAOS_M_PDU_Remove`, `AOS_VC_Link` | four handlers over a channel; packets and octets of `TM_Transfer_Frame` | done, proved |
| 8 | `TM_Demux_Base`, `TM_Tree` | two levels of multiplexers and demultiplexers over a physical channel | done, proved |
| 9 | `Timers` | clock, reactor threads, timer map, list of results | done, proved |
| 10 | `PeriodicTransmitter`, `TimeLine`, `modEmulateDelay`, `PacedLink` | two service threads over the clock, a management thread | done, proved |
| 11 | `ClientService` | acceptor, connections, uploads | done, proved |
| 12 | TM access, frame, OCF, FSH and all-frames services and their AOS twins, `modEncapPkt_*`, `modResolvePhaseAmbiguity`, `CE_Device` | pipelines over the queues of `TM_Tree` | open |

Every invariant the runs check is proved; what is left is to model row 12.

## The modules and the code

### BaseTask

One task, its service thread, and `Controllers`: the reactor threads that
execute XML-RPC calls, which are the callers of `open()` and `stopTraffic()`.
`shutdown`, `svcDone`, `svcThreadID` are the members of `BaseTask`, `queueOpen`
is the activation state of the ACE message queue. The code takes no lock, so
every access to a flag is an action: `OpenCheck`, `OpenFlag`, `OpenQueue`,
`OpenActivate` are the four statements of `open()` (BaseTask.cpp:116-128), the
`Stop*` actions those of `stopTraffic()` (:44-86), `StartID` and `StartFlag`
those of `svcStart_()`, `EndFlag` that of `svcEnd_()`. The body of `svc()` is
the loop every handler has, read from `modASM_Add`: `LoopTest`, `Take` or
`GetFails`, `WorkDone`. `thr` is the thread: `none` is what makes ACE's
`activate()` spawn one. The ten polls of 100 ms in `stopTraffic()` are one
action; `MayOutlast` says whether the service thread may be busy for longer
than they last, as it may in `modEmulateDelay` or in a blocking write.
`Thread_Manager::cancel()` is cooperative and no handler tests for it, so it
changes nothing. `clean` and `quiet` are history: whether a stop ran without an
`open()` overlapping it, and whether such a stop is the last word so far.

### HandlerGraph

The handlers of a channel and the slots `links_[PrimaryInputLink,
AuxInputLink, PrimaryOutputLink, AuxOutputLink]`. A link object is identified
with its four members (source and its output rank, target and its input rank),
`cfg` is the pair of settings `primaryOutput` and `auxOutput` of each group,
`members` the channel's map, `configured` the groups in the settings. Each XML-RPC call is one action, with
everything it calls: `ConnectOutput` destroys the old output and its setting
first and then may fail (`connectSourceToTarget()` throws for a missing
auxiliary input or what it takes for a loop), `RemoveSegment` withdraws all four
links, `SwitchConfig` empties the channel, pauses the HTTP server and counts the
dependencies of every segment in the new settings, `LoadNext` is one step of
`autoLoad()`: a segment with the fewest dependencies is created and connected
both ways with what is there already; an exception abandons the rest
(`LoadFails`: another call has added the segment or removed its group). The
pause of the server suspends its acceptor only (XML_RPC_Server.cpp:232), so the
other calls go on between the steps of a load; a second load at the same time
is not modelled.
`ReadLink` and `Send` are a service thread that tests `links_[...]` and then
calls through it, in two steps because nothing is locked. `Search` is
`isCircularConnection()`: the answer of the recursion at each handler, with as
many nested calls as there are handlers; a longer path repeats one of them, so
the recursion never ends, and `crashed` stands for the exhausted stack.

### TM_Transfer_Frame, TM_VC_Gen_Packet, TM_VC_Rcv_Packet, TM_VC_Link, TM_PacketLink

An octet of a Data Field is a record: the packet it belongs to and its offset
in it. That is all the receiver's decisions depend on (the version number and
length of a header are those of the packet when the octet at hand is really the
first of one), and it makes visible when octets of somebody's data are read as
a header. A frame is its virtual channel count, First Header Pointer, Data
Field and whether its header survived.

`TM_VC_Gen_Packet` is `svc()`, `_processData()` and `_send()` of the generator:
`GetData` takes a unit, `Copy` is one pass of the copy loop (with the pointer
rules of :212-222 and the sending of a full frame), `Wait` and `TopUp` are the
end of `_processData()`, where an unfilled frame is kept for the next packet or
topped up with fill. The fill is real: `RawFill` for a Data Field under 14
octets, an idle Space Packet of at least seven octets otherwise, which may
itself spill over into the next frame. `SetLink` is a management call that
takes the output away or puts it back.

`TM_VC_Rcv_Packet` is the receiver: `Ignore` (frames of the wrong kind, only
idle data, bad frames with `discardBadFrames`), `Take` (counts checked, a part
of a packet thrown away after a gap), and `Assemble`, one pass of
`_assemblePacket()`: `Discard`, `Skip`, `PassFill`, `Start`, `Continue`,
`LostTail`, `GoOn`, `Abort`. The Space Packet constructor's overwriting of the
length field (SpacePacket.cpp:38) is modelled by what it does
(`StoredLength`), and so is the constant 4 that `NetworkData::hasAllParts()`
takes for every packet (`Abort`: the exception leaves `svc()` and with it the
program). `TM_VC_Link` puts the two ends of a virtual channel together with
`Lose`, `Spoil` and `InsertIdle` in between; `gap`, `doubt` and `due` are
history. `TM_PacketLink` is the promise: only packets that went in come out,
whole, in order, none twice. `TM_VC_Link` implements it with the identity on
`sent` and `delivered`.

Left out: the synchronization flag (frames with it set are ignored by the
receiver), counters and messages, and changes of the settings while traffic
runs. A unit that a producer hands over in several parts is a packet here. The
octets of an idle frame are not modelled, the receiver tells it by its First
Header Pointer.

### ASM_Stream

`Add` is `modASM_Add::svc()`. The stream flips bits (`Flip`, at most one in an
octet) and is cut anew into buffers (`GetData`), which is what a TCP device or
a serial line does. The four actions `PartOfMarker`, `MarkerFound`, `NoMarker`
and `ContinueUnit` are the four branches of the inner loop of
`modASM_Remove::svc()`, `MarkerMatch` is `_markerMatch()`. An octet is its place
in the stream, its value and whether it is flipped; two different values are
`Far` bits apart. `matched` is history, the octets taken for a marker, and so is
`markerHits`.

### devTcp4Server

The device and its two users on the descriptors of the process, and the
`Threads` of the reactor, each of which may be in the device's
`handle_input()` or `handle_exception()`; `doing` says where. `backlog` holds
clients that have connected, `tcp` what each connection has come to; a
descriptor bears its client's name. `Accept` is `handle_input()` up to
`suspend_handler()`: the first connection is accepted and the listening socket
suspended; `SetConnected` is the rest: the receiver is registered for the new
descriptor and the transmitter's thread started. With `MinFds` descriptors open
`accept()` may fail (`AcceptFails`): none is ever closed, and the process has
others. `ReadEnd` is the receiver that reads the end of its stream, `SendFails`
and `SendNotifies` the transmitter that finds out by `send()`; either queues a
notification in the reactor (`notes`) that says only "exception on the device".
`handle_exception()` takes four steps (devTcp4Server.cpp:136-141): `Forget` the
socket, `Unhook` the receiver, `StopWriter`, which waits for up to a second for
the transmitter's thread (`writer`), and `Resume` the listening socket. Two
notifications about one connection, the receiver's and the transmitter's, can be
on two threads at once, at any two of these steps, and a client be accepted
between. `Pause`, `Startup`, `Detach` and `Attach` are calls on the receiver,
which is `open()` and `close()` of `FdInputHandler` with `svcDone_` and what the
reactor has registered. `mishaps` is history, the ways in which the protocol
between the device and its users is left: a notification came late
(`undueNote`), a client was accepted or connected on one thread while another
handled a notification (`overlap`), the receiver was started on a handle that is
not the device's (`idleStart`), connected to a device whose connection was reset
(`resetUnheard`), or `accept()` failed (`outOfFds`).

### XML_RPC_Server

`_dllRegister`, reference counts and reverse dependencies of the DLL registry;
devices with the module they are made of and their reader and writer; segments
with theirs and the device each uses; `cfg`, the settings of all of them; the
registered methods. `CreateDevice`, `CreateSegment`, `SetUser`,
`ConnectDevice`, `DeleteSegment`, `Load`, `Unload` are the code's functions as
state transformers; `Calls` are the XML-RPC methods that use them, one action
each with everything the handler does, a failure halfway included.
`switchToConfigFile()` and the exit handler run in stages (`pc`): channels,
devices, modules, then `LoadConfig`, `AutoLoadDevice`, `AutoLoadSegment` one at
a time, `Unpause`. Between stages other reactor threads may run any call.
`mishaps` records what makes a switch go wrong: a call in between, an
exception, a module that refuses to unload.

### modAOS_M_PDU_Add, modAOS_M_PDU_Remove, AOS_VC_Link

As the TM packet service, in four handlers. `GetData`, `Copy`, `Wait` and
`TopUp` are `svc()` and `_processData()` of the first; the size of a zone is
settled when a packet is taken up and that of an M_PDU when it is allocated, so
`SetLength` between the two makes them differ (`thrown`). `FrameUp` and
`Unframe` are `modAOS_VC_Gen` and `modAOS_VC_Rcv` with their count;
`SetFrameSize` the call on either. `modAOS_M_PDU_Remove` sees no counts: it
detects a loss by lengths alone (`Continue`, `LostEnd`). `hurt`, `missing` and
`gaps` are history.

### TM_Demux_Base, TM_Tree

`TM_Demux_Base` holds what a demultiplexer's outputs are made of: the map from
identifier to link, the slot of the target's input, the setting. It starts
as some order of constructors can make it of any settings (`Constructed`): an
identifier listed twice is connected once, an input listed by two demultiplexers
goes to the later of them, users may be absent. `connectPrimaryOutput()` takes
no lock and runs on any reactor thread (HttpManager.cpp:151), so a call is a
member of `half` for as long as it goes on, and any number of them overlap.
`BeginConnect` puts the new link in the map, `Loose` as it has no target yet;
`Check` is `connectSourceToTarget()` up to where it may throw, which leaves the
link loose; `Connect` sets both ends and deletes the link that was in the
target's slot; `EndConnect` writes the setting. `Dangle` is a call that goes on
with a null target, or with a link or target another call has deleted. Each of
these is one step, the search of the `std::map` or the list of settings
included. `clashes` is history: two calls for one target were past the check at
once. `TM_Tree` puts two spacecraft
through `VC_Mux`, `MC_Mux`, the physical channel (`Lose`, `Spoil`, `Hear` for a
foreign spacecraft), `MC_Demux`, `VC_Demux`, each a handler with a queue and a
thread. `MC_Demux` looks a 12-bit identifier up in a map keyed by 8 bits.
`crashed` is an exception that leaves a service thread, or a use of what was
deleted.

### Timers

`SetTimer` is the XML-RPC call up to `schedule_timer()`, `AddTimer` its entry
in the server's map, `Expire`, `Call`, `Push`, `Trim`, `ClearTimer` the steps of
the reactor thread that runs the alarm, each critical section by itself; the
threads are those of the reactor, so at most `Threads` timers are between
`Expire` and `ClearTimer`, or between `SetTimer` and `AddTimer`. `Yank` fetches
a result by its timer's name. `SetZeroTime` moves the scenario's zero time and
`SetLimit` the number of results kept; `Tick` is the clock. `asked` says what
moment each user meant.

### PeriodicTransmitter, TimeLine, modEmulateDelay, PacedLink

Times are kept relative to now, so that no clock has to be bounded: `Tick`
lowers what is awaited and raises what is past. `Loop`, `Getq`, `Wait`,
`Heard`, `GetIdleUnit`, `SendNothing`, `TxSend` are the statements of the
transmitter's `svc()` where it may be interrupted; `SetInterval`, `SetUpdated`
and `Pulse` the three of `setInterval()`. ACE's pulsed queue is over-approximated:
a pulse may stay with the queue or wake its reader. `putData()` runs on the
sender's thread in two steps: `PutData` reads the delay and whether the deadline
decides the unit's place, `Enqueue` waits for room and puts it there; in between
(`coming`) either may be changed. `Dequeue` and `Send` are the service thread,
which likewise settles the order before it waits for a unit. `TimeLine` has the list of
periods as pure operators. `PacedLink` connects the two, so a full delay queue
blocks the transmitter; `spareSlots` and `spareTurns` count what changes of
interval and of order excuse. `Slot` over-approximates how far `sendTime` may
lag behind the clock.

### ClientService

A request is the pieces it may arrive in: the first line in three (its method
cut, or the rest of it), the headers, the content. `Ask` queues a client's
request, `Input` is `handle_input()` with what arrived by then, parsed from the
beginning each time; `HandleOthers`, `HandleUpload`, `Open`, `Write` are
`HttpManager`, with the look for the file, its opening and its writing apart
because other threads come between; `Respond` is `send()` and what follows it.
`Stall` is a client that stops reading, whose thread is stuck in `send()`.
A file is a sequence of pieces, each the name of who sent it; `mixed` is
history: the names that several uploads had open at once since one of them was
last the only one to open it.

## Runs

| Run | Asks | Bounds, and why they are enough |
|---|---|---|
| `basetask` | Types; `svcDone_` is FALSE only while a thread is there to raise it; nothing is dequeued after a completed stop; a thread that was activated late leaves by itself; the calls of a controller that is alone return | Two controllers and four calls: every pair of calls overlaps at every statement, twice over, e.g. a stop, a stop and two opens. `MayOutlast` TRUE |
| `graph` | Both ends of a link agree; types are kept, no link reaches a handler that is not in the channel and every live output is in the settings | Three handlers (two sources for one target, or a chain), one with an auxiliary input, eight calls, which may come between two steps of a load: enough for a link taken over, a failed replacement, a removal and a reload of what is left |
| `tm_link` | Headers are read only where packets start; a gap costs only what is in it; implements `TM_PacketLink` | Data Field of 6, packets of 5, 6 and 14 octets: shorter, exact, three or four frames; counts wrap at 4 and two frames may be hit between two that are taken, which stays below the modulus as the protocol requires, any number of times in a row; frames in transit at most 2 |
| `tm_live` | Every frame is full, its First Header Pointer right; counts are sequential; with no loss every packet arrives | Data Field of 14, the smallest in which the fill is a packet; packets of 9, 14 and 19 octets: one that leaves less room than the fill takes, one that fills a frame, one that ends exactly with a later frame; one unplug |
| `tcp` | Two accepted connections are never both up; the receiver is in the reactor for the socket there is, and for no other; every client is served | Two clients, one connected and one queued, on two reactor threads, so that a notification is handled beside another or beside `accept()`; with one descriptor open (none is ever closed) `accept()` may fail; two calls on the receiver, a pause and a restart at any moment; two notifications, so that one may be late. What follows an `overlap` is not explored, since the properties excuse it (`BeforeOverlap`); the further checks below show what it can be |
| `server` | No object, method or dependent module is without its module's code; the three records of a device's user agree; an undisturbed switch does what the file says and ends | Two device modules and three of segments with a dependency between them and one that cannot be loaded; two devices, two segments, five files (one names a device that nothing describes, one a module that cannot be loaded, one a device twice, one a device for a segment it does not describe); four calls, which take a segment from nothing to a device and back; a switch and an exit |
| `aos` | What comes out is made of what went in, in order, and differs only if it was hit; only packets that were hit are missing; gaps are counted; with nothing lost every packet arrives | Packet Zone of 8 or another length, packets that share an M_PDU or span up to four; the count has two values, so that two hits wrap it |
| `tm_tree` | Link and slot of each output agree, and the settings list it but for a clash of two calls; a user gets its own frames, unspoilt, once, in order; every other frame comes out while the process lives | Two spacecraft of two virtual channels, a foreign one equal to the first modulo 256; two users, one with an auxiliary input; three calls (connect, take over, remove), each at any step of the others, from settings in which both demultiplexers list one input and a user may be absent; two frames, three events in all |
| `timers` | An alarm is due when its user meant (the T form apart); the list of results keeps to its limit but for the threads between their two critical sections, each result has one fate, a timer is erased if it was entered by then; every timer runs | Three timers on two threads, so that two push and neither has trimmed; limits of -1 (none) and 1; one setting of zero time or limit; a clock of two values, which is enough for before and after |
| `paced` | Units in order, none twice; a slot stays empty only for a change of interval; each time reordering is switched off at most one unit more is queued and one taken out of turn; none early; every unit leaves | Three units through a delay queue of two, so that the transmitter is blocked; intervals 0, 1, 2, so that a change lengthens, shortens, starts and ends periodic sending; one call at any moment; delays 0 and 1 with jitter 1, so that deadlines cross |
| `http` | No request is done or answered twice, each whose first line came whole is done as asked; a file is one upload's, or begins with a whole one and has every piece in place if several had it open at once; who reads is answered | Two clients of two requests on two threads, uploads of one name and of one and two pieces, only the longer to overwrite, by either, one stalled reader (one less than the threads), one failing `accept()` |
| `asm` | What is taken for a marker has at most the allowed bit errors over all the buffers it lies in, and its unit is behind it; readable markers lose no unit | Marker of three octets whose second repeats its first, so that a false beginning overlaps a true one; three units that may contain part of it; two flips where one is allowed in a marker; buffers of 1, 2, 3, 4 and 7 octets, so that every cut of marker and unit occurs |

Every property of a passing run has a mutant in `PROJECT.json`: a definition
changed as a plausible slip in the code would change it, for which TLC finds
the property violated.

Deadlock is not checked where calls, packets or units are bounded and the system
comes to rest when they are used up. In `paced` time goes by for ever, and it is
checked.

### Fairness

Liveness is stated only under what the operating system and the reactor give:
a thread that can run does, and a handle that is ready is dispatched.

- `BaseTask`: each controller's pending call and the service thread (`OpenStep`,
  `StopStep`, `ThreadStep`). `Take` is not fair, because nobody promises traffic;
  neither are new calls.
- `TM_VC_Link`, `AOS_VC_Link`, `TM_Tree`: one weak fairness for each service
  thread. Sources, losses, idle frames and new calls are not promised; a call
  that has begun is finished.
- `devTcp4Server`: the reactor dispatches what is ready, each of its threads
  goes on with the handler it is in; a client hangs up some
  day. That the transmitter has data to send is not promised, which is why only
  the receiver can be relied on to report an end.
- `XML_RPC_Server`: the thread that runs the switch or the exit goes on.
- `Timers`: the clock, and the thread each timer is on.
- `PacedLink`: time goes by, both service threads run, a call that has begun is
  finished.
- `ClientService`: each connection that is ready, or whose request is under
  way, is gone on with. Clients need not send the rest of a request, nor read.

## Where the code departs from what it says

Each of these is a property the modules state beside those of the runs, quoting
the line it takes the promise from, and TLC finds it violated. To see one, run
the configuration named with the property in place of the configuration's own
(and `Spec` for an invariant); other changes are given.

| Configuration | Property | What the counterexample shows |
|---|---|---|
| `MCBaseTask` | `StopWaitsForService` | a stop that runs between `activate()` and `svcStart_()` finds no thread ID and `svcDone_` true, and returns before the thread has entered `svc()`; BaseTask.hpp:59: "Shut down the message queue and wait for processing to stop." `Channel::remove()` deletes the handler next |
| `MCBaseTask` | `OpenServes` | an `open()` that overlaps the end of the old service returns success and `activate()` spawns nothing, since the old thread has not exited yet; the task is open and unserved |
| `MCHandlerGraph` | `NoLoop` | `connectSourceToTarget()` asks the source, not the target, whether the other is downstream: B to A is accepted after A to B, and a later search that enters the loop recurses without end; HandlerLink.hpp:86: "@throw CircularConnection If the attempted connection would form a loop." |
| `MCHandlerGraph` | `RefusedOnlyIfLoop` | for the same reason a branch that rejoins (A to B to C, then A's auxiliary output to C) is refused although it forms no loop |
| `MCHandlerGraph`, `Active = {h1}`, no symmetry | `HeldLinkIsLive` | the link is deleted between the test of `links_[...]` and the call through it |
| `MCHandlerGraph` | `LoadCompletes` | `Channel::remove()` leaves the output settings of the segments that fed the removed one; `addDependency()` looks the missing group up, throws, and `switchToConfigFile()` never reaches `unpauseHttpServer()` |
| `MCTM_VC_Link`, `Shapes <- TwoShapes`, one hit, `FairSpec` | `FrameFinished` | a frame that holds only the middle of a packet, received with no packet at hand, is passed over without advancing, for ever; modTM_VC_Rcv_Packet.cpp:203: "Nothing else to process, get out." (the pass changes no state, so the counterexample ends in stuttering) |
| `MCTM_VC_Link`, `Shapes <- TwoShapes`, one hit | `Resumed` | when the start of a packet was lost, the version number is read from the middle of that packet, and if it looks unsupported the whole frame is thrown away; modTM_VC_Rcv_Packet.cpp:362 says to ignore the first chunk and move on |
| `MCTM_VC_Link`, Data Field 14, `Shapes <- MixedShapes` | `LengthKept` | the constructor of `SpacePacket` sets the length field from the number of octets first copied (SpacePacket.hpp:84) |
| `MCTM_VC_Link`, `Shapes <- TwoShapes`, `MaxUnplugs = 1` | `PacketService` | with the output disconnected for a while the generator drops frames without counting them, and the receiver joins the head of one packet to the tail of another |
| `MCTM_VC_Link_short` | `ThrowsForWantOfHeader` | an Encapsulation Packet with a header of two octets makes `hasAllParts()` throw, because the minimum it tests for is the constant 4 of the base class |
| `MCASM_Stream` | `NoMarkerPassedOver` | when octets at the end of a buffer match the first part of a marker and the next buffer does not go on with it, they are given up together; an intact marker that begins at the second of them is passed over. modASM_Remove.dsc:7 says the check occurs again at the next octet |
| `MCAOS_VC_Link_splice` | `PacketService` | the head of one packet and the tail of another of suitable lengths come out as a third; modAOS_M_PDU_Remove.cpp:184 expects to be told of losses by the frame |
| `MCAOS_VC_Link`, no hits | `NeverAddsWrong` | an M_PDU allocated before its length was changed is filled past the new length: modAOS_M_PDU_Add.cpp:212 throws out of the service thread |
| `MCTM_Tree` | `StaysUp` | a demultiplexer sends through a link that is in its map and has no target, for a moment during each connection and for good after a refused one; BaseTrafficHandler.hpp:159 allows a link "created after the source is already active" |
| `MCTimers` | `OffsetAsMeant` | "T means relative to zero time" (Time_Handler.hpp:40): the time less the scenario's clock at zero is taken for seconds from now, wherever the zero time is |
| `MCTimers` | `DropsOldest` | results are trimmed in the order of their entry in the list, which need not be that of their completion; DelayedResults.cpp:23 is to erase the oldest |
| `MCTimers` | `NoneStays` | a timer that has run before `addTimer()` stays in the map for ever (XML_RPC_Server.hpp:72-76) |
| `MCPacedLink`, intervals 0 and 1, the first 0, no units | `ChangeHeard` | a pulse between the reading of the interval and the wait wakes nobody: the change is not heard until a unit comes; PeriodicTransmitter.cpp:116: "Wake up getq in svc() to use the new interval." |
| `MCXML_RPC_Server` | `SavedLoads` | a device is removed while a segment's setting names it: what would be saved cannot be loaded |
| `MCdevTcp4Server` | `SendsInputToReader` | a late notification takes the receiver out of the reactor without its `handle_close()`, so that for the next connection `open()` takes it to be registered still; devTcp4Server.cpp:113: "Send input events to the reader." |
| `MCdevTcp4Server` without `BeforeOverlap` | `NeverTwoUp` | one reactor thread handles a notification (the transmitter's, or the second of two about the end of one connection) while another accepts and connects the next client: the listening socket is resumed under that client, whose socket and place in the reactor may go as well, and a second one is accepted; devTcp4Server.dsc:5: "Only one connection is accepted at a time although more may be queued" |
| `MCTM_Tree` | `EveryRouteSaved` | of two calls that connect one user's two inputs to two identifiers each looks for the user among the outputs before the other has connected (HandlerLink.cpp:86); both connect, and the second replaces the first's entry in the settings, which TM_Demux_Base.cpp:127 looks for by name: an output that is missing from a saved configuration |
| `MCClientService`, one request | `ReplacedOnRequest` | a file is looked for and opened in two steps (HttpManager.cpp:219), so one that was not to be replaced may be |
| `MCClientService`, `Requests <- Unequal`, one request | `NeverMixed` | two uploads of one name and different lengths that are written at the same time leave a file of both, the shorter before the rest of the longer |
| `MCClientService`, one client, `Requests <- Plain`, `Pipelining = TRUE` | `DoneAsAsked` | what arrives behind a complete request is taken for the end of its content |
| `MCClientService`, one request | `EveryoneAccepted` | one failing `accept()` takes the acceptor out of the reactor for good (ClientAcceptor.cpp:50) |

The runs are set up beside these: they keep clear of the case, or state what
holds regardless.

Five configurations beside those of the runs are kept: `MCTM_VC_Link_mixed`
(every version number, overwritten lengths, cut headers, bad frames kept,
packets after fill refused: `ReadsHeaders` and `PacketService` hold),
`MCClientService_whole` (every kind of request, one each: all three properties
hold), and three violations: `MCTM_VC_Link_short`, `MCAOS_VC_Link_splice`, and
`MCClientService_pipelined`, in which a request sent behind another one is
swallowed with it and never answered.

## Proofs

| Theorem | Says, for every value of the constants |
|---|---|
| `HandlerProofs!TaskTypes` | `TaskSpec => []TaskTypeOK` |
| `HandlerProofs!DoneFlagHonest` | `TaskSpec => []DoneUnlessServing` |
| `HandlerProofs!StoppedTakesNothing` | `TaskSpec => NoTakeWhenQuiet` |
| `HandlerProofs!LinksAgree` | `Spec => []EndsAgree` |
| `HandlerProofs!GraphOnRecord` | `Spec => []LinksOnRecord` |
| `HandlerProofs!UnitsComeFromBehindMarkers` | `StreamSpec => []WellFramed` |
| `HandlerProofs!ReadableUnitsAllArrive` | `StreamSpec => []InStep` |
| `TM_VC_LinkProofs!HeadersRight` | `GenSpec => []HeaderPointerRight` |
| `TM_VC_LinkProofs!FramesCounted` | `GenSpec => []CountsSequential` |
| `TM_VC_LinkProofs!HeadersOnlyAreRead` | `Spec => []OnlyHeadersRead` |
| `TM_VC_LinkProofs!PacketsAsSent` | `Spec => PacketService`, if `Undisturbed` |
| `TM_VC_LinkProofs!OnlyGapsLosePackets` | `Spec => []NothingElseLost`, if `Undisturbed` and `OnlyEncapsulation` |
| `AOS_VC_LinkProofs!GapsCounted` | `Spec => []WellCounted` |
| `AOS_VC_LinkProofs!PacketsReassembled` | `Spec => []Reassembled`, if `HeadersFit` |
| `AOS_VC_LinkProofs!OthersUnharmed` | `Spec => []NothingElseLost`, if `HeadersFit` |
| `PacedLinkProofs!SlotsAlwaysFilled` | `Spec => []SlotsFilled` |
| `PacedLinkProofs!UnitsStayInOrder` | `Spec => []UnitsInOrder` |
| `PacedLinkProofs!OneTurnEach` | `Spec => []OneOutOfTurn` |
| `PacedLinkProofs!KeptForItsDelay` | `Spec => NoneEarly` |
| `devTcp4ServerProofs!OneConnectionAtATime` | `Spec => []OneAtATime` |
| `devTcp4ServerProofs!ReaderFollowsDevice` | `Spec => []ReaderAgrees` |
| `TM_TreeProofs!RoutesStayRight` | `Spec => []RoutesAgree` |
| `TM_TreeProofs!FramesStayInOrder` | `Spec => []OwnFramesInOrder`, if `DropBadFrames` |
| `TimersProofs!AlarmsDueAsMeant` | `Spec => []DueAsMeant` |
| `TimersProofs!RecordsKept` | `Spec => []TimersKept` |
| `ServerProofs!CodeStaysInPlace` | `Spec => []CodeInPlace` |
| `ServerProofs!DeviceRecordsStayRight` | `Spec => []DeviceRecordsAgree` |
| `ServerProofs!SwitchKeepsToFile` | `Spec => []SwitchedAsWritten` |
| `ServerProofs!RequestsDoneOnce` | `HttpSpec => []DoneOnceAsAsked`, if `~Pipelining` |
| `ServerProofs!FilesAreOfUploads` | `HttpSpec => []FilesWhole`, if `~Pipelining` |

They assume only the named assumptions on the constants, which TLC evaluates in
the runs.

*BaseTask.* `TaskInv` is `TaskTypeOK`, `DoneUnlessServing` and two facts. `ClosedInv`:
while `quiet` holds the queue is closed, and so it is while a controller with
`clean` set is past `stop_close`. `CleanInv`: while an `open()`
is under way no stop is `clean` and the task is not `quiet`. Only `OpenQueue`
opens the queue, and it is part of an `open()`; so after a clean stop it stays
closed until the next `OpenCall`, and `Take` needs it open. That
`NoTakeWhenQuiet` holds although the thread may outlast the stop is because it
rests on the queue, not on `svcDone_`.

*HandlerGraph.* `GraphInv` is that `links` and `cfg` are functions of the right
kind and `EndsAgree`. Deleting a link clears both ends, and attaching one first
deletes what each of its two slots held; the lemmas `DeleteAgrees` and
`AttachAgrees` say that each keeps `Agree`. Every management call is a
composition of these two, and a call that fails halfway leaves what the first
part made, about which the lemmas speak as well. `GraphOnRecord` goes the same
way with what a call must say beside: that a link's ends are in the channel when
it is made, and that its setting is written with it (`OnRecord`).

*ASM_Stream.* What modASM_Remove has matched, the unit it is collecting, the
buffer and what is on the wire are one stretch of the stream, `Rest`, and the
invariant speaks of it as a whole, so that it does not matter where it is cut
into buffers. `AsSent`: its octets follow each other up to the end of the last
unit sent, and the markers in it have the octets of `Marker`. `LookInv`: the
bit errors counted are those of the octets matched, all of them; this is what
`Framed` needs of a marker cut into several buffers. `Recount`: the bits flipped
in a marker that lies in `Rest` are no more than were counted for it, so what is
readable matches whatever the first octet of `Rest` is at the start of a unit;
`StepInv` says it is, of the unit after those sent on, as long as all markers
are readable. `InStep` follows: with nothing buffered or on the wire `Rest` is
shorter than a unit and so empty. Each step of the loop takes octets from the
front of `Rest` or leaves it alone (`RemoveKeeps`), `Add` puts a unit behind it
(`AddKeeps`), `Flip` bends one octet (`FlipKeeps`). Bit errors are sums,
written as recursive functions: that such a function exists, and that two which
add the same numbers are equal, is proved by the least place where they would
not be (`UpTo`).

*TM_VC_Gen_Packet.* `HeaderPointerRight` is about frames on the wire; the
frame being filled, and the unit being copied into it, need invariants of their
own. `InvQueue`: a queued unit is one packet, its first octet the only packet
start in it. `InvUnit`: so is the unit at hand, of which some octets are still
to be copied, unless it is bare fill, which then exactly fits the frame.
`InvFrame`: an unfilled frame is neither empty nor full,
`firstHeaderIndexSet` says whether a packet has started in it, and if so its
pointer is already right for the octets it holds; it is only there while a unit
is at its beginning. `InvWire`: frames on the wire are full and right. The one
hard step is `Copy`: the lemmas `OutcomeRest`, `OutcomeFirst` and `OutcomeNext`
treat the rest of a unit, a unit that is the first to start in its frame, and a
later one. `CountsSequential` is inductive beside `Inv` as it stands, since it
speaks of the unfilled frame's count as well.

*TM_VC_Link.* `OnlyHeadersRead` needs to know whose octets a Data Field holds
and in which order. `InvData`: a unit that waits or is being copied is made of
packets that are all there (`Unit`), a frame, of packets whose octets follow each
other (`Runs`), each of them fill or of a packet that was sent (`Own`).
`RcvFrame` says that the position in the frame at hand is where a packet starts,
unless it is 0, and that a packet at hand was begun in an earlier frame. These
with the generator's `Inv` and the types are `LinkInv`, which holds whatever
the channel does.

That the two modules implement the packet service, `PacketsAsSent`, is the
invariant `Kept` beside it, in three parts. Order (`InvOrder`, `OrderReceived`,
`OrderPacket`, `OrderOut`): for a packet that has started anywhere between the
queue and the output, all packets that start behind it were sent after it
(`Rising` within a frame, `Down` for what is behind a frame). Flow (`Flow`,
`FlowNext`): the number the next frame that is not idle has, and whether its
octets go on where the last octet received left off; as long as fewer frames
than the modulus go missing, the expected number comes only if none did, so a
head is only ever joined to its own tail. What is at hand (`HandRight`): the
octets of the packet being assembled are the first ones of one packet sent, and
not all of them (`Begins`), or it is a Space Packet whose length field was
overwritten (`Tangled`), and then no total that can come about is the length it
now has. A pass over a frame does one of three things (`PassedTo`): it gives up
what is at hand, hands on a packet that is there from the first octet to the
last and comes after all handed on before, or keeps a longer part of the same
packet for the next frame.

`Undisturbed` is what the theorem assumes beyond the constants' assumptions, and
each part of it is needed: with the output disconnected frames are dropped
uncounted, and heads meet other packets' tails (`PacketService` fails, as shown
above); a gap of exactly as many frames as there are counts is not seen; a header
that lies in three frames is compared with another length than its own; and the
length stored over five octets of a Space Packet is at least 65287, which a
packet nearly as long may come to. In the daemon the modulus is 256 and the
headers are of at most 8 octets.

That nothing is lost but for gaps, `OnlyGapsLosePackets`, is the invariant
`Steady` beside these. `CaughtUp`: while nothing is in doubt the next frame goes
on where the last octet received left off, and all of that octet's packet
received so far is at hand (`Clear`), unless it ended there or is fill nobody
needs. `InStepHere`: so a frame that begins in the middle of a packet goes on
with the packet at hand. `DueKept`: what ends in a frame that was taken is
delivered or is still ahead of the position in it (`ToCome`). The loop stops
early in a frame when several packets to a frame are switched off or fill is
met; that nothing is behind it then is `SealLink`, which has to be carried from the
queue to the frame at hand: fill that starts in a frame fills it, and with one
packet to a frame what ends in it is followed by fill only (`Sealed`). Each pass
of the loop delivers all that ends in what it passes over (`Swept`): one lemma
for each of the seven ways a pass can go. `OnlyEncapsulation` is needed: a
Space Packet waits for the length stored over its own (`LengthKept` fails, as
shown above) and is given up, and a packet whose header is one octet is passed
over as fill. The theorem says what is delivered by the time a frame is done
with; that a frame may never be (`FrameFinished`, and the exception of
`ThrowsForWantOfHeader`) is shown above.

*AOS_VC_Link.* For `WellCounted`, `TypeInv` says that an M_PDU keeps to its size,
its First Header Index to its octets, and the receiver's place to the M_PDU at
hand; and `CountInv`, that there is a count before every frame on its way, from
which the frame's own is taken, that the last of them is the sender's, and that
the first is the receiver's plus the frames missing, up to whole rounds
(`Astray`). Then a frame's number differs from the one expected exactly when
the frames missing are not whole rounds (`AstraySeen`).

`Reassembled` and `NothingElseLost` are about octets that pass through four
handlers, and rest on `PlacesInv`, which follows every octet of a packet through
ten `Places`: the message queue, the unit in hand, the M_PDU being filled, the
list of those to be sent together, two queues and the wire between them, the
zone at hand, the parts held, and what is delivered.

- `OrderInv`: the places are in the order the octets were sent in, each before
  the next, and so are the elements of every queue. This is what rules out a
  third packet between two parts.
- `SenderInv`: packets are numbered as they came; an M_PDU waits unfilled only
  if several packets may share it, every packet in it ends in it (`Closed`), and
  its First Header Index points to the first start in it, if there is one.
- `ZonesInv`: a zone on its way is full and not fill alone; its octets run on
  from each packet to its end, then to a start or to fill (`Runs`), rising in
  order (`Rises`); its index points to the first start or says there is none. The
  receiver is at the beginning of the zone at hand or at a start.
- `EncapInv`, `OutInv`: what is put together begins with the start of a packet
  and is made of octets that were sent. Either it is a beginning of that packet
  (all of it, once delivered), or every packet it is made of was hit. The second
  is what a splice is: parts held go on in another packet only where octets
  between were lost, and then both packets lost some (`GoesOn`, `GoesOnAt`).
- `Kept`: a packet that was not hit has come out, or every octet of it is in one
  of the other places. A zone's first octets may be passed over, and parts held
  be given up, only if they are of packets that were hit.

When all is quiet the only place left is the parts held (`QuietPlaces`), and a
true beginning of a packet lacks its last octet; so every packet not hit has come
out. `GetInv` adds that between two packets nothing is kept to be sent together
and no M_PDU is left unfilled while the queue is empty. The lemmas follow the steps:
each moves octets from one place to an earlier one (`MovesDown`), and there is one
for every step of the sender, the channel and the receiver that says so. All of
this holds while the lengths are those the link began with (`sizings = 0`), as
both properties say; a length changed during traffic loses what does not fit.

`HeadersFit` is that a header is part of its packet and is complete with the zone
it starts in or the next: at most one octet longer than the zone. The longest
header of an Encapsulation Packet has 8 octets, so every zone of 7 or more is
allowed. It is needed: with a header of 8 octets and a zone of 5, TLC shows a
packet of which 6 octets come out, because the length is read behind the end of
what has arrived (modAOS_M_PDU_Remove.cpp:221 calls `hasAllParts()`, which asks
for 4 octets whatever the header is). The shapes and lengths of the run satisfy it,
and TLC finds `TypeInv /\ LinkInv` true in every state of that instance with one hit.

*PacedLink.* `SlotInv` says that what excuses an empty slot is there before the
slot is left: a flag set by a change of interval, or a change still under way,
has a spare slot counted for it, and there is at most one such flag for each.
The other three theorems rest on `PacedInv`, the types and three parts.
`OrderInv`: the transmitter has the last units, in order, and exactly the units
before them are in the delay, at its service thread or gone; that it holds no
unit when it asks for one is what makes `Getq` lose none. `OwedInv`: a unit is
not due before it may go (`Owes`), and the periods of the time line follow one
another from zero on without gap or overlap (`LineInv`). `get()` looks for the
period a moment is in, the definition of the delay for the last one begun; by
`LineInv` these are the same (`OnePeriod`, `GetRight`), and `append()`, which
cuts a period short or replaces one, keeps it (`LineGrows`). `TurnInv`: a unit that was never
under the order of deadlines is before all that came later, and the service
thread may only go by that order against the setting when a turn for it is not
spent yet (`WaitsBy`), nor may `putData()` when it settled a unit's place before
(`ComesBy`); each has its own, so that both together cost two. While `putData()`
goes by deadlines with the setting, all units in the queue have been under that
order. The unit `putData()` holds is the transmitter's (`Comes`), so it is in
order, and later than all in the queue. The queue of deadlines is treated by `Inserted` and `Removed`, for any
sequence. Where a position is said to be the first or last with a property,
`Least` and `Greatest` supply it: these are induction over the naturals in the
form that needs no operator as a parameter. Beyond types, the proofs assume a
longest delay, that no time kept is beyond `MaxTime`, and that `Nothing` and
`Nobody` are not units.

*devTcp4Server.* `TcpInv` is the types and five parts: descriptors in the queue
are not yet open (`InvQueue`); until an `overlap`, threads that handle
notifications and a thread that connects a client exclude each other, the former
being about no connection any more, and the listening socket accepts only while
there is none (`InvAlone`); only the device's socket, or the one about to be it,
is up unless a notification came late (`InvUp`); what the reactor has registered
for the receiver is its handle, and that the device's socket or the one a thread
has just forgotten and is about to unhook (`InvRegistered`); a receiver that
serves is registered (`InvServing`). A notification is harmless exactly when the
end of the connection it is about is already known, which is what `Undue` tells,
and when it is over before the next client comes. The overlap is an exception the
code makes necessary: `NeverTwoUp`, without it, is shown above to fail.

*TM_Tree.* `RoutesStayRight` holds for calls that overlap at every step. The ends
of a link agree without further condition (`OutputsAgree`). That the settings list
it needs `Once`, that no user has two outputs of one
demultiplexer unless two calls clashed over it: connecting takes every entry of
the old target out of the settings, which is right only if they all were of the
one link that goes; `CallInv`, what each call under way has made so far and what
of it the others can have undone; and `SoleInv`, that of one target only one call
is past the check, again but for a clash. Calls that use what another has deleted
end the model (`crashed`). The settings a demultiplexer begins with are any its
constructor accepts: of a target listed twice the constructor throws
(HandlerLink.cpp:86), of an auxiliary input that is not there as well, and this
is all `ConfiguredAssumption` asks.
The lemmas `FreeAgrees` and `FreeInputAgrees` say what deleting a link changes.
`FramesStayInOrder` sees the tree as five stages, from the users back to the
multiplexers, and proves `Chain`: of the frames of one spacecraft that bear
their own identifier, those further on are the older ones. `Moved` shows it for
every service thread at once, given that what moves is ahead of what its stage
keeps: within a queue because that is sorted, between the queues of a stage
because frames of one spacecraft are all in one of them (`InvFrom`: past its
multiplexer a frame bears its own identifier, and goes where that modulo 256
says). `Thinned`, `Joined` and `Numbered` are for hits, frames that are not in
the order's care, and new frames. It assumes that foreign spacecraft have other
identifiers (`TreeAssumption`), and the discarding of invalid frames: without
it misaddressed frames arrive.

*Timers.* `TimersInv`: types; the results in the list are distinct, apart from
those dropped and those fetched, and all three are only of timers that have
pushed theirs (`InvFate`), which is what makes a fate single; the highest limit
is at least the present one (`InvPeak`), so that a list that is trimmed to the
one keeps to the other; and `DueAsMeant`, `RunIsErased`, `ResultsBounded`
themselves. `AlarmsDueAsMeant` follows
from each form of a time by arithmetic at the moment the timer is set.

*XML_RPC_Server.* For the code: the reference count of a module is exactly the
number of objects made of it (`Counted`, by the cardinality of the sets of
devices and segments, which is why these are assumed finite), so a module that
may be unloaded has no object; and the reverse dependencies are complete
(`Recorded`) until the list of available modules is made anew, which
`mishaps` tells. For the records: `RecordsInv` has the agreement of device and
segment with the side the segment is on, that a device that is named exists,
and what is already taken down in each stage of the switch. Each call is a
composition of `SetUser`, `ConnectDevice`, `DeleteDevice` and the like, and
there is one lemma for each of them. For the switch: `SwitchInv` says what each
stage has done (`StagesDone`), as long as there are no `mishaps`: nothing is
left when the file is read, the devices not in `todo` are those described but
for modules that cannot be loaded (of which none is ever loaded), the segments
not in `todo` are those described, each with the device its setting names.
That a segment takes a device from another takes the other's setting as well is
what keeps the last of these.

*ClientService.* `ServedInv` says of each client where its latest request is
(`At`): some pieces of it are used up, those in `rawReq_` follow, and then those
on their way, with nothing behind them but the end. As long as anything is not
used up the request is neither answered nor, before it is handled, done
(`Awaited`); so when the answer is there and the client asks for more,
nothing of the old request is left to be taken for part of the new. What was
read is kept only if it begins with the first piece, or with the second when
the line came in two reads (`Kept`), from which the place of the end of the
header follows (`LineIs`, `HeaderIs`), and that a request is complete exactly
when it is all there (`ParsedAsAsked`). `FilesInv` is about files that
several may open and write between the steps of one: every file is empty with a
writer that has opened it, or begins with a whole upload and has nothing out of
its place (`Layered`), because each write is of a whole upload from the
beginning and leaves what is behind it; a name that is not `mixed` has one writer
at most, whose write, to an empty file, leaves what it sent and nothing else
(`Alone`). Nothing is assumed of the lengths. The hypothesis is needed: a client
that does not wait is a violation shown above.

Out of the prover's reach, and left to TLC: liveness under fairness, anything
with ENABLED, and what recursively defined functions such as `Search` compute
for every graph: the library's theorems about recursive definitions and
induction take operators as parameters, which the provers cannot instantiate.
What stands in for induction is that every set of naturals that is not empty has
a least element (`Least` in `PacedLinkProofs`, `UpTo` in `HandlerProofs`). No module declares a RECURSIVE
operator; recursion is written as recursive functions.

Only model-checked: every liveness property. Every invariant a run checks has a
theorem.

## Assumptions about what is not in this repository

ACE: `putq()`/`getq()` are first in, first out for units of equal priority;
`activate()` spawns only if the task has no thread; `deactivate()` wakes the
thread that waits on the queue, `pulse()` does so if one waits;
`cancel()` only marks a thread; the reactor dispatches a handle to one thread at
a time, suspends and resumes it on request, and expires a timer once; a
notification is dispatched once, on any of the threads, after the
`handle_close()` that sent it has returned and after the handles that were ready
before or not; a suspended handle is not dispatched until it is resumed, and
`accept()` and the `suspend_handler()` behind it are done before another thread
is given the listening socket. libconfig keeps what is set. The operating system hands out the
descriptors it has and may fail `accept()` when many are open. These are read
from how the code uses them; what stands for them is marked external in the map
(`Spawn`, `Tick`, `Connect`, `Leave` and the like), as are the actions of the
channel between two ends (`Lose`, `Spoil`, `Flip`).

## Bounds on what the models say

- TM demultiplexers: the data race on the `std::map` and on the list of settings
  themselves is not modelled, a search and the change that follows from it
  being one step (TM_Demux_Base.cpp:127-143). Connecting a second identifier to a target that is already
  an output is refused as circular, and modelled so. Priorities have no effect on
  the order (the queue is first in, first out), so they are left out. An SCID
  setting that is not zero is overwritten by zero (TM_MasterChannel_Service.cpp:41);
  the identifiers are given to the models directly.
- `PacedLink`: stops are not included, a default delay that is set while a
  time line exists has no effect (as in the code), the cycle of a time line and
  the use of time stamps are constants, the high water mark counts units.
  `setInterval(ACE_Time_Value)` keeps only the microseconds; the intervals of the
  model are what is kept.
- `ClientService`: a request whose first line is cut over two reads is lost or
  answered as of no known method, and one without headers is never answered;
  the properties except both (`cut`, `lines`). As many stalled readers as there
  are threads stop the server; the run has one fewer. The use after free at
  HttpManager.cpp:247 and :249 is not modelled.
- `HandlerGraph`: one load at a time; calls come between its steps.
- `devTcp4Server`: what happens after an `overlap` is in the model and in the
  proofs, not in the run. `stopTraffic()` waits or gives up in one step.
- `XML_RPC_Server`: the data races on the `std::map`s that several threads
  change are not modelled: each call is one step.

## Hazards left to tests

Known, and covered by no property: set_frame_size while an unfilled frame of the
old size waits (modTM_VC_Gen_Packet.cpp:192; its AOS twin is modelled); an
Encapsulation Packet of one octet that is not fill (EncapsulationPacket.cpp:40);
256 frames lost in a row (modTM_VC_Rcv_Packet.cpp:115; in the AOS service the
wrap is modelled); a link deleted while a service thread sends through it
(modASM_Add.cpp:136; the two steps are in `HandlerGraph`); frames of a wrong
length that are kept, which `validateFrame()` deletes before they are looked at
(modTM_VC_Rcv_Access.cpp:77); the order of destruction at the end of `main()`
(main.cpp:313); the time a unit is held in modEmulateRate.cpp:137; the
descriptor forgotten at devTcp4Server.cpp:136 and never closed: `tcp` has
`accept()` fail once one is open, which takes the listener away for good
(`outOfFds`), and `EveryoneServed` excuses it.

## Not modelled

`PROJECT.json` lists every component with the reason. In short:

- *The other TM and AOS services* (access, frame, OCF, FSH, all frames, B_PDU,
  insert zone) are pipelines of one thread each that change fields of the unit
  at hand and keep at most a counter that only a log line reads; what several
  of them in a row can do to order, loss and identity is what `TM_Tree` and the
  two packet services are about.
- *The macro segments* create and connect other segments by the calls of
  `HandlerGraph`.
- *Error correction*: Reed-Solomon arithmetic is out of reach at its real size.
  *Rate emulation* is floating-point arithmetic between two sleeps.
- *The protocol library* keeps no state but the PPP automaton (`LcpFsm`), which
  only `test/ppp_frame_test.cpp` uses; fields and lengths of packets and frames
  are modelled where a module decides by them.
- *Devices other than the TCP server*: system calls; whom a device is read and
  written by is in `XML_RPC_Server`. `devTcp4Client` connects once and is closed
  like the server's connection.
- *XML-RPC method classes* turn parameters into calls of the classes modelled.
  *The web interface* runs in a browser. *Build, packaging, tests* have no
  behaviour of the running daemon.
