--------------------------- MODULE devTcp4Server ---------------------------
(***************************************************************************)
(* The TCP server device with the two segments that use it: modTcp4Receiver*)
(* reads the connected socket in the reactor's threads, modTcp4Transmitter *)
(* writes to it in a thread of its own.  The device accepts one connection *)
(* at a time and is told by either segment, through a notification queued  *)
(* in the reactor, that the connection is gone.  Every reactor thread may  *)
(* accept a client or handle a notification, side by side with the others. *)
(***************************************************************************)
EXTENDS Naturals, Sequences, FiniteSets

CONSTANTS
    Peers,      \* clients, numbered as they connect, once each; the descriptor bears the number
    Invalid,    \* ACE_INVALID_HANDLE
    Threads,    \* the reactor's threads (main.cpp:415)
    MinFds,     \* accept() may fail once the process has this many descriptors open
    MaxCalls,   \* bound: XML-RPC calls on the receiver
    MaxNotes    \* bound: notifications under way when the transmitter adds another

ASSUME TcpAssumption ==
    /\ Peers \subseteq Nat /\ IsFiniteSet(Peers) /\ Invalid \notin Peers
    /\ MinFds \in Nat \ {0} /\ MaxCalls \in Nat /\ MaxNotes \in Nat \ {0}

VARIABLES
    tcp,        \* each peer's connection: "none", "up", "fin" (closed by the peer), "rst"
    backlog,    \* peers connected and not yet accepted
    fds,        \* descriptors open in the process
    listener,   \* the listening socket in the reactor: "active", "suspended", "removed"
    _connectedSocket,
    reader,     \* modTcp4Receiver: its device, get_handle(), what it is registered for, svcDone_
    writer,     \* modTcp4Transmitter: its thread ("failed": a send() has) and its svcDone_
    doing,      \* where each reactor thread is in a handler, see Stages
    notes,      \* notify(_tcp4_dev) calls the reactor has yet to dispatch
    calls,
    mishaps     \* history: what has happened that the device is not made for

kernel == <<tcp, backlog, fds>>
device == <<listener, _connectedSocket>>
vars == <<kernel, device, reader, writer, doing, notes, calls, mishaps>>

Handles == Peers \cup {Invalid}

\* A thread is about to call remove_handler(), stopTraffic() or resume_handler() in
\* handle_exception(), or to connect the peer it has accepted in handle_input().
Stages == {"idle", "reader", "writer", "resume", "connect"}
Idle   == [at |-> "idle", peer |-> Invalid]

Handling(t)   == doing[t].at \in {"reader", "writer", "resume"}
Connecting(t) == doing[t].at = "connect"
GoTo(t, stage) == doing' = [doing EXCEPT ![t] = [at |-> stage, peer |-> Invalid]]

\* The types of the device, its two segments and the sockets.
TypeOK ==
    /\ tcp \in [Peers -> {"none", "up", "fin", "rst"}]
    /\ \A i \in DOMAIN backlog : backlog[i] \in Peers \ fds
    /\ fds \subseteq Peers /\ listener \in {"active", "suspended", "removed"}
    /\ _connectedSocket \in fds \cup {Invalid}
    /\ reader \in [device : BOOLEAN, handle : Handles, registered : Handles, svcDone : BOOLEAN]
    /\ writer \in [thread : {"none", "started", "loop", "failed"}, svcDone : BOOLEAN]
    /\ doing \in [Threads -> [at : Stages, peer : fds \cup {Invalid}]]
    /\ \A t \in Threads : Connecting(t) <=> doing[t].peer # Invalid
    /\ notes \in Nat /\ calls \in 0..MaxCalls
    /\ mishaps \subseteq {"undueNote", "overlap", "idleStart", "resetUnheard", "outOfFds"}

\* Both segments are connected to the device; the transmitter is started at once.
Init ==
    /\ tcp = [p \in Peers |-> "none"] /\ backlog = <<>> /\ fds = {}
    /\ listener = "active" /\ _connectedSocket = Invalid
    /\ reader = [device |-> TRUE, handle |-> Invalid, registered |-> Invalid, svcDone |-> TRUE]
    /\ writer \in {[thread |-> "none", svcDone |-> TRUE], [thread |-> "loop", svcDone |-> FALSE]}
    /\ doing = [t \in Threads |-> Idle]
    /\ notes = 0 /\ calls = 0 /\ mishaps = {}

-----------------------------------------------------------------------------
(* The clients, through the kernel.                                        *)

Connect(p) ==
    /\ tcp[p] = "none" /\ \A q \in Peers : q < p => tcp[q] # "none"
    /\ tcp' = [tcp EXCEPT ![p] = "up"] /\ backlog' = Append(backlog, p)
    /\ UNCHANGED <<fds, device, reader, writer, doing, notes, calls, mishaps>>

Leave(p) ==
    /\ tcp[p] \in {"up", "fin"}
    /\ \E how \in {"fin", "rst"} : how # tcp[p] /\ tcp' = [tcp EXCEPT ![p] = how]
    /\ UNCHANGED <<backlog, fds, device, reader, writer, doing, notes, calls, mishaps>>

\* getpeername() fails once the connection has been reset.
isConnected == _connectedSocket # Invalid /\ tcp[_connectedSocket] # "rst"

-----------------------------------------------------------------------------
(* FdInputHandler: the receiver's place in the reactor.                    *)

Opened(r) ==
    IF r.svcDone /\ r.handle # Invalid
    THEN [r EXCEPT !.registered = r.handle, !.svcDone = FALSE] ELSE r

\* remove_handler(): what is registered for another handle stays.
Unregistered(r) == IF r.registered = r.handle THEN [r EXCEPT !.registered = Invalid] ELSE r

\* Mutant: the registration goes, the flag stays.
ClosedForgetful(r) == Unregistered(r)

Closed(r) ==
    IF ~r.svcDone /\ r.handle # Invalid
    THEN [Unregistered(r) EXCEPT !.svcDone = TRUE] ELSE r

(* BaseTask: the transmitter's thread.                                     *)

\* open(): activate() starts no second thread while the first has yet to leave.
Activated(w) == IF w.svcDone /\ w.thread = "none" THEN [w EXCEPT !.thread = "started"] ELSE w

-----------------------------------------------------------------------------
(* The device, in the reactor's threads.                                   *)

\* Mutant: the listener stays in the reactor while the client is served.
AcceptUnsuspended(t) ==
    /\ doing[t].at = "idle" /\ listener = "active" /\ backlog # <<>>
    /\ backlog' = Tail(backlog) /\ fds' = fds \cup {Head(backlog)}
    /\ doing' = [doing EXCEPT ![t] = [at |-> "connect", peer |-> Head(backlog)]]
    /\ mishaps' = mishaps \cup IF \E u \in Threads : Handling(u) THEN {"overlap"} ELSE {}
    /\ UNCHANGED <<tcp, device, reader, writer, notes, calls>>

\* handle_input() of the listening socket, up to suspend_handler().  A notification about an
\* earlier connection may still be being handled.
Accept(t) ==
    /\ doing[t].at = "idle" /\ listener = "active" /\ backlog # <<>>
    /\ backlog' = Tail(backlog) /\ fds' = fds \cup {Head(backlog)}
    /\ listener' = "suspended"
    /\ doing' = [doing EXCEPT ![t] = [at |-> "connect", peer |-> Head(backlog)]]
    /\ mishaps' = mishaps \cup IF \E u \in Threads : Handling(u) THEN {"overlap"} ELSE {}
    /\ UNCHANGED <<tcp, _connectedSocket, reader, writer, notes, calls>>

\* A failed accept() takes the listening socket out of the reactor for good.
AcceptFails(t) ==
    /\ doing[t].at = "idle" /\ listener = "active" /\ backlog # <<>>
    /\ Cardinality(fds) >= MinFds
    /\ listener' = "removed" /\ mishaps' = mishaps \cup {"outOfFds"}
    /\ UNCHANGED <<kernel, _connectedSocket, reader, writer, doing, notes, calls>>

\* handle_input() goes on: setConnectedSocket(), then both segments are opened.
SetConnected(t) ==
    /\ Connecting(t)
    /\ _connectedSocket' = doing[t].peer
    /\ reader' = IF reader.device THEN Opened([reader EXCEPT !.handle = doing[t].peer]) ELSE reader
    /\ writer' = Activated(writer)
    /\ GoTo(t, "idle")
    /\ UNCHANGED <<kernel, listener, notes, calls, mishaps>>

\* The receiver has not reported the end of this connection, or it has not come.
Undue == \/ reader.device /\ ~reader.svcDone
         \/ _connectedSocket # Invalid /\ tcp[_connectedSocket] = "up"

\* handle_exception(), dispatched for a notification: the socket is forgotten, not closed.
Forget(t) ==
    /\ doing[t].at = "idle" /\ notes > 0
    /\ notes' = notes - 1
    /\ _connectedSocket' = Invalid
    /\ GoTo(t, "reader")
    /\ mishaps' = mishaps \cup (IF Undue THEN {"undueNote"} ELSE {})
                          \cup (IF \E u \in Threads : Connecting(u) THEN {"overlap"} ELSE {})
    /\ UNCHANGED <<kernel, listener, reader, writer, calls>>

\* The receiver is taken out of the reactor without its handle_close(), so its svcDone_
\* stays as it is.
Unhook(t) ==
    /\ doing[t].at = "reader"
    /\ reader' = IF reader.device THEN Unregistered(reader) ELSE reader
    /\ GoTo(t, "writer")
    /\ UNCHANGED <<kernel, device, writer, notes, calls, mishaps>>

\* stopTraffic(false) polls for up to a second, while the others go on; at its end svcDone_
\* is TRUE, whether or not the transmitter's thread has left.
StopWriter(t) ==
    /\ doing[t].at = "writer"
    /\ writer' = [writer EXCEPT !.svcDone = TRUE]
    /\ GoTo(t, "resume")
    /\ UNCHANGED <<kernel, device, reader, notes, calls, mishaps>>

\* Mutant: the device goes on without listening again.
ResumeNever(t) ==
    /\ doing[t].at = "resume"
    /\ GoTo(t, "idle")
    /\ UNCHANGED <<kernel, device, reader, writer, notes, calls, mishaps>>

\* resume_handler(), whatever has become of the device meanwhile.
Resume(t) ==
    /\ doing[t].at = "resume"
    /\ listener' = IF listener = "suspended" THEN "active" ELSE listener
    /\ GoTo(t, "idle")
    /\ UNCHANGED <<kernel, _connectedSocket, reader, writer, notes, calls, mishaps>>

-----------------------------------------------------------------------------
(* The two segments.                                                       *)

Notify == notes' = notes + 1

\* handle_input(): recv() returns 0 or fails, and handle_close() tells the device.
ReadEnd ==
    /\ reader.device /\ reader.registered # Invalid
    /\ reader.registered = _connectedSocket
    /\ tcp[_connectedSocket] \in {"fin", "rst"}
    /\ Notify /\ reader' = Closed(reader)
    /\ UNCHANGED <<kernel, device, writer, doing, calls, mishaps>>

\* handle_input() without a device or after close() returns -1 for whatever comes.
ReadRefused ==
    /\ reader.registered # Invalid /\ (~reader.device \/ reader.svcDone)
    /\ reader' = [Closed(reader) EXCEPT !.registered = Invalid]
    /\ IF reader.device THEN Notify ELSE UNCHANGED notes
    /\ UNCHANGED <<kernel, device, writer, doing, calls, mishaps>>

\* svcStart_(): what a stopTraffic() has set since open() is undone.
WriterStarts ==
    /\ writer.thread = "started"
    /\ writer' = [thread |-> "loop", svcDone |-> FALSE]
    /\ UNCHANGED <<kernel, device, reader, doing, notes, calls, mishaps>>

\* svc(): send() to no socket is EBADF, to one that was reset EPIPE.  The thread may have had
\* the unit in hand when it was stopped.
SendFails ==
    /\ writer.thread = "loop" /\ notes < MaxNotes
    /\ _connectedSocket # Invalid => tcp[_connectedSocket] = "rst"
    /\ writer' = [writer EXCEPT !.thread = "failed"]
    /\ UNCHANGED <<kernel, device, reader, doing, notes, calls, mishaps>>

SendNotifies ==
    /\ writer.thread = "failed"
    /\ Notify /\ writer' = [writer EXCEPT !.thread = IF writer.svcDone THEN "none" ELSE "loop"]
    /\ UNCHANGED <<kernel, device, reader, doing, calls, mishaps>>

\* continueService() is FALSE, and svcEnd_() ends the thread.
WriterLeaves ==
    /\ writer.thread = "loop" /\ writer.svcDone
    /\ writer' = [writer EXCEPT !.thread = "none"]
    /\ UNCHANGED <<kernel, device, reader, doing, notes, calls, mishaps>>

-----------------------------------------------------------------------------
(* XML-RPC calls on the receiver.                                          *)

Call == calls < MaxCalls /\ calls' = calls + 1

\* modTcp4Receiver.pause
Pause ==
    /\ Call /\ reader' = Closed(reader)
    /\ UNCHANGED <<kernel, device, writer, doing, notes, mishaps>>

\* modTcp4Receiver.startup: the handle may be one of an earlier connection.
Startup ==
    /\ Call /\ reader' = Opened(reader)
    /\ mishaps' = IF \/ reader.handle # _connectedSocket \/ notes > 0 \/ ~reader.device
                     \/ \E t \in Threads : doing[t].at # "idle"
                  THEN mishaps \cup {"idleStart"} ELSE mishaps
    /\ UNCHANGED <<kernel, device, writer, doing, notes>>

\* modTcp4Receiver.setDevice with no name: disconnectDevice().
Detach ==
    /\ Call /\ reader.device
    /\ reader' = [Closed(reader) EXCEPT !.device = FALSE]
    /\ UNCHANGED <<kernel, device, writer, doing, notes, mishaps>>

\* modTcp4Receiver.setDevice: connectDevice() reads on from a live connection.
Attach ==
    /\ Call /\ ~reader.device
    /\ reader' = IF isConnected /\ reader.svcDone
                 THEN Opened([reader EXCEPT !.device = TRUE, !.handle = _connectedSocket])
                 ELSE [reader EXCEPT !.device = TRUE]
    /\ mishaps' = IF _connectedSocket # Invalid /\ ~isConnected
                  THEN mishaps \cup {"resetUnheard"} ELSE mishaps
    /\ UNCHANGED <<kernel, device, writer, doing, notes>>

-----------------------------------------------------------------------------
Dispatch == \E t \in Threads : Forget(t)
Listen   == \E t \in Threads : Accept(t) \/ AcceptFails(t)
GoOn(t)  == SetConnected(t) \/ Unhook(t) \/ StopWriter(t) \/ Resume(t)

Reactor == Listen \/ Dispatch \/ (\E t \in Threads : GoOn(t)) \/ ReadEnd \/ ReadRefused
Writer  == WriterStarts \/ SendFails \/ SendNotifies \/ WriterLeaves
Next ==
    \/ \E p \in Peers : Connect(p) \/ Leave(p)
    \/ Reactor \/ Writer
    \/ Pause \/ Startup \/ Detach \/ Attach

Spec == Init /\ [][Next]_vars

\* The reactor dispatches what is ready, its threads and the transmitter's run, clients hang
\* up.  Nobody promises that the transmitter has anything to send.
FairSpec ==
    /\ Spec
    /\ WF_vars(Listen) /\ WF_vars(Dispatch) /\ WF_vars(ReadEnd) /\ WF_vars(SendNotifies)
    /\ \A t \in Threads : WF_vars(GoOn(t))
    /\ \A p \in Peers : WF_vars(Leave(p))

-----------------------------------------------------------------------------
\* "Only one connection is accepted at a time although more may be queued"
\* (modules/descs/devTcp4Server.dsc:5): a peer is accepted only when the one before it has hung up,
\* unless a notification comes before the receiver has heard of the end, or is still being
\* handled when the next client is accepted.
OneAtATime ==
    \A p, q \in fds : tcp[p] = "up" /\ tcp[q] = "up"
        => p = q \/ mishaps \cap {"undueNote", "overlap"} # {}

\* A receiver that is neither paused nor without a device is registered for the socket
\* the device is connected by, until it has itself reported the end of the connection.
Serving == _connectedSocket # Invalid /\ reader.device /\ ~reader.svcDone
HearsConnection == Serving => reader.registered = _connectedSocket \/ mishaps # {}

\* The receiver is not left registered for a socket its handle_input() ignores
\* (modTcp4Receiver.cpp:91), which would be readable for ever: a connection the device has
\* given up, even too early, is taken out of the reactor by the thread that gave it up.
NeverSpins ==
    reader.device /\ reader.registered # Invalid =>
        \/ reader.registered = _connectedSocket
        \/ \E t \in Threads : doing[t].at = "reader"
        \/ mishaps \cap {"idleStart", "overlap"} # {}

\* The reactor, the receiver and the device agree on the socket that is read: neither
\* a live connection unheard nor a given-up one still dispatched.
ReaderAgrees == TypeOK /\ HearsConnection /\ NeverSpins

\* "When a connection is closed, start listening again" (devTcp4Server.hpp:78): every
\* client in the queue is accepted, as long as the receiver is left alone and hears of
\* each close before the transmitter does, and one notification is handled before the next
\* client comes.
EveryoneServed == \A p \in Peers :
    [](mishaps = {} /\ calls = 0) =>
        (tcp[p] # "none" ~> p \in fds)

\* "Send input events to the reader." (devTcp4Server.cpp:113): once a connection is up, a
\* receiver that nobody has touched is registered for it.
SendsInputToReader ==
    calls = 0 /\ _connectedSocket # Invalid /\ tcp[_connectedSocket] = "up"
        => reader.registered = _connectedSocket

\* devTcp4Server.dsc:5 taken at its word, which two notifications about one connection break
\* when a client comes between them.
NeverTwoUp == \A p, q \in fds : tcp[p] = "up" /\ tcp[q] = "up" => p = q \/ "undueNote" \in mishaps
=============================================================================
