------------------------- MODULE devTcp4ServerProofs -------------------------
(***************************************************************************)
(* Proofs about the TCP server device and its two segments, for every set  *)
(* of clients and every number of calls.                                   *)
(***************************************************************************)
EXTENDS devTcp4Server, TLAPS

\* Who waits to be accepted has connected, is in the queue once, and has no descriptor.
InvQueue ==
    /\ backlog \in Seq(Peers)
    /\ \A i \in 1..Len(backlog) : backlog[i] \notin fds /\ tcp[backlog[i]] # "none"
    /\ \A i, j \in 1..Len(backlog) : backlog[i] = backlog[j] => i = j
    /\ \A p \in fds : tcp[p] # "none"

\* While no client comes in the middle of a notification, the threads take turns: one
\* connects a client, or some handle notifications about a connection that is given up.
InvAlone ==
    "overlap" \notin mishaps =>
        /\ \A t \in Threads : Handling(t) =>
              _connectedSocket = Invalid /\ \A u \in Threads : ~Connecting(u)
        /\ \A t \in Threads : Connecting(t) =>
              /\ _connectedSocket = Invalid /\ listener # "active"
              /\ \A u \in Threads : Connecting(u) => u = t
        /\ listener = "active" => _connectedSocket = Invalid

\* What is still up is the connection the device is on, or about to be.
InvUp ==
    mishaps \cap {"undueNote", "overlap"} = {} =>
        \A p \in fds : tcp[p] = "up" =>
            p = _connectedSocket \/ \E t \in Threads : doing[t].peer = p

\* A receiver in the reactor is there for the device's socket, or for the one a thread has
\* just given up, and knows it.
InvRegistered ==
    mishaps \cap {"idleStart", "overlap"} = {} /\ reader.registered # Invalid =>
        /\ reader.device /\ reader.svcDone = FALSE /\ reader.registered = reader.handle
        /\ \/ reader.registered = _connectedSocket
           \/ \E t \in Threads : doing[t].at = "reader"

\* A receiver that thinks it is in the reactor is, and has a device.
InvServing ==
    mishaps = {} /\ reader.svcDone = FALSE =>
        /\ reader.device
        /\ reader.registered = _connectedSocket /\ _connectedSocket # Invalid

TcpInv == TypeOK /\ InvQueue /\ InvAlone /\ InvUp /\ InvRegistered /\ InvServing

LEMMA TcpInit == Init => TcpInv
<1> SUFFICES ASSUME Init PROVE TcpInv
  OBVIOUS
<1>d. doing = [t \in Threads |-> Idle] /\ Idle \in [at : Stages, peer : fds \cup {Invalid}]
  BY DEF Init, Idle, Stages
<1>e. doing \in [Threads -> [at : Stages, peer : fds \cup {Invalid}]]
  BY <1>d
<1>f. \A t \in Threads : Connecting(t) <=> doing[t].peer # Invalid
  BY <1>d DEF Idle, Connecting
<1>q. InvQueue
  <2>1. backlog = <<>> /\ fds = {}
    BY DEF Init
  <2>2. backlog \in Seq(Peers) /\ Len(backlog) = 0 /\ 1..0 = {}
    BY <2>1
  <2> QED
    BY <2>1, <2>2 DEF InvQueue
<1>k. /\ tcp \in [Peers -> {"none", "up", "fin", "rst"}]
      /\ \A i \in DOMAIN backlog : backlog[i] \in Peers \ fds
  <2>1. backlog = <<>> /\ tcp = [p \in Peers |-> "none"]
    BY DEF Init
  <2>2. DOMAIN <<>> = {}
    OBVIOUS
  <2> QED
    BY <2>1, <2>2
<1>w. /\ fds \subseteq Peers /\ listener \in {"active", "suspended", "removed"}
      /\ _connectedSocket \in fds \cup {Invalid}
      /\ writer \in [thread : {"none", "started", "loop", "failed"}, svcDone : BOOLEAN]
      /\ notes \in Nat /\ calls \in 0..MaxCalls
      /\ mishaps \subseteq {"undueNote", "overlap", "idleStart", "resetUnheard", "outOfFds"}
  <2>1. writer \in [thread : {"none", "started", "loop", "failed"}, svcDone : BOOLEAN]
    <3>1. writer = [thread |-> "none", svcDone |-> TRUE] \/ writer = [thread |-> "loop", svcDone |-> FALSE]
      BY DEF Init
    <3>2. CASE writer = [thread |-> "none", svcDone |-> TRUE]
      BY <3>2
    <3>3. CASE writer = [thread |-> "loop", svcDone |-> FALSE]
      BY <3>3
    <3> QED
      BY <3>1, <3>2, <3>3
  <2>2. calls \in 0..MaxCalls /\ notes \in Nat
    BY TcpAssumption DEF Init
  <2>3. /\ fds \subseteq Peers /\ listener \in {"active", "suspended", "removed"}
        /\ _connectedSocket \in fds \cup {Invalid}
    BY DEF Init
  <2>4. mishaps \subseteq {"undueNote", "overlap", "idleStart", "resetUnheard", "outOfFds"}
    BY DEF Init
  <2> QED
    BY <2>1, <2>2, <2>3, <2>4
<1>s. reader \in [device : BOOLEAN, handle : Handles, registered : Handles, svcDone : BOOLEAN]
  BY DEF Init, Handles
<1>1. TypeOK /\ InvQueue
  BY <1>e, <1>f, <1>q, <1>k, <1>w, <1>s DEF TypeOK
<1>2. InvAlone
  BY DEF Init, InvAlone, Idle, Handling, Connecting
<1>3. InvUp /\ InvRegistered /\ InvServing
  BY DEF Init, InvUp, InvRegistered, InvServing
<1> QED
  BY <1>1, <1>2, <1>3 DEF TcpInv

-----------------------------------------------------------------------------
(* The reader: what each handler and call makes of it.                     *)

Readers == [device : BOOLEAN, handle : Handles, registered : Handles, svcDone : BOOLEAN]

LEMMA ReaderTypes ==
    ASSUME NEW r \in Readers
    PROVE  /\ Opened(r) \in Readers /\ Unregistered(r) \in Readers /\ Closed(r) \in Readers
           /\ [Closed(r) EXCEPT !.device = FALSE] \in Readers
           /\ [Closed(r) EXCEPT !.registered = Invalid] \in Readers
           /\ [r EXCEPT !.device = TRUE] \in Readers
           /\ \A p \in Handles : /\ [r EXCEPT !.handle = p] \in Readers
                                 /\ [r EXCEPT !.device = TRUE, !.handle = p] \in Readers
BY DEF Readers, Handles, Opened, Unregistered, Closed

\* An entry is made only for a receiver that was out, and taken away only with its flag.
LEMMA ReaderFacts ==
    ASSUME NEW r \in Readers
    PROVE  /\ Opened(r).device = r.device /\ Opened(r).handle = r.handle
           /\ Closed(r).device = r.device
           /\ Unregistered(r).device = r.device /\ Unregistered(r).svcDone = r.svcDone
           /\ r.svcDone = TRUE /\ r.handle # Invalid =>
                 Opened(r).registered = r.handle /\ Opened(r).svcDone = FALSE
           /\ r.svcDone = FALSE \/ r.handle = Invalid => Opened(r) = r
           /\ r.registered = r.handle => Unregistered(r).registered = Invalid
           /\ r.registered # r.handle => Unregistered(r).registered = r.registered
           /\ r.svcDone = FALSE /\ r.handle # Invalid =>
                 Closed(r).registered = Unregistered(r).registered /\ Closed(r).svcDone = TRUE
           /\ r.svcDone = TRUE \/ r.handle = Invalid => Closed(r) = r
BY DEF Readers, Handles, Opened, Unregistered, Closed

Mishaps == {"undueNote", "overlap", "idleStart", "resetUnheard", "outOfFds"}
Writers == [thread : {"none", "started", "loop", "failed"}, svcDone : BOOLEAN]

\* What each thread is at, with the descriptors there are.
Places(open) == [at : Stages, peer : open \cup {Invalid}]
DoingOK == /\ doing \in [Threads -> Places(fds)]
           /\ \A t \in Threads : Connecting(t) <=> doing[t].peer # Invalid

\* A thread goes from one stage of handle_exception() to the next.
LEMMA GoToKeeps ==
    ASSUME NEW t \in Threads, NEW stage \in Stages \ {"connect"}, DoingOK, GoTo(t, stage), fds' = fds
    PROVE  /\ DoingOK'
           /\ doing'[t].at = stage /\ doing'[t].peer = Invalid
           /\ \A u \in Threads \ {t} : doing'[u] = doing[u]
<1> DEFINE place == [at |-> stage, peer |-> Invalid]
<1>1. doing' = [doing EXCEPT ![t] = place] /\ place \in Places(fds)
  BY DEF GoTo, Places, Stages
<1>2. doing' \in [Threads -> Places(fds')] /\ doing'[t] = place
  BY <1>1 DEF DoingOK
<1>3. \A u \in Threads \ {t} : doing'[u] = doing[u]
  BY <1>1 DEF DoingOK
<1>4. \A u \in Threads : doing'[u].at = "connect" <=> doing'[u].peer # Invalid
  BY <1>2, <1>3 DEF DoingOK, Connecting
<1> QED
  BY <1>2, <1>3, <1>4 DEF DoingOK, Connecting

LEMMA AcceptKeeps ==
    ASSUME NEW t \in Threads, Accept(t), TypeOK, InvQueue
    PROVE  /\ Head(backlog) \in Peers \ fds /\ Head(backlog) # Invalid
           /\ DoingOK'
           /\ doing'[t].at = "connect" /\ doing'[t].peer = Head(backlog)
           /\ \A u \in Threads \ {t} : doing'[u] = doing[u]
<1> DEFINE p == Head(backlog)
           place == [at |-> "connect", peer |-> p]
<1>1. p \in Peers \ fds /\ p # Invalid
  BY TcpAssumption DEF Accept, InvQueue
<1>2. doing' = [doing EXCEPT ![t] = place] /\ fds' = fds \cup {p}
  BY DEF Accept
<1>3. place \in Places(fds') /\ \A u \in Threads : doing[u] \in Places(fds')
  BY <1>2 DEF TypeOK, Places, Stages
<1>4. doing \in [Threads -> Places(fds)]
  BY DEF TypeOK, Places
<1>5. doing' \in [Threads -> Places(fds')] /\ doing'[t] = place
  BY <1>2, <1>3, <1>4
<1>6. \A u \in Threads \ {t} : doing'[u] = doing[u]
  BY <1>2, <1>4
<1>7. \A u \in Threads : doing'[u].at = "connect" <=> doing'[u].peer # Invalid
  BY <1>1, <1>5, <1>6 DEF TypeOK, Connecting
<1> QED
  BY <1>1, <1>5, <1>6, <1>7 DEF DoingOK, Connecting

LEMMA TypeParts ==
    TypeOK <=>
        /\ tcp \in [Peers -> {"none", "up", "fin", "rst"}]
        /\ \A i \in DOMAIN backlog : backlog[i] \in Peers \ fds
        /\ fds \subseteq Peers /\ listener \in {"active", "suspended", "removed"}
        /\ _connectedSocket \in fds \cup {Invalid}
        /\ reader \in Readers /\ writer \in Writers /\ DoingOK
        /\ notes \in Nat /\ calls \in 0..MaxCalls /\ mishaps \subseteq Mishaps
BY DEF TypeOK, Readers, Writers, DoingOK, Places, Mishaps

\* The shape of each step on the reactor's threads.
LEMMA StagesStep ==
    ASSUME NEW t \in Threads, DoingOK, Forget(t) \/ GoOn(t)
    PROVE  /\ DoingOK' /\ doing'[t].peer = Invalid
           /\ \A u \in Threads \ {t} : doing'[u] = doing[u]
           /\ UNCHANGED <<tcp, backlog, fds, calls>>
           /\ Forget(t)       => doing'[t].at = "reader" /\ doing[t].at = "idle"
           /\ Unhook(t)       => doing'[t].at = "writer" /\ doing[t].at = "reader"
           /\ StopWriter(t)   => doing'[t].at = "resume" /\ doing[t].at = "writer"
           /\ Resume(t)       => doing'[t].at = "idle" /\ doing[t].at = "resume"
           /\ SetConnected(t) => doing'[t].at = "idle" /\ doing[t].at = "connect"
<1> USE DEF GoOn, kernel, Stages
<1>1. CASE Forget(t)
  BY <1>1, GoToKeeps DEF Forget, Unhook, StopWriter, Resume, SetConnected, Connecting
<1>2. CASE SetConnected(t)
  BY <1>2, GoToKeeps DEF Forget, Unhook, StopWriter, Resume, SetConnected, Connecting
<1>3. CASE Unhook(t)
  BY <1>3, GoToKeeps DEF Forget, Unhook, StopWriter, Resume, SetConnected, Connecting
<1>4. CASE StopWriter(t)
  BY <1>4, GoToKeeps DEF Forget, Unhook, StopWriter, Resume, SetConnected, Connecting
<1>5. CASE Resume(t)
  BY <1>5, GoToKeeps DEF Forget, Unhook, StopWriter, Resume, SetConnected, Connecting
<1> QED
  BY <1>1, <1>2, <1>3, <1>4, <1>5

LEMMA TypeStep == TypeOK /\ InvQueue /\ [Next]_vars => TypeOK'
<1> SUFFICES ASSUME TypeOK, InvQueue, [Next]_vars PROVE TypeOK'
  OBVIOUS
<1>t. /\ tcp \in [Peers -> {"none", "up", "fin", "rst"}]
      /\ \A i \in DOMAIN backlog : backlog[i] \in Peers \ fds
      /\ fds \subseteq Peers /\ listener \in {"active", "suspended", "removed"}
      /\ _connectedSocket \in fds \cup {Invalid}
      /\ reader \in Readers /\ writer \in Writers /\ DoingOK
      /\ notes \in Nat /\ calls \in 0..MaxCalls /\ mishaps \subseteq Mishaps
  BY TypeParts
<1>q. /\ tcp' \in [Peers -> {"none", "up", "fin", "rst"}]
      /\ \A i \in DOMAIN backlog' : backlog'[i] \in Peers \ fds'
      /\ fds' \subseteq Peers /\ listener' \in {"active", "suspended", "removed"}
      /\ _connectedSocket' \in fds' \cup {Invalid}
      /\ reader' \in Readers /\ writer' \in Writers /\ DoingOK'
      /\ notes' \in Nat /\ calls' \in 0..MaxCalls /\ mishaps' \subseteq Mishaps
      => TypeOK'
  BY DEF TypeOK, Readers, Writers, DoingOK, Places, Mishaps
<1>d. doing' = doing /\ fds' = fds => DoingOK'
  BY <1>t DEF DoingOK, Connecting
<1> USE DEF kernel, device
<1>1. ASSUME NEW p \in Peers, Connect(p) PROVE TypeOK'
  <2>1. p \notin fds
    BY <1>1 DEF Connect, InvQueue
  <2>2. backlog' = Append(backlog, p) /\ backlog \in Seq(Peers)
    BY <1>1 DEF Connect, InvQueue
  <2>3. \A i \in DOMAIN backlog' : backlog'[i] \in Peers \ fds
    BY <1>t, <2>1, <2>2
  <2>4. tcp' \in [Peers -> {"none", "up", "fin", "rst"}]
    BY <1>1, <1>t DEF Connect
  <2> QED
    BY <1>1, <1>t, <1>q, <1>d, <2>3, <2>4 DEF Connect
<1>2. ASSUME NEW p \in Peers, Leave(p) PROVE TypeOK'
  <2>1. tcp' \in [Peers -> {"none", "up", "fin", "rst"}]
    BY <1>2, <1>t DEF Leave
  <2> QED
    BY <1>2, <1>t, <1>q, <1>d, <2>1 DEF Leave
<1>3. ASSUME NEW t \in Threads, Accept(t) PROVE TypeOK'
  <2> DEFINE p == Head(backlog)
  <2>1. p \in Peers /\ backlog \in Seq(Peers) /\ Len(backlog) \in Nat \ {0} /\ p = backlog[1]
    BY <1>3 DEF Accept, InvQueue
  <2>2. /\ Tail(backlog) \in Seq(Peers) /\ Len(Tail(backlog)) = Len(backlog) - 1
        /\ \A i \in 1..Len(Tail(backlog)) : Tail(backlog)[i] = backlog[i + 1]
    BY <2>1
  <2>3. \A i \in DOMAIN Tail(backlog) : Tail(backlog)[i] \in Peers \ (fds \cup {p})
    BY <1>t, <2>1, <2>2 DEF InvQueue
  <2>4. backlog' = Tail(backlog) /\ fds' = fds \cup {p} /\ listener' = "suspended"
    BY <1>3 DEF Accept
  <2>5. /\ \A i \in DOMAIN backlog' : backlog'[i] \in Peers \ fds'
        /\ fds' \subseteq Peers
    BY <1>t, <2>1, <2>3, <2>4
  <2>6. UNCHANGED <<tcp, _connectedSocket, reader, writer, notes, calls>> /\ mishaps' \subseteq Mishaps
    BY <1>3, <1>t DEF Accept, Mishaps
  <2>7. DoingOK'
    BY <1>3, AcceptKeeps
  <2> HIDE DEF p
  <2> QED
    BY <1>t, <1>q, <2>4, <2>5, <2>6, <2>7
<1>4. ASSUME NEW t \in Threads, AcceptFails(t) PROVE TypeOK'
  <2>1. mishaps' \subseteq Mishaps
    BY <1>4, <1>t DEF AcceptFails, Mishaps
  <2> QED
    BY <1>4, <1>t, <1>q, <1>d, <2>1 DEF AcceptFails
<1>5. ASSUME NEW t \in Threads, Forget(t) \/ GoOn(t) PROVE TypeOK'
  <2>1. DoingOK' /\ UNCHANGED <<tcp, backlog, fds, calls>>
    BY <1>5, <1>t, StagesStep
  <2>2. notes' \in Nat /\ mishaps' \subseteq Mishaps /\ listener' \in {"active", "suspended", "removed"}
    BY <1>5, <1>t DEF Forget, GoOn, SetConnected, Unhook, StopWriter, Resume, Mishaps
  <2>3. _connectedSocket' \in fds' \cup {Invalid}
    BY <1>5, <1>t, <2>1 DEF Forget, GoOn, SetConnected, Unhook, StopWriter, Resume, DoingOK, Places
  <2>4. doing[t].peer \in Handles
    BY <1>t DEF DoingOK, Places, Handles
  <2>5. reader' \in Readers
    <3>1. [reader EXCEPT !.handle = doing[t].peer] \in Readers /\ Unregistered(reader) \in Readers
      BY <1>t, <2>4, ReaderTypes
    <3>2. Opened([reader EXCEPT !.handle = doing[t].peer]) \in Readers
      BY <3>1, ReaderTypes
    <3> QED
      BY <1>5, <1>t, <3>1, <3>2 DEF Forget, GoOn, SetConnected, Unhook, StopWriter, Resume
  <2>6. writer' \in Writers
    BY <1>5, <1>t DEF Forget, GoOn, SetConnected, Unhook, StopWriter, Resume, Writers, Activated
  <2> QED
    BY <1>t, <1>q, <2>1, <2>2, <2>3, <2>5, <2>6
<1>6. CASE ReadEnd \/ ReadRefused
  <2>c. Closed(reader) \in Readers /\ [Closed(reader) EXCEPT !.registered = Invalid] \in Readers
    BY <1>t, ReaderTypes
  <2>1. reader' \in Readers
    BY <1>6, <2>c DEF ReadEnd, ReadRefused
  <2>2. notes' \in Nat
    BY <1>6, <1>t DEF ReadEnd, ReadRefused, Notify
  <2>3. UNCHANGED <<kernel, device, writer, doing, calls, mishaps>>
    BY <1>6 DEF ReadEnd, ReadRefused
  <2> QED
    BY <1>t, <1>q, <1>d, <2>1, <2>2, <2>3
<1>7. CASE Writer
  <2>1. notes' \in Nat /\ writer' \in Writers
    <3>1. CASE WriterStarts
      BY <1>t, <3>1 DEF WriterStarts, Writers
    <3>2. CASE SendFails
      BY <1>t, <3>2 DEF SendFails, Writers
    <3>3. CASE SendNotifies
      BY <1>t, <3>3 DEF SendNotifies, Notify, Writers
    <3>4. CASE WriterLeaves
      BY <1>t, <3>4 DEF WriterLeaves, Writers
    <3> QED
      BY <1>7, <3>1, <3>2, <3>3, <3>4 DEF Writer
  <2>2. UNCHANGED <<kernel, device, reader, doing, calls, mishaps>>
    BY <1>7 DEF Writer, WriterStarts, SendFails, SendNotifies, WriterLeaves
  <2> QED
    BY <1>t, <1>q, <1>d, <2>1, <2>2
<1>8. CASE Pause \/ Startup \/ Detach \/ Attach
  <2> DEFINE on == [reader EXCEPT !.device = TRUE, !.handle = _connectedSocket]
  <2>h. _connectedSocket \in Handles
    BY <1>t DEF Handles
  <2>o. /\ Opened(reader) \in Readers /\ Closed(reader) \in Readers
        /\ [Closed(reader) EXCEPT !.device = FALSE] \in Readers
        /\ [reader EXCEPT !.device = TRUE] \in Readers /\ on \in Readers
    BY <1>t, <2>h, ReaderTypes
  <2>p. Opened(on) \in Readers
    BY <2>o, ReaderTypes
  <2>1. reader' \in Readers
    BY <1>8, <2>o, <2>p DEF Pause, Startup, Detach, Attach
  <2>2. calls' \in 0..MaxCalls
    BY <1>8, <1>t, TcpAssumption DEF Pause, Startup, Detach, Attach, Call
  <2>3. mishaps' \subseteq Mishaps
    BY <1>8, <1>t DEF Pause, Startup, Detach, Attach, Mishaps
  <2>4. UNCHANGED <<kernel, device, writer, doing, notes>>
    BY <1>8 DEF Pause, Startup, Detach, Attach
  <2> QED
    BY <1>t, <1>q, <1>d, <2>1, <2>2, <2>3, <2>4
<1>9. CASE UNCHANGED vars
  BY <1>9, <1>t, <1>q, <1>d DEF vars
<1> QED
  BY <1>1, <1>2, <1>3, <1>4, <1>5, <1>6, <1>7, <1>8, <1>9 DEF Next, Reactor, Listen, Dispatch

LEMMA QueueStep == TypeOK /\ InvQueue /\ [Next]_vars => InvQueue'
<1> SUFFICES ASSUME TypeOK, InvQueue, [Next]_vars PROVE InvQueue'
  OBVIOUS
<1> USE DEF InvQueue
<1>1. ASSUME NEW p \in Peers, Connect(p) PROVE InvQueue'
  <2>1. /\ backlog' = Append(backlog, p) /\ backlog' \in Seq(Peers) /\ Len(backlog') = Len(backlog) + 1
        /\ backlog'[Len(backlog) + 1] = p /\ \A i \in 1..Len(backlog) : backlog'[i] = backlog[i]
    BY <1>1 DEF Connect
  <2>2. tcp[p] = "none" /\ tcp' = [tcp EXCEPT ![p] = "up"] /\ fds' = fds /\ tcp \in [Peers -> {"none", "up", "fin", "rst"}]
        /\ fds \subseteq Peers
    BY <1>1 DEF Connect, TypeOK
  <2>3. \A i \in 1..Len(backlog) : backlog[i] # p /\ backlog[i] \in Peers
    BY <2>2
  <2>4. p \notin fds
    BY <2>2
  <2>5. Len(backlog) \in Nat
    OBVIOUS
  <2>6. \A i \in 1..Len(backlog') : backlog'[i] \notin fds' /\ tcp'[backlog'[i]] # "none"
    BY <2>1, <2>2, <2>3, <2>4, <2>5
  <2>7. \A i, j \in 1..Len(backlog') : backlog'[i] = backlog'[j] => i = j
    BY <2>1, <2>3, <2>5
  <2>8. \A q \in fds' : tcp'[q] # "none"
    BY <2>2
  <2> QED
    BY <2>1, <2>6, <2>7, <2>8
<1>2. ASSUME NEW p \in Peers, Leave(p) PROVE InvQueue'
  <2>1. /\ \A q \in Peers : tcp[q] # "none" => tcp'[q] # "none"
        /\ backlog' = backlog /\ fds' = fds
    BY <1>2 DEF Leave, TypeOK
  <2> QED
    BY <2>1 DEF TypeOK
<1>3. ASSUME NEW t \in Threads, Accept(t) PROVE InvQueue'
  <2>1. backlog' = Tail(backlog) /\ fds' = fds \cup {Head(backlog)} /\ tcp' = tcp
    BY <1>3 DEF Accept
  <2>2. backlog \in Seq(Peers) /\ Len(backlog) \in Nat \ {0} /\ Head(backlog) = backlog[1]
    BY <1>3 DEF Accept
  <2>3. /\ backlog' \in Seq(Peers) /\ Len(backlog') = Len(backlog) - 1
        /\ \A i \in 1..Len(backlog') : backlog'[i] = backlog[i + 1]
    BY <2>1, <2>2
  <2>4. 1 \in 1..Len(backlog) /\ \A i \in 1..Len(backlog') : i + 1 \in 1..Len(backlog) /\ i + 1 # 1
    BY <2>2, <2>3
  <2>5. \A i \in 1..Len(backlog') : backlog'[i] \notin fds' /\ tcp'[backlog'[i]] # "none"
    BY <2>1, <2>2, <2>3, <2>4
  <2>6. \A i, j \in 1..Len(backlog') : backlog'[i] = backlog'[j] => i = j
    <3> SUFFICES ASSUME NEW i \in 1..Len(backlog'), NEW j \in 1..Len(backlog'), backlog'[i] = backlog'[j]
                 PROVE i = j
      OBVIOUS
    <3>1. backlog[i + 1] = backlog[j + 1] /\ i + 1 \in 1..Len(backlog) /\ j + 1 \in 1..Len(backlog)
      BY <2>3, <2>4
    <3>2. i + 1 = j + 1
      BY <3>1
    <3> QED
      BY <3>2
  <2>7. \A q \in fds' : tcp'[q] # "none"
    BY <2>1, <2>2, <2>4
  <2> QED
    BY <2>3, <2>5, <2>6, <2>7
<1>4. ASSUME NEW t \in Threads, AcceptFails(t) PROVE InvQueue'
  BY <1>4 DEF AcceptFails, kernel
<1>5. ASSUME NEW t \in Threads, Forget(t) \/ GoOn(t) PROVE InvQueue'
  BY <1>5 DEF Forget, GoOn, SetConnected, Unhook, StopWriter, Resume, kernel
<1>6. CASE ReadEnd \/ ReadRefused \/ Writer
  BY <1>6 DEF ReadEnd, ReadRefused, Writer, WriterStarts, SendFails, SendNotifies, WriterLeaves, kernel
<1>7. CASE Pause \/ Startup \/ Detach \/ Attach
  BY <1>7 DEF Pause, Startup, Detach, Attach, kernel
<1>8. CASE UNCHANGED vars
  BY <1>8 DEF vars, kernel
<1> QED
  BY <1>1, <1>2, <1>3, <1>4, <1>5, <1>6, <1>7, <1>8 DEF Next, Reactor, Listen, Dispatch

-----------------------------------------------------------------------------
(* The device: only Accept takes a connection, only a notification gives   *)
(* it up, and the two alternate.                                           *)

\* What is not in the reactor's threads leaves the device and them alone.
LEMMA Elsewhere ==
    ASSUME TypeOK,
           \/ \E p \in Peers : Connect(p) \/ Leave(p)
           \/ ReadEnd \/ ReadRefused \/ Writer
           \/ Pause \/ Startup \/ Detach \/ Attach \/ UNCHANGED vars
    PROVE  UNCHANGED <<fds, listener, _connectedSocket, doing>> /\ mishaps \subseteq mishaps'
BY DEF Connect, Leave, ReadEnd, ReadRefused, Writer, WriterStarts, SendFails, SendNotifies,
       WriterLeaves, Pause, Startup, Detach, Attach, vars, kernel, device

LEMMA AloneStep == TypeOK /\ InvQueue /\ InvAlone /\ [Next]_vars => InvAlone'
<1> SUFFICES ASSUME TypeOK, InvQueue, InvAlone, [Next]_vars, "overlap" \notin mishaps'
             PROVE  /\ \A t \in Threads : Handling(t)' =>
                          _connectedSocket' = Invalid /\ \A u \in Threads : ~Connecting(u)'
                    /\ \A t \in Threads : Connecting(t)' =>
                          /\ _connectedSocket' = Invalid /\ listener' # "active"
                          /\ \A u \in Threads : Connecting(u)' => u = t
                    /\ listener' = "active" => _connectedSocket' = Invalid
  BY DEF InvAlone
<1>d. DoingOK
  BY TypeParts
<1>m. mishaps \subseteq mishaps' => "overlap" \notin mishaps
  OBVIOUS
<1> USE DEF Handling, Connecting
<1>1. ASSUME NEW t \in Threads, Accept(t)
      PROVE  InvAlone'
  <2>1. "overlap" \notin mishaps /\ _connectedSocket = Invalid /\ _connectedSocket' = Invalid
    BY <1>1 DEF Accept, InvAlone
  <2>2. listener' = "suspended" /\ \A u \in Threads : ~Handling(u)
    BY <1>1 DEF Accept
  <2>3. \A u \in Threads : ~Connecting(u)
    BY <1>1, <2>1 DEF Accept, InvAlone
  <2>4. doing'[t].at = "connect" /\ \A u \in Threads \ {t} : doing'[u] = doing[u]
    BY <1>1, AcceptKeeps
  <2> QED
    BY <2>1, <2>2, <2>3, <2>4 DEF InvAlone
<1>2. ASSUME NEW t \in Threads, AcceptFails(t) PROVE InvAlone'
  BY <1>2 DEF AcceptFails, InvAlone
<1>3. ASSUME NEW t \in Threads, Forget(t) PROVE InvAlone'
  <2>1. _connectedSocket' = Invalid /\ \A u \in Threads : ~Connecting(u)
    BY <1>3 DEF Forget
  <2>2. doing'[t].at = "reader" /\ \A u \in Threads \ {t} : doing'[u] = doing[u]
    BY <1>3, <1>d, StagesStep
  <2> QED
    BY <2>1, <2>2 DEF InvAlone
<1>4. ASSUME NEW t \in Threads, SetConnected(t) PROVE InvAlone'
  <2>1. "overlap" \notin mishaps /\ Connecting(t) /\ listener' = listener
    BY <1>4 DEF SetConnected
  <2>2. listener # "active" /\ \A u \in Threads : ~Handling(u) /\ (Connecting(u) => u = t)
    BY <2>1 DEF InvAlone
  <2>3. doing'[t].at = "idle" /\ \A u \in Threads \ {t} : doing'[u] = doing[u]
    BY <1>4, <1>d, StagesStep DEF GoOn
  <2> QED
    BY <2>1, <2>2, <2>3 DEF InvAlone
<1>5. ASSUME NEW t \in Threads, Unhook(t) \/ StopWriter(t) \/ Resume(t) PROVE InvAlone'
  <2>1. "overlap" \notin mishaps /\ Handling(t) /\ _connectedSocket' = _connectedSocket
    BY <1>5 DEF Unhook, StopWriter, Resume, device
  <2>2. _connectedSocket = Invalid /\ \A u \in Threads : ~Connecting(u)
    BY <2>1 DEF InvAlone
  <2>3. doing'[t].at \in {"writer", "resume", "idle"} /\ \A u \in Threads \ {t} : doing'[u] = doing[u]
    BY <1>5, <1>d, StagesStep DEF GoOn
  <2> QED
    BY <2>1, <2>2, <2>3 DEF InvAlone
<1>6. ASSUME UNCHANGED <<listener, _connectedSocket, doing>>, mishaps \subseteq mishaps' PROVE InvAlone'
  BY <1>6 DEF InvAlone
<1>7. InvAlone'
  BY <1>1, <1>2, <1>3, <1>4, <1>5, <1>6, Elsewhere DEF Next, Reactor, Listen, Dispatch, GoOn
<1> QED
  BY <1>7 DEF InvAlone

LEMMA UpStep == TypeOK /\ InvQueue /\ InvAlone /\ InvUp /\ [Next]_vars => InvUp'
<1> SUFFICES ASSUME TypeOK, InvQueue, InvAlone, InvUp, [Next]_vars,
                    mishaps' \cap {"undueNote", "overlap"} = {},
                    NEW q \in fds', tcp'[q] = "up"
             PROVE  q = _connectedSocket' \/ \E t \in Threads : doing'[t].peer = q
  BY DEF InvUp
<1> USE DEF kernel, device
<1>0. fds \subseteq Peers /\ tcp \in [Peers -> {"none", "up", "fin", "rst"}] /\ Invalid \notin Peers /\ DoingOK
  BY TcpAssumption, TypeParts DEF TypeOK
<1>s. q # Invalid /\ q \in Peers
  <2>1. fds' \subseteq Peers
    BY TypeStep DEF TypeOK
  <2> QED
    BY <1>0, <2>1
<1>h. ASSUME mishaps \subseteq mishaps', q \in fds, tcp[q] = "up"
      PROVE  q = _connectedSocket \/ \E t \in Threads : doing[t].peer = q
  BY <1>h DEF InvUp
<1>1. ASSUME NEW p \in Peers, Connect(p) PROVE q = _connectedSocket' \/ \E t \in Threads : doing'[t].peer = q
  <2>1. q \in fds /\ q # p
    BY <1>0, <1>1 DEF Connect, InvQueue
  <2> QED
    BY <1>0, <1>1, <1>h, <2>1 DEF Connect
<1>2. ASSUME NEW p \in Peers, Leave(p) PROVE q = _connectedSocket' \/ \E t \in Threads : doing'[t].peer = q
  BY <1>0, <1>2, <1>h DEF Leave
<1>3. ASSUME NEW t \in Threads, Accept(t) PROVE \E u \in Threads : doing'[u].peer = q
  <2>1. "overlap" \notin mishaps /\ mishaps \subseteq mishaps' /\ tcp' = tcp /\ fds' = fds \cup {Head(backlog)}
    BY <1>3 DEF Accept
  <2>2. _connectedSocket = Invalid /\ \A u \in Threads : ~Connecting(u)
    BY <1>3, <2>1 DEF Accept, InvAlone
  <2>3. \A u \in Threads : doing[u].peer = Invalid
    BY <1>0, <2>2 DEF DoingOK
  <2>4. q \notin fds
    BY <1>h, <1>s, <2>1, <2>2, <2>3
  <2>5. doing'[t].peer = Head(backlog)
    BY <1>3, AcceptKeeps
  <2> QED
    BY <2>1, <2>4, <2>5
<1>4. ASSUME NEW t \in Threads, AcceptFails(t) PROVE q = _connectedSocket' \/ \E u \in Threads : doing'[u].peer = q
  BY <1>4, <1>h DEF AcceptFails
<1>5. ASSUME NEW t \in Threads, Forget(t) PROVE \E u \in Threads : doing'[u].peer = q
  <2>1. q \in fds /\ tcp[q] = "up" /\ mishaps \subseteq mishaps' /\ ~Undue /\ \A u \in Threads : ~Connecting(u)
    BY <1>5 DEF Forget
  <2>2. q # _connectedSocket
    BY <1>s, <2>1 DEF Undue
  <2>3. \A u \in Threads : doing[u].peer = Invalid
    BY <1>0, <2>1 DEF DoingOK
  <2> QED
    BY <1>h, <1>s, <2>1, <2>2, <2>3
<1>6. ASSUME NEW t \in Threads, GoOn(t) PROVE q = _connectedSocket' \/ \E u \in Threads : doing'[u].peer = q
  <2>1. q \in fds /\ tcp[q] = "up" /\ mishaps \subseteq mishaps'
    BY <1>6 DEF GoOn, SetConnected, Unhook, StopWriter, Resume
  <2>2. \A u \in Threads \ {t} : doing'[u] = doing[u]
    BY <1>0, <1>6, StagesStep
  <2>3. CASE SetConnected(t)
    <3>1. _connectedSocket' = doing[t].peer /\ Connecting(t) /\ "overlap" \notin mishaps
      BY <2>1, <2>3 DEF SetConnected
    <3>2. _connectedSocket = Invalid
      BY <3>1 DEF InvAlone
    <3> QED
      BY <1>h, <1>s, <2>1, <2>2, <3>1, <3>2
  <2>4. CASE Unhook(t) \/ StopWriter(t) \/ Resume(t)
    <3>1. _connectedSocket' = _connectedSocket /\ ~Connecting(t)
      BY <2>4 DEF Unhook, StopWriter, Resume, Connecting
    <3>2. doing[t].peer = Invalid
      BY <1>0, <3>1 DEF DoingOK
    <3> QED
      BY <1>h, <1>s, <2>1, <2>2, <3>1, <3>2
  <2> QED
    BY <1>6, <2>3, <2>4 DEF GoOn
<1>7. CASE ReadEnd \/ ReadRefused \/ Writer
  BY <1>7, <1>h DEF ReadEnd, ReadRefused, Writer, WriterStarts, SendFails, SendNotifies, WriterLeaves
<1>8. CASE Pause \/ Startup \/ Detach \/ Attach
  BY <1>8, <1>h DEF Pause, Startup, Detach, Attach
<1>9. CASE UNCHANGED vars
  BY <1>9, <1>h DEF vars
<1> QED
  BY <1>1, <1>2, <1>3, <1>4, <1>5, <1>6, <1>7, <1>8, <1>9 DEF Next, Reactor, Listen, Dispatch

-----------------------------------------------------------------------------
(* The receiver: its entry in the reactor and its flag.                    *)

LEMMA RegisteredStep ==
    TypeOK /\ InvQueue /\ InvAlone /\ InvRegistered /\ [Next]_vars => InvRegistered'
<1> DEFINE Told == reader.registered = _connectedSocket \/ \E t \in Threads : doing[t].at = "reader"
<1> SUFFICES ASSUME TypeOK, InvQueue, InvAlone, InvRegistered, [Next]_vars,
                    mishaps' \cap {"idleStart", "overlap"} = {}, reader'.registered # Invalid
             PROVE  /\ reader'.device /\ reader'.svcDone = FALSE
                    /\ reader'.registered = reader'.handle
                    /\ Told'
  BY DEF InvRegistered
<1> USE DEF kernel, device
<1>r. reader \in Readers /\ _connectedSocket \in Handles /\ Invalid \notin Peers /\ DoingOK
  BY TcpAssumption, TypeParts DEF TypeOK, Readers, Handles
<1>m. mishaps \subseteq mishaps' => mishaps \cap {"idleStart", "overlap"} = {}
  OBVIOUS
<1>n. mishaps \subseteq mishaps'
  <2>1. ASSUME NEW t \in Threads, Accept(t) PROVE mishaps \subseteq mishaps'
    BY <2>1 DEF Accept
  <2>3. ASSUME NEW t \in Threads, AcceptFails(t) PROVE mishaps \subseteq mishaps'
    BY <2>3 DEF AcceptFails
  <2>4. ASSUME NEW t \in Threads, Forget(t) PROVE mishaps \subseteq mishaps'
    BY <2>4 DEF Forget
  <2>2. ASSUME NEW t \in Threads, GoOn(t) PROVE mishaps \subseteq mishaps'
    BY <2>2 DEF GoOn, SetConnected, Unhook, StopWriter, Resume
  <2> QED
    BY <2>1, <2>2, <2>3, <2>4, Elsewhere DEF Next, Reactor, Listen, Dispatch
<1>o. mishaps \cap {"idleStart", "overlap"} = {}
  BY <1>n
<1>1. ASSUME reader.registered # Invalid
      PROVE  /\ reader.device /\ reader.svcDone = FALSE
             /\ reader.registered = reader.handle /\ Told
  BY <1>o, <1>1 DEF InvRegistered
<1>2. Closed(reader).registered = Invalid /\ Unregistered(reader).registered = Invalid
  <2>1. Unregistered(reader).registered = Invalid
    <3>1. CASE reader.registered = reader.handle
      BY <1>r, <3>1, ReaderFacts
    <3>2. CASE reader.registered # reader.handle
      <4>1. reader.registered = Invalid
        BY <1>1, <3>2
      <4>2. Unregistered(reader).registered = reader.registered
        BY <1>r, <3>2, ReaderFacts
      <4> QED
        BY <4>1, <4>2
    <3> QED
      BY <3>1, <3>2
  <2>2. CASE reader.svcDone = FALSE /\ reader.handle # Invalid
    <3>1. Closed(reader).registered = Unregistered(reader).registered
      BY <1>r, <2>2, ReaderFacts
    <3> QED
      BY <2>1, <3>1
  <2>3. CASE reader.svcDone = TRUE \/ reader.handle = Invalid
    <3>1. Closed(reader) = reader
      BY <1>r, <2>3, ReaderFacts
    <3>2. reader.registered = Invalid
      <4> SUFFICES ASSUME reader.registered # Invalid PROVE FALSE
        OBVIOUS
      <4> QED
        BY <1>1, <2>3
    <3> QED
      BY <2>1, <3>1, <3>2
  <2>4. reader.svcDone \in BOOLEAN
    BY <1>r DEF Readers
  <2> QED
    BY <2>2, <2>3, <2>1, <2>4
<1>3. ASSUME UNCHANGED <<reader, _connectedSocket, doing>>
      PROVE  /\ reader'.device /\ reader'.svcDone = FALSE
             /\ reader'.registered = reader'.handle /\ Told'
  BY <1>1, <1>3
<1> DEFINE Goal == /\ reader'.device /\ reader'.svcDone = FALSE
                   /\ reader'.registered = reader'.handle /\ Told'
<1>4. ASSUME NEW p \in Peers, Connect(p) \/ Leave(p) PROVE UNCHANGED <<reader, _connectedSocket, doing>>
  BY <1>4 DEF Connect, Leave
<1>5. ASSUME NEW t \in Threads, Accept(t) PROVE Goal
  <2>1. UNCHANGED <<reader, _connectedSocket>> /\ \A u \in Threads : doing[u].at # "reader"
    BY <1>5 DEF Accept, Handling
  <2> QED
    BY <1>1, <2>1
<1>6. ASSUME NEW t \in Threads, AcceptFails(t) PROVE UNCHANGED <<reader, _connectedSocket, doing>>
  BY <1>6 DEF AcceptFails
<1>7. ASSUME NEW t \in Threads, Forget(t) PROVE Goal
  <2>1. reader' = reader /\ doing'[t].at = "reader"
    BY <1>r, <1>7, StagesStep DEF Forget
  <2> QED
    BY <1>1, <2>1
<1>8. ASSUME NEW t \in Threads, SetConnected(t) PROVE Goal
  <2> DEFINE p == doing[t].peer
             r == [reader EXCEPT !.handle = p]
  <2>1. Connecting(t) /\ "overlap" \notin mishaps
    BY <1>8, <1>o DEF SetConnected
  <2>2. _connectedSocket = Invalid /\ \A u \in Threads : doing[u].at # "reader"
    BY <2>1 DEF InvAlone, Handling
  <2>3. reader.registered = Invalid
    BY <1>1, <2>2
  <2>4. p # Invalid /\ p \in Handles
    BY <1>r, <2>1 DEF DoingOK, Places, Handles, TypeOK
  <2>5. r \in Readers /\ r.handle = p /\ r.device = reader.device /\ r.registered = reader.registered
    BY <1>r, <2>4, ReaderTypes DEF Readers
  <2>6. reader.device /\ reader' = Opened(r) /\ _connectedSocket' = p
    BY <1>8, <2>3 DEF SetConnected
  <2> HIDE DEF p, r
  <2>7. r.svcDone = TRUE
    BY <2>3, <2>5, <2>6, ReaderFacts DEF Readers
  <2>8. Opened(r).registered = p /\ Opened(r).svcDone = FALSE /\ Opened(r).handle = p
    BY <2>4, <2>5, <2>7, ReaderFacts
  <2>9. Opened(r).device = reader.device
    BY <2>5, ReaderFacts
  <2> QED
    BY <2>6, <2>8, <2>9
<1>9. ASSUME NEW t \in Threads, Unhook(t) PROVE Goal
  BY <1>1, <1>2, <1>9 DEF Unhook
<1>10. ASSUME NEW t \in Threads, StopWriter(t) \/ Resume(t) PROVE Goal
  <2>1. UNCHANGED <<reader, _connectedSocket>> /\ doing[t].at # "reader"
    BY <1>10 DEF StopWriter, Resume
  <2>2. \A u \in Threads \ {t} : doing'[u] = doing[u]
    BY <1>r, <1>10, StagesStep DEF GoOn
  <2> QED
    BY <1>1, <2>1, <2>2
<1>11. CASE ReadEnd \/ ReadRefused
  <2>1. Closed(reader) \in Readers
    BY <1>r, ReaderTypes
  <2>2. reader'.registered = Invalid
    BY <1>2, <1>11, <2>1 DEF ReadEnd, ReadRefused, Readers
  <2> QED
    BY <2>2
<1>12. CASE Writer
  BY <1>3, <1>12 DEF Writer, WriterStarts, SendFails, SendNotifies, WriterLeaves
<1>13. CASE Pause \/ Detach
  <2>1. Closed(reader) \in Readers
    BY <1>r, ReaderTypes
  <2>2. reader'.registered = Invalid
    BY <1>2, <1>13, <2>1 DEF Pause, Detach, Readers
  <2> QED
    BY <2>2
<1>14. CASE Startup
  <2>1. /\ reader.handle = _connectedSocket /\ reader.device
        /\ reader' = Opened(reader) /\ UNCHANGED <<_connectedSocket, doing>>
    BY <1>14 DEF Startup
  <2>2. CASE reader.svcDone = TRUE /\ reader.handle # Invalid
    BY <1>r, <2>1, <2>2, ReaderFacts
  <2>3. CASE reader.svcDone = FALSE \/ reader.handle = Invalid
    <3>1. reader' = reader
      BY <1>r, <2>1, <2>3, ReaderFacts
    <3> QED
      BY <1>1, <2>1, <3>1
  <2> QED
    BY <1>r, <2>2, <2>3 DEF Readers
<1>15. CASE Attach
  <2> DEFINE on == [reader EXCEPT !.device = TRUE, !.handle = _connectedSocket]
  <2>1. ~reader.device /\ _connectedSocket' = _connectedSocket
    BY <1>15 DEF Attach
  <2>2. reader.registered = Invalid
    BY <1>1, <2>1
  <2>3. /\ on \in Readers /\ on.handle = _connectedSocket /\ on.device = TRUE /\ on.svcDone = reader.svcDone
        /\ [reader EXCEPT !.device = TRUE].registered = reader.registered
    BY <1>r, ReaderTypes DEF Readers, Handles
  <2>4. CASE isConnected /\ reader.svcDone
    <3>1. reader' = Opened(on) /\ on.handle # Invalid /\ on.svcDone = TRUE
      BY <1>15, <1>r, <2>3, <2>4 DEF Attach, isConnected, Readers
    <3> HIDE DEF on
    <3> QED
      BY <2>1, <2>3, <3>1, ReaderFacts
  <2>5. CASE ~(isConnected /\ reader.svcDone)
    BY <1>15, <2>2, <2>3, <2>5 DEF Attach
  <2> QED
    BY <2>4, <2>5
<1>16. CASE UNCHANGED vars
  BY <1>3, <1>16 DEF vars
<1> QED
  BY <1>3, <1>4, <1>5, <1>6, <1>7, <1>8, <1>9, <1>10, <1>11, <1>12, <1>13, <1>14, <1>15, <1>16
     DEF Next, Reactor, Listen, Dispatch, GoOn

LEMMA ServingStep ==
    TypeOK /\ InvQueue /\ InvAlone /\ InvRegistered /\ InvServing /\ [Next]_vars => InvServing'
<1> SUFFICES ASSUME TypeOK, InvQueue, InvAlone, InvRegistered, InvServing, [Next]_vars,
                    mishaps' = {}, reader'.svcDone = FALSE
             PROVE  /\ reader'.device
                    /\ reader'.registered = _connectedSocket' /\ _connectedSocket' # Invalid
  BY DEF InvServing
<1> USE DEF kernel, device
<1>r. reader \in Readers /\ _connectedSocket \in Handles /\ Invalid \notin Peers /\ DoingOK
  BY TcpAssumption, TypeParts DEF TypeOK, Readers, Handles
<1>1. ASSUME mishaps = {}, reader.svcDone = FALSE
      PROVE  /\ reader.device /\ reader.registered = _connectedSocket /\ _connectedSocket # Invalid
             /\ reader.handle = _connectedSocket
  BY <1>1 DEF InvServing, InvRegistered
<1>2. ASSUME mishaps = {} PROVE Closed(reader).svcDone = TRUE
  <2>1. CASE reader.svcDone = FALSE
    BY <1>1, <1>2, <1>r, <2>1, ReaderFacts
  <2>2. CASE reader.svcDone = TRUE
    BY <1>r, <2>2, ReaderFacts
  <2> QED
    BY <1>r, <2>1, <2>2 DEF Readers
<1>3. CASE UNCHANGED <<reader, _connectedSocket, mishaps>>
  BY <1>1, <1>3
<1>4. ASSUME NEW p \in Peers, Connect(p) \/ Leave(p) PROVE UNCHANGED <<reader, _connectedSocket, mishaps>>
  BY <1>4 DEF Connect, Leave
<1>5. ASSUME NEW t \in Threads, Accept(t) \/ AcceptFails(t) \/ StopWriter(t) \/ Resume(t)
      PROVE  UNCHANGED <<reader, _connectedSocket>> /\ mishaps = {}
  BY <1>5 DEF Accept, AcceptFails, StopWriter, Resume
<1>c. ASSUME NEW t \in Threads, SetConnected(t)
      PROVE  reader'.device /\ reader'.registered = _connectedSocket' /\ _connectedSocket' # Invalid
  <2> DEFINE p == doing[t].peer
             r == [reader EXCEPT !.handle = p]
  <2>1. mishaps = {} /\ Connecting(t) /\ _connectedSocket' = p
    BY <1>c DEF SetConnected
  <2>2. _connectedSocket = Invalid
    BY <2>1 DEF InvAlone
  <2>3. p # Invalid /\ p \in Handles
    BY <1>r, <2>1 DEF DoingOK, Places, Handles, TypeOK
  <2>4. r \in Readers /\ r.handle = p /\ r.device = reader.device /\ r.svcDone = reader.svcDone
    BY <1>r, <2>3, ReaderTypes DEF Readers
  <2>5. reader.svcDone = TRUE
    BY <1>1, <1>r, <2>1, <2>2 DEF Readers
  <2>6. reader.device /\ reader' = Opened(r)
    BY <1>c, <2>5 DEF SetConnected
  <2> HIDE DEF p, r
  <2> QED
    BY <2>1, <2>3, <2>4, <2>5, <2>6, ReaderFacts
<1>6. ASSUME NEW t \in Threads, Forget(t) PROVE FALSE
  <2>1. mishaps = {} /\ ~Undue /\ reader' = reader
    BY <1>6 DEF Forget
  <2> QED
    BY <1>1, <2>1 DEF Undue
<1>u. ASSUME NEW t \in Threads, Unhook(t) PROVE FALSE
  <2>1. mishaps = {} /\ Handling(t)
    BY <1>u DEF Unhook, Handling
  <2>2. _connectedSocket = Invalid
    BY <2>1 DEF InvAlone
  <2>3. reader'.svcDone = reader.svcDone
    BY <1>u, <1>r, ReaderFacts DEF Unhook
  <2> QED
    BY <1>1, <2>1, <2>2, <2>3
<1>7. CASE ReadEnd \/ ReadRefused \/ Pause \/ Detach
  <2>1. mishaps = {} /\ Closed(reader) \in Readers
    BY <1>7, <1>r, ReaderTypes DEF ReadEnd, ReadRefused, Pause, Detach
  <2>2. reader'.svcDone = TRUE
    BY <1>2, <1>7, <2>1 DEF ReadEnd, ReadRefused, Pause, Detach, Readers
  <2> QED
    BY <2>2
<1>8. CASE Writer
  BY <1>3, <1>8 DEF Writer, WriterStarts, SendFails, SendNotifies, WriterLeaves
<1>9. CASE Startup
  <2>1. /\ mishaps = {} /\ reader.handle = _connectedSocket /\ reader.device
        /\ reader' = Opened(reader) /\ _connectedSocket' = _connectedSocket
    BY <1>9 DEF Startup
  <2>2. CASE reader.svcDone = TRUE /\ reader.handle # Invalid
    BY <1>r, <2>1, <2>2, ReaderFacts
  <2>3. CASE reader.svcDone = FALSE \/ reader.handle = Invalid
    BY <1>1, <1>r, <2>1, <2>3, ReaderFacts
  <2> QED
    BY <1>r, <2>2, <2>3 DEF Readers
<1>10. CASE Attach
  <2> DEFINE on == [reader EXCEPT !.device = TRUE, !.handle = _connectedSocket]
  <2>1. mishaps = {} /\ ~reader.device /\ _connectedSocket' = _connectedSocket
    BY <1>10 DEF Attach
  <2>2. reader.svcDone = TRUE
    BY <1>1, <1>r, <2>1 DEF Readers
  <2>3. /\ on \in Readers /\ on.handle = _connectedSocket /\ on.device = TRUE /\ on.svcDone = reader.svcDone
        /\ [reader EXCEPT !.device = TRUE].svcDone = reader.svcDone
    BY <1>r, ReaderTypes DEF Readers, Handles
  <2>4. isConnected /\ reader' = Opened(on)
    BY <1>10, <2>2, <2>3 DEF Attach
  <2> HIDE DEF on
  <2> QED
    BY <2>1, <2>2, <2>3, <2>4, ReaderFacts DEF isConnected
<1>11. CASE UNCHANGED vars
  BY <1>3, <1>11 DEF vars
<1> QED
  BY <1>3, <1>4, <1>5, <1>c, <1>6, <1>u, <1>7, <1>8, <1>9, <1>10, <1>11
     DEF Next, Reactor, Listen, Dispatch, GoOn

-----------------------------------------------------------------------------
LEMMA TcpInvariant == Spec => []TcpInv
<1>1. TcpInv /\ [Next]_vars => TcpInv'
  BY TypeStep, QueueStep, AloneStep, UpStep, RegisteredStep, ServingStep DEF TcpInv
<1> QED
  BY TcpInit, <1>1, PTL DEF Spec

\* "Only one connection is accepted at a time": however clients connect, hang up and are reset,
\* and whoever reports it, two of those accepted are never both up, but for a notification
\* that comes before the receiver has heard of the end or that is still being handled when
\* the next client is accepted (devTcp4Server::handle_input(), handle_exception()).
THEOREM OneConnectionAtATime == Spec => []OneAtATime
<1>1. TcpInv => OneAtATime
  <2> SUFFICES ASSUME TcpInv, NEW p \in fds, NEW q \in fds, tcp[p] = "up", tcp[q] = "up",
                      mishaps \cap {"undueNote", "overlap"} = {}
               PROVE  p = q
    BY DEF OneAtATime
  <2>1. p # Invalid /\ q # Invalid /\ DoingOK
    BY TypeParts, TcpAssumption DEF TcpInv, TypeOK
  <2>2. /\ p = _connectedSocket \/ \E t \in Threads : doing[t].peer = p
        /\ q = _connectedSocket \/ \E t \in Threads : doing[t].peer = q
    BY DEF TcpInv, InvUp
  <2>3. \A t \in Threads : doing[t].peer # Invalid =>
           _connectedSocket = Invalid /\ \A u \in Threads : doing[u].peer # Invalid => u = t
    BY <2>1 DEF TcpInv, InvAlone, DoingOK
  <2> QED
    BY <2>1, <2>2, <2>3
<1> QED
  BY TcpInvariant, <1>1, PTL

\* The receiver is in the reactor exactly for the socket the device is on, or for the one a
\* thread is just giving up, until somebody starts it without one or a mishap comes between
\* (modTcp4Receiver, FdInputHandler, devTcp4Server::handle_exception()).
THEOREM ReaderFollowsDevice == Spec => []ReaderAgrees
<1>1. TcpInv => TypeOK /\ NeverSpins
  BY DEF TcpInv, InvRegistered, NeverSpins
<1>2. TcpInv => HearsConnection
  <2> SUFFICES ASSUME TcpInv, Serving, mishaps = {} PROVE reader.registered = _connectedSocket
    BY DEF HearsConnection
  <2>1. reader.svcDone = FALSE
    BY DEF TcpInv, TypeOK, Serving
  <2> QED
    BY <2>1 DEF TcpInv, InvServing
<1> QED
  BY TcpInvariant, <1>1, <1>2, PTL DEF ReaderAgrees
=============================================================================
