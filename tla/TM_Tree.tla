------------------------------ MODULE TM_Tree -------------------------------
(***************************************************************************)
(* The TM channel tree: the frames of each virtual channel pass through    *)
(* the virtual channel multiplexer of their spacecraft and the master      *)
(* channel multiplexer to the physical channel, and back through the       *)
(* master channel demultiplexer and a virtual channel demultiplexer to a   *)
(* user, each handler with a thread and a queue of its own, while the      *)
(* outputs of the virtual channel demultiplexers are changed.              *)
(***************************************************************************)
EXTENDS TM_Demux_Base

CONSTANTS
    Foreign,        \* spacecraft identifiers of others heard on the channel
    DropBadFrames,  \* whether the handlers discard invalid frames
    MaxFrames,      \* bound: frames emitted in all
    MaxHits,        \* bound: frames lost, spoilt, misaddressed or foreign
    MaxEvents       \* bound: frames emitted, hits and calls together

\* A virtual channel demultiplexer is named by the master channel it serves.
ASSUME TreeAssumption ==
    /\ Demuxes \cup Foreign \subseteq Nat /\ Demuxes \cap Foreign = {}
    /\ DropBadFrames \in BOOLEAN
    /\ MaxFrames \in Nat /\ MaxHits \in Nat /\ MaxEvents \in Nat

\* A frame: who sent it, what its header says, whether it is well formed.
Frame == [from : Demuxes \cup Foreign, no : 1..MaxFrames + MaxHits,
          mcid : Demuxes \cup Foreign, vcid : Ids, ok : BOOLEAN]

VARIABLES
    vcMux,      \* queues of the virtual channel multiplexers
    mcMux,      \* queue of the master channel multiplexer
    line,       \* the physical channel and the master channel demultiplexer's queue
    vcDemux,    \* queues of the virtual channel demultiplexers
    got,        \* ghost: what each user was sent, and by which demultiplexer
    emitted,    \* ghost: the frames emitted with their own identifiers
    gone,       \* ghost: the frames hit on the way or without an output
    hits

traffic == <<vcMux, mcMux, line, vcDemux, got, emitted, gone, hits>>
vars == <<demux, traffic>>

\* Queues hold frames, and the demultiplexers' state is well formed.
TypeOK ==
    /\ DemuxTypeOK
    /\ vcMux \in [Demuxes -> Seq(Frame)] /\ vcDemux \in [Demuxes -> Seq(Frame)]
    /\ mcMux \in Seq(Frame) /\ line \in Seq(Frame)
    /\ got \in [Users -> Seq([frame : Frame, via : Demuxes])]
    /\ emitted \subseteq Frame /\ gone \subseteq Frame
    /\ hits \in 0..MaxHits

Init ==
    /\ DemuxInit
    /\ vcMux = [d \in Demuxes |-> <<>>]
    /\ mcMux = <<>>
    /\ line = <<>>
    /\ vcDemux = [d \in Demuxes |-> <<>>]
    /\ got = [u \in Users |-> <<>>]
    /\ emitted = {}
    /\ gone = {}
    /\ hits = 0

\* Mutant: a frame overtakes those already queued.
PutqFirst(queue, f) == <<f>> \o queue

\* TM_Mux_Base::putq(): the priority is noted in the frame, and the frame is
\* queued last; getData_() takes the first whatever its priority.
Putq(queue, f) == Append(queue, f)

-----------------------------------------------------------------------------
(* What is sent.                                                           *)

\* The bound on everything that comes from outside.
Room == calls + hits + Cardinality(emitted) < MaxEvents

\* A source hands a frame of its virtual channel to the multiplexer.
Emit(d, v) ==
    LET n == Cardinality(emitted) + 1
        f == [from |-> d, no |-> n, mcid |-> d, vcid |-> v, ok |-> TRUE]
    IN  /\ ~crashed
        /\ n <= MaxFrames /\ Room
        /\ vcMux' = [vcMux EXCEPT ![d] = Putq(@, f)]
        /\ emitted' = emitted \cup {f}
        /\ UNCHANGED <<demux, mcMux, line, vcDemux, got, gone, hits>>

\* A source configured with the identifier of another master channel.
EmitMisaddressed(d, m, v) ==
    /\ ~crashed
    /\ m # d
    /\ hits < MaxHits /\ Room
    /\ hits' = hits + 1
    /\ vcMux' = [vcMux EXCEPT ![d] = Putq(@, [from |-> d, no |-> MaxFrames + hits',
                                              mcid |-> m, vcid |-> v, ok |-> TRUE])]
    /\ UNCHANGED <<demux, mcMux, line, vcDemux, got, emitted, gone>>

-----------------------------------------------------------------------------
(* Service threads.                                                        *)

\* Mutant: only the form of a frame is checked.
OfNoOther(f, d) == TRUE

\* The test of the master channel identifier.
OfMasterChannel(f, d) == f.mcid = d

\* A frame a handler goes on with.
Keeps(f, d) == ~DropBadFrames \/ (f.ok /\ OfMasterChannel(f, d))

\* Mutant: a rejected frame's successor is discarded with it.
VC_MuxFlush(d) ==
    /\ ~crashed
    /\ vcMux[d] # <<>>
    /\ LET f == Head(vcMux[d])
       IN  /\ vcMux' = [vcMux EXCEPT ![d] = IF Keeps(f, d) THEN Tail(@) ELSE <<>>]
           /\ mcMux' = IF Keeps(f, d) THEN Putq(mcMux, f) ELSE mcMux
    /\ UNCHANGED <<demux, line, vcDemux, got, emitted, gone, hits>>

\* modTM_VC_Mux::svc(), one frame.
VC_Mux(d) ==
    /\ ~crashed
    /\ vcMux[d] # <<>>
    /\ vcMux' = [vcMux EXCEPT ![d] = Tail(@)]
    /\ LET f == Head(vcMux[d])
       IN  mcMux' = IF Keeps(f, d) THEN Putq(mcMux, f) ELSE mcMux
    /\ UNCHANGED <<demux, line, vcDemux, got, emitted, gone, hits>>

\* modTM_MC_Mux::svc(), one frame: only its length is tested, and all frames
\* here have the right one.
MC_Mux ==
    /\ ~crashed
    /\ mcMux # <<>>
    /\ mcMux' = Tail(mcMux)
    /\ line' = Append(line, Head(mcMux))
    /\ UNCHANGED <<demux, vcMux, vcDemux, got, emitted, gone, hits>>

\* modTM_MC_Demux::svc(), one frame: the map is keyed by ACE_UINT8, and the
\* look-up drops the upper bits of the identifier.
MC_Demux ==
    /\ ~crashed
    /\ line # <<>>
    /\ line' = Tail(line)
    /\ LET f == Head(line)
           key == f.mcid % 256
       IN  vcDemux' = IF (f.ok \/ ~DropBadFrames) /\ key \in Demuxes
                      THEN [vcDemux EXCEPT ![key] = Append(@, f)]
                      ELSE vcDemux
    /\ UNCHANGED <<demux, vcMux, mcMux, got, emitted, gone, hits>>

\* modTM_VC_Demux::svc(), one frame.  send() through a link without a target
\* throws DisconnectedLink, which nothing catches.
VC_Demux(d) ==
    /\ ~crashed
    /\ vcDemux[d] # <<>>
    /\ vcDemux' = [vcDemux EXCEPT ![d] = Tail(@)]
    /\ LET f == Head(vcDemux[d])
           l == links[d][f.vcid]
       IN  \/ /\ ~Keeps(f, d)
              /\ UNCHANGED <<crashed, got, gone>>
           \/ /\ Keeps(f, d) /\ l = None
              /\ gone' = gone \cup {f}
              /\ UNCHANGED <<crashed, got>>
           \/ /\ Keeps(f, d) /\ l = Loose
              /\ crashed' = TRUE
              /\ UNCHANGED <<got, gone>>
           \/ /\ Keeps(f, d) /\ l \in Targets
              /\ got' = [got EXCEPT ![l[1]] = Append(@, [frame |-> f, via |-> d])]
              /\ UNCHANGED <<crashed, gone>>
    /\ UNCHANGED <<members, links, inputs, saved, half, clashes, calls>>
    /\ UNCHANGED <<vcMux, mcMux, line, emitted, hits>>

-----------------------------------------------------------------------------
(* The physical channel.                                                   *)

Hit ==
    /\ ~crashed
    /\ hits < MaxHits /\ Room
    /\ hits' = hits + 1
    /\ UNCHANGED <<demux, vcMux, mcMux, vcDemux, got, emitted>>

Lose(i) ==
    /\ Hit
    /\ gone' = gone \cup {line[i]}
    /\ line' = [j \in 1..Len(line) - 1 |-> IF j < i THEN line[j] ELSE line[j + 1]]

Spoil(i) ==
    /\ Hit
    /\ gone' = gone \cup {line[i]}
    /\ line' = [line EXCEPT ![i].ok = FALSE]

\* A frame of another spacecraft is heard.
Hear(m, v) ==
    /\ Hit
    /\ line' = Append(line, [from |-> m, no |-> MaxFrames + hits', mcid |-> m,
                             vcid |-> v, ok |-> TRUE])
    /\ UNCHANGED gone

-----------------------------------------------------------------------------
Faults ==
    \/ \E i \in 1..Len(line) : Lose(i) \/ Spoil(i)
    \/ \E m \in Foreign, v \in Ids : Hear(m, v)
    \/ \E d, m \in Demuxes, v \in Ids : EmitMisaddressed(d, m, v)

Service == MC_Mux \/ MC_Demux \/ \E d \in Demuxes : VC_Mux(d) \/ VC_Demux(d)

Next ==
    \/ \E d \in Demuxes, v \in Ids : Emit(d, v)
    \/ Faults
    \/ Service
    \/ Room /\ Reconfigure /\ UNCHANGED traffic
    \/ \E h \in half : GoOn(h) /\ UNCHANGED traffic

\* Each handler has a service thread that runs whenever its queue holds
\* something, and a management call that has begun is finished.
Fairness ==
    /\ WF_vars(MC_Mux) /\ WF_vars(MC_Demux)
    /\ \A d \in Demuxes : WF_vars(VC_Mux(d)) /\ WF_vars(VC_Demux(d))
    /\ \A n \in 1..MaxCalls :
        WF_vars(\E h \in half : h.no = n /\ GoOn(h) /\ UNCHANGED traffic)

Spec == Init /\ [][Next]_vars /\ Fairness

-----------------------------------------------------------------------------
\* The demultiplexers, their users and the settings agree on who gets an identifier's frames
\* (TM_Demux_Base::connectOutput(), disconnectOutput(), withdraw()).
RoutesAgree == TypeOK /\ OutputsAgree /\ RoutesAreSaved

Received == UNION {{u} \X (1..Len(got[u])) : u \in Users}
Receipt(p) == got[p[1]][p[2]].frame

\* A user is sent only well-formed frames of the spacecraft whose
\* demultiplexer sends them, although the master channel demultiplexer confuses
\* identifiers equal modulo 256 and a source may be misaddressed
\* (modTM_VC_Mux.cpp:70-75, modTM_VC_Demux.cpp:68-73).
OwnFramesOnly ==
    DropBadFrames =>
        \A p \in Received : Receipt(p).ok /\ Receipt(p).from = got[p[1]][p[2]].via

\* No frame is delivered twice, and what a user gets of one virtual channel
\* keeps the order it was emitted in, however the outputs are changed meanwhile.
InOrder ==
    \A p, q \in Received :
        LET f == Receipt(p)  g == Receipt(q)
        IN  /\ f = g => p = q
            /\ p[1] = q[1] /\ p[2] < q[2] /\ f.from = g.from /\ f.vcid = g.vcid =>
                  f.no < g.no

\* What a user gets is its own, once and in order.
OwnFramesInOrder == OwnFramesOnly /\ InOrder

\* Every frame comes out: it is sent to a user unless the physical channel hit
\* it or its virtual channel has no output, as long as the process lives.
AllArrive ==
    <>[](crashed \/ emitted \subseteq gone \cup {Receipt(p) : p \in Received})

\* BaseTrafficHandler.hpp:159: a link may be "created after the source is
\* already active": the process survives it.
StaysUp == ~crashed
=============================================================================
