----------------------------- MODULE AOS_VC_Link -----------------------------
(***************************************************************************)
(* The packet service of an AOS virtual channel from end to end:           *)
(* modAOS_M_PDU_Add, modAOS_VC_Gen, a channel that loses frames, spoils    *)
(* their headers and inserts idle ones, modAOS_VC_Rcv, modAOS_M_PDU_Remove.*)
(* Every handler has its own thread; what is between two is a queue.       *)
(***************************************************************************)
EXTENDS modAOS_M_PDU_Add

CONSTANTS
    AllowPacketsAfterFill, NoPacket,
    WireMax,    \* bound: frames on their way
    MaxHits     \* bound: frames lost, spoilt or inserted

ASSUME LinkAssumption == WireMax \in Nat \ {0} /\ MaxHits \in Nat /\ NoPacket \notin Seq(Octet)

VARIABLES
    frameSize,        \* _frameSize of both virtual channel modules, as a zone length
    dropBadFrames,    \* _dropBadFrames of the receiver
    sndFrameCount,    \* _vcFrameCount of modAOS_VC_Gen
    rcvFrameCount,    \* _vcFrameCount of modAOS_VC_Rcv: the count expected next
    frameCountMisses, \* _frameCountMisses
    wire,             \* frames between the two
    units, m_pdu, idx, encap, delivered, aborted,
    hits,
    missing,          \* history: frames lost since the last one counted
    gaps,             \* history: times the counts could show that frames were lost
    hurt              \* history: packets some octet of which was lost

R == INSTANCE modAOS_M_PDU_Remove

channelvars == <<frameSize, dropBadFrames, sndFrameCount, rcvFrameCount, frameCountMisses, wire>>
removeonly  == <<m_pdu, idx, encap, delivered, aborted>>
history     == <<missing, gaps, hurt>>
vars == <<addvars, channelvars, units, removeonly, hits, history>>

\* num, and whether the header is as it was sent; idle frames are of virtual channel 63.
TF == [num : 0..MaxVCFrameCount, ok : BOOLEAN, idle : BOOLEAN, pdu : Pdu]

\* Types of the handlers, the queues between them, and the history.
TypeOK ==
    /\ AddTypeOK
    /\ frameSize \in Lengths /\ dropBadFrames \in BOOLEAN
    /\ {sndFrameCount, rcvFrameCount} \subseteq 0..MaxVCFrameCount
    /\ frameCountMisses \in Nat
    /\ wire \in Seq(TF) /\ units \in Seq(Pdu)
    /\ m_pdu \in Pdu \cup {NoPdu} /\ idx \in 0..DataFieldLen - 1
    /\ encap \in Seq(Octet) \cup {NoPacket}
    /\ delivered \in Seq(Seq(Octet)) /\ aborted \in BOOLEAN
    /\ hits \in 0..MaxHits
    /\ missing \in Nat /\ gaps \in Nat /\ hurt \subseteq Nat

Init ==
    /\ AddInit /\ R!RemoveInit
    /\ frameSize = length /\ dropBadFrames \in BOOLEAN
    /\ sndFrameCount = 0 /\ rcvFrameCount = 0 /\ frameCountMisses = 0 /\ wire = <<>>
    /\ hits = 0
    /\ missing = 0 /\ gaps = 0 /\ hurt = {}

Running == ~thrown /\ ~aborted

\* Bounds: frames are hit, or the lengths changed, not both.
CanHit  == hits < MaxHits /\ sizings = 0
CanSize == hits = 0 /\ sizings < MaxSizings

Add == /\ Running /\ AddNext
       /\ CanSize \/ UNCHANGED sizings
       /\ UNCHANGED <<channelvars, units, removeonly, hits, history>>

\* setFrameSize(): the setting belongs to the physical channel, both ends read it.
SetFrameSize == \E n \in Lengths \ {frameSize} :
    /\ Running /\ CanSize
    /\ frameSize' = n /\ sizings' = sizings + 1
    /\ UNCHANGED <<multi, immediate, length, msg_queue, sent, phase, zone, netdata,
                   netdataIdx, mpdu, firstHeaderIndexSet, mpdu_list, mpdus, thrown,
                   dropBadFrames, sndFrameCount, rcvFrameCount, frameCountMisses, wire,
                   units, removeonly, hits, history>>

addonly == <<multi, immediate, length, sizings, msg_queue, sent, phase, zone, netdata,
             netdataIdx, mpdu, firstHeaderIndexSet, mpdu_list, thrown>>

\* modAOS_VC_Gen::svc(): an M_PDU that is not of the frame's size is dropped, the others
\* leave in frames counted one after another.
FrameUp ==
    /\ Running /\ mpdus # <<>> /\ mpdus' = Tail(mpdus)
    /\ IF Head(mpdus).cap # frameSize
       THEN UNCHANGED <<sndFrameCount, wire>>
       ELSE /\ Len(wire) < WireMax
            /\ wire' = Append(wire, [num |-> sndFrameCount, ok |-> TRUE, idle |-> FALSE,
                                     pdu |-> Head(mpdus)])
            /\ sndFrameCount' = IncFrameNumber(sndFrameCount)
    /\ UNCHANGED <<addonly, frameSize, dropBadFrames, rcvFrameCount, frameCountMisses,
                   units, removeonly, hits, history>>

\* A frame of another size is dropped whatever the settings, one with a bad header only if
\* they say so.
Rejected(f) == f.pdu.cap # frameSize \/ (~f.ok /\ dropBadFrames)

\* Mutant: the count is set right, and the frame itself not counted.
CountStuck(f) == IF f.num # rcvFrameCount THEN f.num ELSE IncFrameNumber(f.num)

\* The count expected after a frame: it is set right if it was wrong, then advanced.
CountAfter(f) == IncFrameNumber(f.num)

Contents(f) == {f.pdu.data[i].pkt.id : i \in DOMAIN f.pdu.data} \ {0}

\* modAOS_VC_Rcv::svc(): idle frames are passed over, the rest counted and unwrapped.
Unframe ==
    /\ Running /\ wire # <<>> /\ wire' = Tail(wire)
    /\ LET f == Head(wire) IN
       \/ /\ Rejected(f) /\ ~f.idle
          /\ missing' = missing + 1 /\ hurt' = hurt \cup Contents(f)
          /\ UNCHANGED <<rcvFrameCount, frameCountMisses, units, gaps>>
       \/ /\ f.idle
          /\ UNCHANGED <<rcvFrameCount, frameCountMisses, units, history>>
       \/ /\ ~Rejected(f) /\ ~f.idle
          /\ Len(units) < QueueMax /\ units' = Append(units, f.pdu)
          /\ rcvFrameCount' = CountAfter(f)
          /\ frameCountMisses' = frameCountMisses + (IF f.num # rcvFrameCount THEN 1 ELSE 0)
          /\ missing' = 0
          /\ gaps' = gaps + (IF missing % (MaxVCFrameCount + 1) # 0 THEN 1 ELSE 0)
          /\ UNCHANGED hurt
    /\ UNCHANGED <<addvars, frameSize, dropBadFrames, sndFrameCount, removeonly, hits>>

Remove == /\ Running /\ R!Remove
          /\ UNCHANGED <<addvars, channelvars, hits, history>>

-----------------------------------------------------------------------------
\* The channel in between.
Unhurt == UNCHANGED <<addvars, frameSize, dropBadFrames, sndFrameCount, rcvFrameCount,
                      frameCountMisses, units, removeonly, gaps>>

Lose ==
    /\ Running /\ wire # <<>> /\ CanHit /\ ~Head(wire).idle
    /\ wire' = Tail(wire) /\ hits' = hits + 1
    /\ missing' = missing + 1 /\ hurt' = hurt \cup Contents(Head(wire))
    /\ Unhurt

Spoil ==
    /\ Running /\ wire # <<>> /\ CanHit /\ Head(wire).ok /\ ~Head(wire).idle
    /\ wire' = [wire EXCEPT ![1].ok = FALSE] /\ hits' = hits + 1
    /\ UNCHANGED <<missing, hurt>> /\ Unhurt

InsertIdle ==
    /\ Running /\ CanHit /\ Len(wire) < WireMax
    /\ wire' = Append(wire, [num |-> 0, ok |-> TRUE, idle |-> TRUE,
                             pdu |-> [cap |-> frameSize, fhi |-> 0, data |-> <<>>]])
    /\ hits' = hits + 1
    /\ UNCHANGED <<missing, hurt>> /\ Unhurt

Next == Add \/ SetFrameSize \/ FrameUp \/ Unframe \/ Remove \/ Lose \/ Spoil \/ InsertIdle

Spec == Init /\ [][Next]_vars

\* Each service thread keeps running; a queue that is not empty wakes its reader.
Fairness ==
    /\ WF_vars(AddStep /\ Running /\ UNCHANGED <<channelvars, units, removeonly, hits, history>>)
    /\ WF_vars(FrameUp) /\ WF_vars(Unframe) /\ WF_vars(Remove)
FairSpec == Spec /\ Fairness

-----------------------------------------------------------------------------
\* What comes out is put together from what went in, in order: a unit begins with the start
\* of a packet, each later than the last, and is that packet unless some of its octets were
\* lost; where octets that were not sent one after the other meet, both packets lost some
\* (the "weak test" of modAOS_M_PDU_Remove.cpp:183).
Reassembled == sizings = 0 =>
    \A i \in DOMAIN delivered : LET d == delivered[i] IN
        /\ d[1].k = 0 /\ d[1].pkt.id > 0
        /\ i > 1 => d[1].pkt.id > delivered[i - 1][1].pkt.id
        /\ d = OctetsOf(d[1].pkt) \/ d[1].pkt.id \in hurt
        /\ \A j \in 1..Len(d) - 1 :
              \/ d[j + 1] = [d[j] EXCEPT !.k = @ + 1]
              \/ {d[j].pkt.id, d[j + 1].pkt.id} \subseteq hurt

Quiet == /\ msg_queue = <<>> /\ phase = "get" /\ mpdus = <<>> /\ wire = <<>>
         /\ units = <<>> /\ m_pdu = NoPdu

\* Losses cost the packets that were hit and no other: when all is quiet, every packet none
\* of whose octets was lost has come out, whatever was spliced or given up before it.
NothingElseLost == Quiet /\ Running /\ sizings = 0 =>
    \A p \in 1..Len(sent) : p \in hurt \/ \E i \in DOMAIN delivered :
        delivered[i] = OctetsOf(sent[p])

\* The receiver counts a miss for each gap in the frames, except where as many were lost as
\* the count has values; idle frames and the wrap of the count are not gaps
\* (modAOS_VC_Rcv.cpp:101-113).
MissesCounted == frameCountMisses = gaps

\* The state is of its types, and every gap is counted.
WellCounted == TypeOK /\ MissesCounted

\* With nothing lost every packet sent comes out, however the M_PDUs are filled and sent
\* (modAOS_M_PDU_Add.cpp:244-291).
AllArrive == \A n \in 1..MaxPackets :
    [](hits = 0 /\ sizings = 0 /\ Running) =>
        (Len(sent) >= n ~> \E i \in DOMAIN delivered : delivered[i][1].pkt.id = n)

\* "Should be able to tell in advance from the AOS Transfer Frame if a packet was
\* lost/corrupted." (modAOS_M_PDU_Remove.cpp:184): what comes out are packets that went in.
Service == INSTANCE TM_PacketLink
PacketService == Service!Spec

\* "If these values are equal, make a new MPDU. If mpdu_idx is greater, we added wrong."
\* (modAOS_M_PDU_Add.cpp:212): it never is.
NeverAddsWrong == ~thrown
=============================================================================
