-------------------------- MODULE TM_VC_Gen_Packet --------------------------
(***************************************************************************)
(* modTM_VC_Gen_Packet: packets from the message queue are laid end to end *)
(* into the Data Fields of transfer frames.  A frame that is not full when *)
(* its unit ends waits for more packets (several packets to a frame) until *)
(* the queue has been empty too long, and is then topped up with fill.     *)
(***************************************************************************)
EXTENDS TM_Transfer_Frame

CONSTANTS
    Shapes,       \* the packets a source may send, apart from their identity
    MaxPackets,   \* bound: packets sent
    MaxUnplugs,   \* bound: times the output is disconnected
    WireMax,      \* bound: frames on their way
    NoFrame       \* the null frame pointer

AnyShape == [pvn : PVNs, hdr : Nat \ {0}, len : Nat \ {0}]

ASSUME GenAssumption ==
    /\ Shapes \subseteq AnyShape
    /\ MaxPackets \in Nat /\ MaxUnplugs \in Nat /\ WireMax \in Nat \ {0}
    /\ NoFrame \notin Frame

\* Packets hold their own header; that of a Space Packet is of 6 octets and its length field of
\* 16 bits; an Encapsulation Packet with a header of one octet is no more than that.
ASSUME FormatAssumption == \A s \in Shapes :
    /\ s.hdr <= s.len
    /\ s.pvn = pvnSpacePacket => s.hdr = 6 /\ 7 <= s.len /\ s.len <= 65542
    /\ s.pvn = pvnEncapsulationPacket /\ s.hdr = 1 => s.len = 1

VARIABLES
    multi,                \* _multiPacketDataField: several packets to a Data Field
    msg_queue,            \* packets waiting, as their octets
    sent,                 \* the packets handed to the module so far
    phase,                \* where svc() is: "get", "copy" (the loop), "last" (after it)
    netdata, netdataIdx,  \* the data unit being copied, how much of it is done
    frame,                \* the frame being filled; between calls _unfilledFrame
    firstHeaderIndexSet,
    currentFrameNumber,
    linked, unplugs,      \* whether links_[PrimaryOutputLink] is set
    wire                  \* frames sent and not yet received

genvars == <<multi, msg_queue, sent, phase, netdata, netdataIdx, frame,
             firstHeaderIndexSet, currentFrameNumber, linked, unplugs, wire>>

GenTypeOK ==
    /\ multi \in BOOLEAN /\ firstHeaderIndexSet \in BOOLEAN /\ linked \in BOOLEAN
    /\ msg_queue \in Seq(Seq(Octet))
    /\ sent \in Seq(Packet) /\ unplugs \in 0..MaxUnplugs
    /\ phase \in {"get", "copy", "last"}
    /\ netdata \in Seq(Octet) /\ netdataIdx \in Nat
    /\ frame \in Frame \cup {NoFrame}
    /\ currentFrameNumber \in 0..MaxVCFrameCount
    /\ wire \in Seq(Frame)

GenInit ==
    /\ multi \in BOOLEAN
    /\ msg_queue = <<>> /\ sent = <<>> /\ phase = "get"
    /\ netdata = <<>> /\ netdataIdx = 0
    /\ frame = NoFrame /\ firstHeaderIndexSet = FALSE
    /\ currentFrameNumber = 0
    /\ linked = TRUE /\ unplugs = 0 /\ wire = <<>>

\* A source's link puts a packet into the queue.
Numbered(s) == [id |-> Len(sent) + 1, pvn |-> s.pvn, hdr |-> s.hdr, len |-> s.len]

Arrive == \E s \in Shapes :
    /\ Len(sent) < MaxPackets
    /\ sent' = Append(sent, Numbered(s))
    /\ msg_queue' = Append(msg_queue, OctetsOf(Numbered(s)))
    /\ UNCHANGED <<multi, phase, netdata, netdataIdx, frame, firstHeaderIndexSet,
                   currentFrameNumber, linked, unplugs, wire>>

\* svc(): getData_(), and the entry of _processData(), which resumes an unfilled frame.
GetData ==
    /\ phase = "get" /\ msg_queue # <<>>
    /\ netdata' = Head(msg_queue) /\ netdataIdx' = 0
    /\ msg_queue' = Tail(msg_queue)
    /\ phase' = "copy"
    /\ UNCHANGED <<multi, sent, frame, firstHeaderIndexSet, currentFrameNumber,
                   linked, unplugs, wire>>

Lesser(a, b) == IF a <= b THEN a ELSE b

\* One copy, into the frame f, of the unit nd whose first idx octets are done: how many
\* octets it takes, which is what is left, or what there is room for.
CopyLen(f, nd, idx) == Lesser(Len(nd) - idx, DataFieldLen - Len(f.data))

\* Mutant: a frame that holds only the middle of a packet is not marked.
HeaderPointerUnmarked(f, nd, idx, set) ==
    IF idx = 0 /\ ~set THEN Len(f.data) ELSE f.fhp

\* The First Header Pointer after that copy, and whether it is settled.
HeaderPointer(f, nd, idx, set) ==
    IF idx > 0 /\ CopyLen(f, nd, idx) = DataFieldLen THEN NoPacketStart
    ELSE IF idx = 0 /\ ~set THEN Len(f.data)
    ELSE f.fhp
HeaderSet(idx, set) == set \/ idx = 0

Copied(f, nd, idx, set) ==
    [num  |-> f.num,
     fhp  |-> HeaderPointer(f, nd, idx, set),
     data |-> f.data \o SubSeq(nd, idx + 1, idx + CopyLen(f, nd, idx)),
     ok   |-> f.ok]

\* Mutant: the number is used up although the frame is dropped.
SendCountsAnyway(f) ==
    /\ currentFrameNumber' = IncFrameNumber(currentFrameNumber)
    /\ IF linked THEN Len(wire) < WireMax /\ wire' = Append(wire, f) ELSE UNCHANGED wire

\* _send(): without an output the frame is dropped and its number is used again.
Send(f) ==
    IF linked
    THEN /\ Len(wire) < WireMax
         /\ wire' = Append(wire, f)
         /\ currentFrameNumber' = IncFrameNumber(currentFrameNumber)
    ELSE UNCHANGED <<wire, currentFrameNumber>>

\* One pass through the loop of _processData(): into the frame at hand, or a new one.
CopyInto(f, set) ==
    LET g    == Copied(f, netdata, netdataIdx, set)
        next == netdataIdx + CopyLen(f, netdata, netdataIdx)
        full == Len(g.data) = DataFieldLen
        done == next = Len(netdata)
    IN  /\ IF full THEN Send(g) ELSE UNCHANGED <<wire, currentFrameNumber>>
        /\ frame' = IF full THEN NoFrame ELSE g
        /\ firstHeaderIndexSet' = HeaderSet(netdataIdx, set)
        /\ netdata' = IF done THEN <<>> ELSE netdata
        /\ netdataIdx' = IF done THEN 0 ELSE next
        /\ phase' = IF ~done THEN "copy" ELSE IF full THEN "get" ELSE "last"

Copy ==
    /\ phase = "copy"
    /\ IF frame = NoFrame THEN CopyInto(NewFrame(currentFrameNumber), FALSE)
                          ELSE CopyInto(frame, firstHeaderIndexSet)
    /\ UNCHANGED <<multi, msg_queue, sent, linked, unplugs>>

\* peek_dequeue_head() found more traffic: the frame is left unfilled.
Wait ==
    /\ phase = "last" /\ multi /\ msg_queue # <<>>
    /\ phase' = "get"
    /\ UNCHANGED <<multi, msg_queue, sent, netdata, netdataIdx, frame, firstHeaderIndexSet,
                   currentFrameNumber, linked, unplugs, wire>>

\* What fills emptyLen octets: a Data Field under 14 octets has no room for an idle packet
\* of at least 7 octets whatever is in it, and takes the bare fill pattern.
Fill(emptyLen) ==
    IF DataFieldLen < 14 THEN RawFill(emptyLen)
    ELSE IdlePacket(IF emptyLen > 7 THEN emptyLen ELSE 7)

\* Mutant: with several packets to a frame, the last frame waits for one more for ever.
TopUpNever ==
    /\ phase = "last" /\ ~multi
    /\ netdata' = Fill(DataFieldLen - Len(frame.data)) /\ netdataIdx' = 0
    /\ phase' = "copy"
    /\ UNCHANGED <<multi, msg_queue, sent, frame, firstHeaderIndexSet, currentFrameNumber,
                   linked, unplugs, wire>>

\* One packet to a frame, or nothing came in time: _processData(fill).
TopUp ==
    /\ phase = "last" /\ (multi => msg_queue = <<>>)
    /\ netdata' = Fill(DataFieldLen - Len(frame.data)) /\ netdataIdx' = 0
    /\ phase' = "copy"
    /\ UNCHANGED <<multi, msg_queue, sent, frame, firstHeaderIndexSet, currentFrameNumber,
                   linked, unplugs, wire>>

\* The operator disconnects the output, or connects it again.
SetLink ==
    /\ linked => unplugs < MaxUnplugs
    /\ linked' = ~linked
    /\ unplugs' = IF linked THEN unplugs + 1 ELSE unplugs
    /\ UNCHANGED <<multi, msg_queue, sent, phase, netdata, netdataIdx, frame,
                   firstHeaderIndexSet, currentFrameNumber, wire>>

GenStep == GetData \/ Copy \/ Wait \/ TopUp
GenNext == Arrive \/ GenStep \/ SetLink

GenSpec == GenInit /\ [][GenNext]_genvars

-----------------------------------------------------------------------------
\* Every frame that leaves is full and its First Header Pointer points at the first packet
\* that starts in it, whatever was left over from earlier packets and whatever fill ended
\* the frame (TM_Transfer_Frame.hpp:261-279).
HeaderPointerRight == \A i \in DOMAIN wire :
    wire[i].fhp # OnlyIdleData =>
        Len(wire[i].data) = DataFieldLen /\ PointsAtFirstStart(wire[i])

\* The frame counts on the wire are one sequential count modulo MaxVCFrameCount + 1: the
\* number a frame was given when it was begun, however long it then waited for packets
\* and whatever was dropped meanwhile, is the next one when it leaves
\* (TM_Transfer_Frame.hpp:180-183).
CountsSequential ==
    /\ \A i \in 1..Len(wire) - 1 : wire[i + 1].num = IncFrameNumber(wire[i].num)
    /\ wire # <<>> => currentFrameNumber = IncFrameNumber(wire[Len(wire)].num)
    /\ frame # NoFrame => frame.num = currentFrameNumber
=============================================================================
