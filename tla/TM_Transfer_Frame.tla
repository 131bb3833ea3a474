------------------------- MODULE TM_Transfer_Frame -------------------------
(***************************************************************************)
(* The data that a TM virtual channel carries: packets, the octets they    *)
(* are cut into, and the transfer frames the octets travel in.  An octet   *)
(* is the pair of a packet and a position in it, so a frame says exactly   *)
(* whose octets it holds; what an octet says is left out except where the  *)
(* code reads it (the version number, the length, the start of a packet).  *)
(***************************************************************************)
EXTENDS Naturals, Sequences

CONSTANTS
    DataFieldLen,     \* octets in the Data Field of every frame of the channel
    MaxVCFrameCount   \* the largest frame count (255 in the code)

ASSUME FrameAssumption ==
    /\ DataFieldLen \in 1..2045
    /\ MaxVCFrameCount \in Nat \ {0}

pvnSpacePacket         == 0
pvnSCPS_NP             == 1
pvnUnknown             == 2   \* any of the version numbers 2 to 6
pvnEncapsulationPacket == 7
PVNs == {pvnSpacePacket, pvnSCPS_NP, pvnUnknown, pvnEncapsulationPacket}

\* A packet: its length in octets, and how many of them are needed to read it
\* (minBytesToDetermineLength).  id 0 is fill.
Packet == [id : Nat, pvn : PVNs, hdr : Nat \ {0}, len : Nat \ {0}]
Octet  == [pkt : Packet, k : Nat]

OctetsOf(p) == [i \in 1..p.len |-> [pkt |-> p, k |-> i - 1]]

\* The 0xE0 octet of the default fill pattern is an Encapsulation Packet of one octet.
FillPacket == [id |-> 0, pvn |-> pvnEncapsulationPacket, hdr |-> 1, len |-> 1]
\* NetworkData::setDataToPattern(): n octets of fill.
RawFill(n) == [i \in 1..n |-> [pkt |-> FillPacket, k |-> 0]]
\* SpacePacket::makeIdle(): an idle packet of n octets.
IdlePacket(n) == OctetsOf([id |-> 0, pvn |-> pvnSpacePacket, hdr |-> 6, len |-> n])

\* The First Header Pointer is 11 bits wide; its two reserved values.
Pointer       == 0..2047
NoPacketStart == 2047
OnlyIdleData  == 2046

\* The parts of a transfer frame the service reads and writes: the Virtual Channel
\* Frame Count, the First Header Pointer, the octets of the Data Field so far, and
\* whether the header passes the receiver's checks.
Frame == [num : 0..MaxVCFrameCount, fhp : Pointer, data : Seq(Octet), ok : BOOLEAN]

\* initialize() clears the buffer, so the First Header Pointer starts as 0.
NewFrame(n) == [num |-> n, fhp |-> 0, data |-> <<>>, ok |-> TRUE]

\* The frames a multiplexer inserts when it has nothing to send.
IdleFrame == [num |-> 0, fhp |-> OnlyIdleData, data |-> RawFill(DataFieldLen), ok |-> TRUE]

\* incCurrentFrameNumber()
IncFrameNumber(n) == IF n = MaxVCFrameCount THEN 0 ELSE n + 1

\* The First Header Pointer is "the position of the first octet of the first Packet
\* that starts in the Transfer Frame Data Field", or 0x7ff when none starts there.
PointsAtFirstStart(f) ==
    IF f.fhp = NoPacketStart
    THEN \A i \in DOMAIN f.data : f.data[i].k # 0
    ELSE /\ f.fhp + 1 \in DOMAIN f.data
         /\ f.data[f.fhp + 1].k = 0
         /\ \A i \in 1..f.fhp : f.data[i].k # 0
=============================================================================
