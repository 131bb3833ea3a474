-------------------------- MODULE TM_VC_Rcv_Packet --------------------------
(***************************************************************************)
(* modTM_VC_Rcv_Packet: frames are checked and counted, and the packets in *)
(* their Data Fields put together again.  packet is the packet whose end   *)
(* has not been found; each pass of the loop of _assemblePacket() over a   *)
(* frame is one step.                                                      *)
(***************************************************************************)
EXTENDS TM_Transfer_Frame, Integers

CONSTANTS
    DropBadFrames,          \* setting dropBadFrames
    AllowPacketsAfterFill,  \* setting allowPacketsAfterFill
    OutputPVNs,             \* version numbers with an output link
    NoFrame,                \* the null frame pointer
    NoPacket                \* the null packet pointer

Fragment == [pvn : PVNs, octets : Seq(Octet), cut : Nat]

RcvAssumption ==
    /\ DropBadFrames \in BOOLEAN /\ AllowPacketsAfterFill \in BOOLEAN
    /\ OutputPVNs \subseteq PVNs
    /\ NoFrame \notin Frame /\ NoPacket \notin Fragment

VARIABLES
    wire,            \* frames on their way to the module
    multiDataField,  \* _multiDataField: several packets to a Data Field
    rcvFrameNumber,  \* _currentFrameNumber: the count expected next
    received,        \* the frame in _assemblePacket()
    headerPointer,   \* how far into its Data Field the loop is
    leadPVN,         \* what the top bits of its first octet say when no packet starts there
    packet,          \* the packet being assembled; cut is how many octets it was built from
    delivered,       \* the data units sent on
    aborted          \* an exception has left svc(), and ended the program

rcvvars == <<wire, multiDataField, rcvFrameNumber, received, headerPointer, leadPVN,
             packet, delivered, aborted>>

RcvTypeOK ==
    /\ wire \in Seq(Frame) /\ multiDataField \in BOOLEAN
    /\ rcvFrameNumber \in 0..MaxVCFrameCount
    /\ received \in Frame \cup {NoFrame}
    /\ headerPointer \in 0..DataFieldLen - 1 /\ leadPVN \in PVNs
    /\ packet \in Fragment \cup {NoPacket}
    /\ delivered \in Seq(Seq(Octet)) /\ aborted \in BOOLEAN

RcvInit ==
    /\ wire = <<>> /\ multiDataField \in BOOLEAN
    /\ rcvFrameNumber = 0 /\ received = NoFrame /\ headerPointer = 0
    /\ leadPVN = pvnSpacePacket
    /\ packet = NoPacket /\ delivered = <<>> /\ aborted = FALSE

-----------------------------------------------------------------------------
\* svc(): what is done with the frame at the head of the queue.
Rejected(f) == ~f.ok /\ DropBadFrames
Uncounted(f) == f.fhp = OnlyIdleData
Ignored(f) == Rejected(f) \/ Uncounted(f)

\* The count expected after a frame: it is set right if it was wrong, then advanced.
\* Mutant: set right, and not advanced.
CountStuck(f) == IF f.num # rcvFrameNumber THEN f.num ELSE IncFrameNumber(f.num)
CountAfter(f) == IncFrameNumber(f.num)

\* Mutant: only a count above the expected one is a gap, so a gap over the wrap is missed.
MiscountedAbove(f) == f.num > rcvFrameNumber

\* The frame does not continue where the last one ended.
Miscounted(f) == f.num # rcvFrameNumber

Ignore ==
    /\ received = NoFrame /\ wire # <<>> /\ Ignored(Head(wire))
    /\ wire' = Tail(wire)
    /\ UNCHANGED <<multiDataField, rcvFrameNumber, received, headerPointer, leadPVN,
                   packet, delivered, aborted>>

\* The count is set right, and the packet begun before a gap is given up.
Take ==
    /\ received = NoFrame /\ wire # <<>> /\ ~Ignored(Head(wire))
    /\ LET f == Head(wire) IN
       /\ wire' = Tail(wire)
       /\ received' = f /\ headerPointer' = 0
       /\ rcvFrameNumber' = CountAfter(f)
       /\ packet' = IF Miscounted(f) THEN NoPacket ELSE packet
       /\ leadPVN' \in IF f.data[1].k = 0 THEN {f.data[1].pkt.pvn} ELSE PVNs
       /\ UNCHANGED <<multiDataField, delivered, aborted>>

-----------------------------------------------------------------------------
\* SpacePacket(bufLen, frameBuf) stores bufLen - 7 in the length field (octets 4 and 5, a
\* 16-bit field: 65529 is -7 there) after it has copied the octets; those beyond the copy are
\* appended later.
StoredLength(p, cut) ==
    IF p.pvn # pvnSpacePacket \/ cut < 5 THEN p.len
    ELSE IF cut = 5 THEN 65287 + ((p.len - 7) % 256)
    ELSE ((cut + 65529) % 65536) + 7

\* Mutant: whatever ends where the next packet starts is taken to be complete.
LengthsAsFound(pkt) == {Len(pkt.octets)}

\* expectedLength(), from the header in the buffer; when the header is put together from
\* octets of two packets the length read is anything: the total at hand, or not.
ExpectedLengths(pkt) ==
    LET first == pkt.octets[1].pkt IN
    IF Len(pkt.octets) >= first.hdr /\ \A i \in 1..first.hdr : pkt.octets[i].pkt = first
    THEN {StoredLength(first, pkt.cut)}
    ELSE {Len(pkt.octets), Len(pkt.octets) + 1}

\* A complete packet goes to the output of its version number, or is dropped: an idle
\* Space Packet, or one whose version number has no output.
Deliver(pkt) ==
    delivered' = IF \/ pkt.octets[1].pkt.id = 0
                    \/ pkt.pvn \notin OutputPVNs
                 THEN delivered ELSE Append(delivered, pkt.octets)

\* Mutant: the loop does not stop at the end of the Data Field.
GoOnPastEnd(idx, more) ==
    IF more THEN headerPointer' = idx /\ UNCHANGED received
    ELSE headerPointer' = 0 /\ received' = NoFrame

\* The end of a pass: go on at idx if there may be more, else the frame is done with.
GoOn(idx, more) ==
    IF more /\ idx < Len(received.data)
    THEN headerPointer' = idx /\ UNCHANGED received
    ELSE headerPointer' = 0 /\ received' = NoFrame

\* hasAllParts() tests the head of the packet against NetworkData's own
\* minBytesToDetermineLength(), 4, whatever the packet's header needs.
minBytesToDetermineLength == 4
HasAllPartsThrows(n) == n < minBytesToDetermineLength

Abort ==
    /\ aborted' = TRUE
    /\ UNCHANGED <<wire, multiDataField, rcvFrameNumber, received, headerPointer, leadPVN,
                   packet, delivered>>

Rest(idx) == SubSeq(received.data, idx + 1, Len(received.data))

\* The version number that is looked at: of the packet at hand, or of the next octet.
CurrentPVN ==
    IF packet # NoPacket THEN packet.octets[1].pkt.pvn
    ELSE IF headerPointer = 0 THEN leadPVN
    ELSE received.data[headerPointer + 1].pkt.pvn

\* Mutant: only a frame without any start is taken to begin in the middle of a packet.
ContinuedWhole == headerPointer = 0 /\ received.fhp = NoPacketStart

\* The Data Field begins with octets of a packet whose start was not seen.
Continued == headerPointer = 0 /\ received.fhp > 0
Supported == CurrentPVN \in {pvnSpacePacket, pvnEncapsulationPacket}

\* A packet, or fill, is taken to start at headerPointer.
AtStart == received # NoFrame /\ Supported /\ packet = NoPacket /\ ~Continued

assemblevars == <<wire, multiDataField, rcvFrameNumber, leadPVN, aborted>>

\* An SCPS-NP packet or an unknown version number: the rest of the frame is discarded.
Discard ==
    /\ received # NoFrame /\ ~Supported
    /\ GoOn(0, FALSE)
    /\ UNCHANGED <<packet, delivered, assemblevars>>

\* _startNew...Pkt(): a chunk with nothing to append it to is passed over.
Skip ==
    /\ received # NoFrame /\ Supported /\ packet = NoPacket /\ Continued
    /\ GoOn(IF received.fhp = NoPacketStart THEN 0 ELSE received.fhp, multiDataField)
    /\ UNCHANGED <<packet, delivered, assemblevars>>

\* _startNewEncap(): an octet of fill.
PassFill ==
    /\ AtStart
    /\ CurrentPVN = pvnEncapsulationPacket /\ received.data[headerPointer + 1].pkt.hdr = 1
    /\ GoOn(headerPointer + 1, AllowPacketsAfterFill /\ multiDataField)
    /\ UNCHANGED <<packet, delivered, assemblevars>>

\* _startNewSpacePkt(), _startNewEncap(): the packet that starts at headerPointer.  If its
\* length cannot be read yet what is left is kept; otherwise as much as it needs is taken.
Start ==
    /\ AtStart
    /\ LET left == Rest(headerPointer)
           min  == left[1].pkt.hdr
           cut  == IF min > Len(left) THEN Len(left) ELSE min
           new(n) == [pvn |-> CurrentPVN, octets |-> SubSeq(left, 1, n), cut |-> cut]
           want == StoredLength(left[1].pkt, cut)
           take == IF want >= Len(left) THEN Len(left) ELSE want
       IN  /\ ~(CurrentPVN = pvnEncapsulationPacket /\ min = 1)
           /\ \/ /\ min > Len(left)
                 /\ packet' = new(Len(left))
                 /\ GoOn(headerPointer, FALSE)
                 /\ UNCHANGED <<delivered, assemblevars>>
              \/ min <= Len(left) /\ HasAllPartsThrows(take) /\ Abort
              \/ /\ min <= Len(left) /\ ~HasAllPartsThrows(take)
                 /\ IF take = want THEN packet' = NoPacket /\ Deliver(new(take))
                                   ELSE packet' = new(take) /\ UNCHANGED delivered
                 /\ GoOn(headerPointer + take, multiDataField)
                 /\ UNCHANGED assemblevars

\* _continueSpacePkt(), _continueEncap(): the Data Field begins with more of the packet.
Continue ==
    /\ received # NoFrame /\ Supported /\ packet # NoPacket /\ Continued
    /\ LET foundTail == received.fhp # NoPacketStart
           dataLen   == IF foundTail THEN received.fhp ELSE Len(received.data)
           more      == [packet EXCEPT !.octets = @ \o SubSeq(received.data, 1, dataLen)]
           total     == Len(more.octets)
       IN  \/ HasAllPartsThrows(total) /\ Abort
           \/ /\ ~HasAllPartsThrows(total) /\ UNCHANGED assemblevars
              /\ \E expected \in ExpectedLengths(more) :
                 \/ /\ total = expected
                    /\ packet' = NoPacket /\ Deliver(more) /\ GoOn(dataLen, multiDataField)
                 \/ /\ total # expected /\ foundTail
                    /\ packet' = NoPacket /\ GoOn(dataLen, multiDataField)
                    /\ UNCHANGED delivered
                 \/ /\ total > expected /\ ~foundTail
                    /\ packet' = NoPacket /\ GoOn(dataLen, FALSE) /\ UNCHANGED delivered
                 \/ /\ total < expected /\ ~foundTail
                    /\ packet' = more /\ GoOn(dataLen, multiDataField) /\ UNCHANGED delivered

\* The packet's tail never came: the head is dropped, and the loop starts over.
LostTail ==
    /\ received # NoFrame /\ Supported /\ packet # NoPacket /\ ~Continued
    /\ packet' = NoPacket
    /\ GoOn(headerPointer, TRUE)
    /\ UNCHANGED <<delivered, assemblevars>>

Assemble == Discard \/ Skip \/ PassFill \/ Start \/ Continue \/ LostTail
=============================================================================
