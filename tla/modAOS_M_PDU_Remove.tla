------------------------- MODULE modAOS_M_PDU_Remove -------------------------
(***************************************************************************)
(* modAOS_M_PDU_Remove: Encapsulation Packets are put together again from  *)
(* the Packet Zones of M_PDUs.  encap is the packet whose end has not been *)
(* found; each pass of the loop of _assemble_encap() is one step.  Unlike  *)
(* the TM service the module sees no frame counts: a lost M_PDU shows only *)
(* in lengths that do not match.                                           *)
(***************************************************************************)
EXTENDS TM_Transfer_Frame

CONSTANTS
    AllowPacketsAfterFill,  \* setting allowPacketsAfterFill
    NoPdu,                  \* the null M_PDU pointer
    NoPacket                \* the null packet pointer

VARIABLES
    units,      \* M_PDUs on their way to the module
    multi,      \* _multiPacketZone: several packets to a zone
    m_pdu,      \* the M_PDU in _assemble_encap()
    idx,        \* how far into its zone the loop is
    encap,      \* the octets of the packet being assembled
    delivered,  \* the packets sent on
    aborted     \* an exception has left svc(), and ended the program

removevars == <<units, multi, m_pdu, idx, encap, delivered, aborted>>

RemoveInit == /\ units = <<>> /\ m_pdu = NoPdu /\ idx = 0
              /\ encap = NoPacket /\ delivered = <<>> /\ aborted = FALSE

\* svc(): an M_PDU with nothing but idle data is done with at once.
Take ==
    /\ m_pdu = NoPdu /\ units # <<>>
    /\ m_pdu' = IF Head(units).fhi = OnlyIdleData THEN NoPdu ELSE Head(units)
    /\ idx' = 0 /\ units' = Tail(units)
    /\ UNCHANGED <<multi, encap, delivered, aborted>>

\* Mutant: the loop does not stop at the end of the zone.
GoOnPastEnd(i, more) ==
    IF more THEN idx' = i /\ UNCHANGED m_pdu ELSE idx' = 0 /\ m_pdu' = NoPdu

\* The end of a pass: go on at i if there may be more, else the M_PDU is done with.
GoOn(i, more) ==
    IF more /\ i < Len(m_pdu.data)
    THEN idx' = i /\ UNCHANGED m_pdu
    ELSE idx' = 0 /\ m_pdu' = NoPdu

\* The zone begins with the middle or the end of a packet.
Continued == idx = 0 /\ m_pdu.fhi > 0

\* NetworkData::hasAllParts() tests the head of the packet against NetworkData's own
\* minBytesToDetermineLength(), 4, whatever the packet's header needs.
HasAllPartsThrows(n) == n < 4

Abort == aborted' = TRUE /\ UNCHANGED <<units, multi, m_pdu, idx, encap, delivered>>

assemblevars == <<units, multi, aborted>>

\* "Continued data in M_PDU with nothing to append to! Ignoring."
Skip ==
    /\ m_pdu # NoPdu /\ encap = NoPacket /\ Continued
    /\ GoOn(m_pdu.fhi, m_pdu.fhi # NoPacketStart)
    /\ UNCHANGED <<encap, delivered, assemblevars>>

AtStart == m_pdu # NoPdu /\ encap = NoPacket /\ ~Continued
First == m_pdu.data[idx + 1].pkt

\* An octet of fill.
PassFill ==
    /\ AtStart /\ First = FillPacket
    /\ GoOn(idx + 1, AllowPacketsAfterFill /\ multi)
    /\ UNCHANGED <<encap, delivered, assemblevars>>

\* A packet starts at idx: if its header is not all there what is left is kept, otherwise
\* as much as it needs is taken.
Start ==
    /\ AtStart /\ First # FillPacket
    /\ LET left == SubSeq(m_pdu.data, idx + 1, Len(m_pdu.data))
           take == IF First.len > Len(left) THEN Len(left) ELSE First.len
       IN  \/ First.hdr = 1 /\ Abort  \* getPacketLength() throws MissingField
           \/ /\ First.hdr # 1 /\ First.hdr > Len(left)
              /\ encap' = left /\ GoOn(idx, FALSE)
              /\ UNCHANGED <<delivered, assemblevars>>
           \/ First.hdr # 1 /\ First.hdr <= Len(left) /\ HasAllPartsThrows(take) /\ Abort
           \/ /\ First.hdr # 1 /\ First.hdr <= Len(left) /\ ~HasAllPartsThrows(take)
              /\ IF take = First.len
                 THEN /\ encap' = NoPacket
                      /\ delivered' = Append(delivered, SubSeq(left, 1, take))
                      /\ GoOn(idx + take, multi)
                 ELSE /\ encap' = SubSeq(left, 1, take)
                      /\ GoOn(idx + take, TRUE) /\ UNCHANGED delivered
              /\ UNCHANGED assemblevars

\* Mutant: whatever ends where the next packet starts is taken to be complete.
LengthsAsFound(pkt) == {Len(pkt)}

\* expectedLength(), from the header in the buffer; when what is in the place of the header
\* is not all header the length read is anything: the total at hand, or not.
ExpectedLengths(pkt) ==
    LET first == pkt[1].pkt IN
    IF Len(pkt) >= first.hdr /\ \A i \in 1..first.hdr : pkt[i] = [pkt |-> first, k |-> i - 1]
    THEN {first.len}
    ELSE {Len(pkt), Len(pkt) + 1}

\* "Found the end, but there's a length mismatch", or "Did NOT find the end, but the packet
\* is already too long": the bad packet is dropped.
GivenUp(total, expected, foundTail) == foundTail \/ total > expected

\* The zone begins with more of the packet.
Continue ==
    /\ m_pdu # NoPdu /\ encap # NoPacket /\ Continued
    /\ LET foundTail == m_pdu.fhi # NoPacketStart
           dataLen   == IF foundTail THEN m_pdu.fhi ELSE Len(m_pdu.data)
           more      == encap \o SubSeq(m_pdu.data, 1, dataLen)
           total     == Len(more)
       IN  \/ HasAllPartsThrows(total) /\ Abort
           \/ /\ ~HasAllPartsThrows(total) /\ UNCHANGED assemblevars
              /\ \E expected \in ExpectedLengths(more) :
                 IF total = expected
                 THEN /\ encap' = NoPacket /\ delivered' = Append(delivered, more)
                      /\ GoOn(dataLen, multi)
                 ELSE /\ encap' = IF GivenUp(total, expected, foundTail) THEN NoPacket
                                  ELSE more
                      /\ GoOn(dataLen, TRUE) /\ UNCHANGED delivered

\* "Lost the end of the packet! Dropping.": the loop starts over.
LostEnd ==
    /\ m_pdu # NoPdu /\ encap # NoPacket /\ ~Continued
    /\ encap' = NoPacket /\ GoOn(idx, TRUE)
    /\ UNCHANGED <<delivered, assemblevars>>

Remove == ~aborted /\ (Take \/ Skip \/ PassFill \/ Start \/ Continue \/ LostEnd)
=============================================================================
