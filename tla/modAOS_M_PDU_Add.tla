-------------------------- MODULE modAOS_M_PDU_Add --------------------------
(***************************************************************************)
(* modAOS_M_PDU_Add: packets from the message queue are laid end to end    *)
(* into the Packet Zones of M_PDUs.  The length of an M_PDU may be changed *)
(* by a management call at any time: what a zone holds is settled when a   *)
(* packet is taken up, how large an M_PDU is when it is allocated.         *)
(* Packets and octets are those of TM_Transfer_Frame; lengths are those of *)
(* the Packet Zone, the two octets of the M_PDU header left out.           *)
(***************************************************************************)
EXTENDS TM_Transfer_Frame

CONSTANTS
    Shapes,       \* the packets a source may send, apart from their identity
    MaxPackets,   \* bound: packets sent
    Lengths,      \* the lengths an M_PDU may be given
    MaxSizings,   \* bound: times the length is changed
    QueueMax,     \* bound: M_PDUs waiting for the next handler
    NoPdu         \* the null M_PDU pointer

\* An M_PDU: its size, its First Header Index, and the octets of the zone written so far.
Pdu == [cap : Lengths, fhi : Pointer, data : Seq(Octet)]

ASSUME AddAssumption ==
    /\ Shapes \subseteq [hdr : Nat \ {0}, len : Nat \ {0}]
    /\ MaxPackets \in Nat /\ MaxSizings \in Nat /\ QueueMax \in Nat \ {0}
    /\ Lengths \subseteq 1..DataFieldLen /\ Lengths # {}
    /\ NoPdu \notin Pdu

VARIABLES
    multi,                \* _multiPacketZone: several packets to a zone
    immediate,            \* _sendImmediately: each M_PDU as it is done, or all together
    length,               \* _mpduLength
    sizings,              \* how often it was changed
    msg_queue,            \* packets waiting, as their octets
    sent,                 \* the packets handed to the module so far
    phase,                \* where svc() is: "get", "copy" (the loop), "last", "send"
    zone,                 \* packet_zone_len
    netdata, netdataIdx,  \* the data unit being copied, how much of it is done
    mpdu,                 \* the M_PDU being filled; between calls _unfilled_mpdu
    firstHeaderIndexSet,
    mpdu_list,            \* M_PDUs kept to be sent together
    mpdus,                \* M_PDUs sent, waiting for the next handler
    thrown                \* an exception has left svc(), and ended the program

addvars == <<multi, immediate, length, sizings, msg_queue, sent, phase, zone, netdata,
             netdataIdx, mpdu, firstHeaderIndexSet, mpdu_list, mpdus, thrown>>

AddTypeOK ==
    /\ multi \in BOOLEAN /\ immediate \in BOOLEAN /\ firstHeaderIndexSet \in BOOLEAN
    /\ length \in Lengths /\ zone \in Lengths /\ sizings \in 0..MaxSizings
    /\ msg_queue \in Seq(Seq(Octet)) /\ sent \in Seq(Packet)
    /\ phase \in {"get", "copy", "last", "send"}
    /\ netdata \in Seq(Octet) /\ netdataIdx \in Nat
    /\ mpdu \in Pdu \cup {NoPdu}
    /\ mpdu_list \in Seq(Pdu) /\ mpdus \in Seq(Pdu)
    /\ thrown \in BOOLEAN

AddInit ==
    /\ multi \in BOOLEAN /\ immediate \in BOOLEAN
    /\ length \in Lengths /\ zone = length /\ sizings = 0
    /\ msg_queue = <<>> /\ sent = <<>> /\ phase = "get"
    /\ netdata = <<>> /\ netdataIdx = 0
    /\ mpdu = NoPdu /\ firstHeaderIndexSet = FALSE
    /\ mpdu_list = <<>> /\ mpdus = <<>> /\ thrown = FALSE

settings == <<multi, immediate>>

\* A source's link puts a packet into the queue.
Arrive == \E s \in Shapes :
    /\ Len(sent) < MaxPackets
    /\ LET p == [id |-> Len(sent) + 1, pvn |-> pvnEncapsulationPacket,
                 hdr |-> s.hdr, len |-> s.len]
       IN  sent' = Append(sent, p) /\ msg_queue' = Append(msg_queue, OctetsOf(p))
    /\ UNCHANGED <<settings, length, sizings, phase, zone, netdata, netdataIdx, mpdu,
                   firstHeaderIndexSet, mpdu_list, mpdus, thrown>>

\* set_M_PDU_Length(), or the MRU of the output asked for again after 11 units.
SetLength == \E n \in Lengths \ {length} :
    /\ sizings < MaxSizings
    /\ length' = n /\ sizings' = sizings + 1
    /\ UNCHANGED <<settings, msg_queue, sent, phase, zone, netdata, netdataIdx, mpdu,
                   firstHeaderIndexSet, mpdu_list, mpdus, thrown>>

\* svc(): getData_(), and the entry of _processData(), which goes on with an unfilled M_PDU.
GetData ==
    /\ phase = "get" /\ msg_queue # <<>>
    /\ netdata' = Head(msg_queue) /\ netdataIdx' = 0
    /\ msg_queue' = Tail(msg_queue)
    /\ zone' = length /\ phase' = "copy"
    /\ UNCHANGED <<settings, length, sizings, sent, mpdu, firstHeaderIndexSet, mpdu_list,
                   mpdus, thrown>>

\* Octets of the buffer nobody has written: fill, a header without a length, the start of a
\* packet of some length.
Unwritten == {FillPacket} \cup
    {[id |-> 0, pvn |-> pvnEncapsulationPacket, hdr |-> h, len |-> DataFieldLen] : h \in {1, 4}}

\* _send(): the M_PDU leaves with whatever its buffer holds.
Send(g) ==
    /\ Len(mpdus) < QueueMax
    /\ \E u \in IF Len(g.data) < g.cap THEN Unwritten ELSE {FillPacket} :
          mpdus' = Append(mpdus, [g EXCEPT !.data =
                       @ \o [i \in 1..g.cap - Len(g.data) |-> [pkt |-> u, k |-> 0]]])

SendOrKeep(g) ==
    IF immediate THEN Send(g) /\ UNCHANGED mpdu_list
                 ELSE mpdu_list' = Append(mpdu_list, g) /\ UNCHANGED mpdus

\* How many octets the next copy takes: a zone that is already too full has, to unsigned
\* arithmetic, more room than any packet needs.
CopyLen(g) ==
    LET left == Len(netdata) - netdataIdx
        room == zone - Len(g.data)
    IN  IF Len(g.data) > zone \/ left <= room THEN left ELSE room

\* Mutant: the start of every packet sets the index, not only that of the first one.
FirstHeaderIndexLast(g, set) ==
    IF netdataIdx > 0 /\ CopyLen(g) = zone THEN NoPacketStart
    ELSE IF netdataIdx = 0 THEN Len(g.data)
    ELSE g.fhi

\* The First Header Index after that copy.
FirstHeaderIndex(g, set) ==
    IF netdataIdx > 0 /\ CopyLen(g) = zone THEN NoPacketStart
    ELSE IF netdataIdx = 0 /\ ~set THEN Len(g.data)
    ELSE g.fhi

\* The M_PDU is too small for what is copied: both are dropped, with those kept for later.
CopyOverflows ==
    /\ phase' = "get" /\ netdata' = <<>> /\ netdataIdx' = 0
    /\ mpdu' = NoPdu /\ mpdu_list' = <<>>
    /\ UNCHANGED <<mpdus, thrown>>

\* One pass through the loop of _processData().
CopyInto(g, set) ==
    LET n    == CopyLen(g)
        h    == [g EXCEPT !.fhi = FirstHeaderIndex(g, set),
                          !.data = @ \o SubSeq(netdata, netdataIdx + 1, netdataIdx + n)]
        full == Len(h.data) = zone
        done == netdataIdx + n = Len(netdata)
    IN  \/ Len(g.data) + n > g.cap /\ CopyOverflows /\ firstHeaderIndexSet' = set
        \/ /\ Len(h.data) <= g.cap /\ Len(h.data) > zone
           /\ thrown' = TRUE  \* LogicError("mpdu_idx > packet_zone_len")
           /\ UNCHANGED <<phase, netdata, netdataIdx, mpdu, firstHeaderIndexSet, mpdu_list,
                          mpdus>>
        \/ /\ Len(h.data) <= g.cap /\ Len(h.data) <= zone
           /\ IF full THEN SendOrKeep(h) ELSE UNCHANGED <<mpdus, mpdu_list>>
           /\ mpdu' = IF full THEN NoPdu ELSE h
           /\ firstHeaderIndexSet' = (set \/ netdataIdx = 0)
           /\ netdata' = IF done THEN <<>> ELSE netdata
           /\ netdataIdx' = IF done THEN 0 ELSE netdataIdx + n
           /\ phase' = IF ~done THEN "copy" ELSE IF full THEN "send" ELSE "last"
           /\ UNCHANGED thrown

Copy ==
    /\ phase = "copy"
    /\ IF mpdu = NoPdu THEN CopyInto([cap |-> length, fhi |-> 0, data |-> <<>>], FALSE)
                       ELSE CopyInto(mpdu, firstHeaderIndexSet)
    /\ UNCHANGED <<settings, length, sizings, msg_queue, sent, zone>>

\* peek_dequeue_head() found more traffic: the M_PDU is left unfilled.
Wait ==
    /\ phase = "last" /\ multi /\ immediate /\ msg_queue # <<>>
    /\ phase' = "get"
    /\ UNCHANGED <<settings, length, sizings, msg_queue, sent, zone, netdata, netdataIdx,
                   mpdu, firstHeaderIndexSet, mpdu_list, mpdus, thrown>>

\* addFill(), and the index of the first octet of fill if nothing else starts in the zone.
Filled(g) ==
    [g EXCEPT !.data = @ \o RawFill(g.cap - Len(g.data)),
              !.fhi  = IF firstHeaderIndexSet THEN @ ELSE Len(g.data)]

\* Mutant: with several packets to a zone the last M_PDU waits for one more for ever.
TopUpNever ==
    /\ phase = "last" /\ ~(multi /\ immediate)
    /\ SendOrKeep(Filled(mpdu))
    /\ mpdu' = NoPdu /\ firstHeaderIndexSet' = FALSE /\ phase' = "send"
    /\ UNCHANGED <<settings, length, sizings, msg_queue, sent, zone, netdata, netdataIdx,
                   thrown>>

\* One packet to a zone, M_PDUs sent together, or nothing came in time.
TopUp ==
    /\ phase = "last" /\ (multi /\ immediate => msg_queue = <<>>)
    /\ SendOrKeep(Filled(mpdu))
    /\ mpdu' = NoPdu /\ firstHeaderIndexSet' = FALSE /\ phase' = "send"
    /\ UNCHANGED <<settings, length, sizings, msg_queue, sent, zone, netdata, netdataIdx,
                   thrown>>

\* svc(): the list _processData() returned, if the M_PDUs are sent together.
SendList ==
    /\ phase = "send"
    /\ IF mpdu_list = <<>> THEN phase' = "get" /\ UNCHANGED <<mpdu_list, mpdus>>
       ELSE Send(Head(mpdu_list)) /\ mpdu_list' = Tail(mpdu_list) /\ UNCHANGED phase
    /\ UNCHANGED <<settings, length, sizings, msg_queue, sent, zone, netdata, netdataIdx,
                   mpdu, firstHeaderIndexSet, thrown>>

AddStep == ~thrown /\ (GetData \/ Copy \/ Wait \/ TopUp \/ SendList)
AddNext == AddStep \/ (~thrown /\ (Arrive \/ SetLength))
=============================================================================
