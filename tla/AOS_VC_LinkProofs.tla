------------------------- MODULE AOS_VC_LinkProofs -------------------------
(***************************************************************************)
(* Proofs about the packet service over an AOS virtual channel, for every  *)
(* length of M_PDU and of packet, every frame count modulus, any number of *)
(* packets and whatever the channel does to the frames.                    *)
(***************************************************************************)
EXTENDS AOS_VC_Link, TLAPS

\* An M_PDU being filled, or filled: it keeps to its size, and its index to its octets.
Formed(g) == /\ g \in Pdu /\ Len(g.data) <= g.cap
             /\ g.fhi = NoPacketStart \/ g.fhi <= Len(g.data)
\* One that was sent holds as many octets as its size says.
Complete(g) == Formed(g) /\ Len(g.data) = g.cap

\* The sender keeps to its types, and its place in the packet to the packet's octets.
AddTypes ==
    /\ AddTypeOK
    /\ netdataIdx <= Len(netdata)
    /\ mpdu # NoPdu => Formed(mpdu) /\ Len(mpdu.data) < DataFieldLen
    /\ phase = "last" => mpdu # NoPdu
    /\ \A i \in 1..Len(mpdu_list) : Formed(mpdu_list[i])
    /\ \A i \in 1..Len(mpdus) : Complete(mpdus[i])

\* So does the rest of the link.
LinkTypes ==
    /\ frameSize \in Lengths /\ dropBadFrames \in BOOLEAN
    /\ {sndFrameCount, rcvFrameCount} \subseteq 0..MaxVCFrameCount
    /\ frameCountMisses \in Nat
    /\ wire \in Seq(TF) /\ units \in Seq(Pdu)
    /\ \A i \in 1..Len(wire) : ~wire[i].idle => Complete(wire[i].pdu)
    /\ \A i \in 1..Len(units) : Complete(units[i])
    /\ hits \in 0..MaxHits
    /\ missing \in Nat /\ gaps \in Nat /\ hurt \subseteq Nat

\* And the receiver: its place is in the M_PDU at hand.
RemoveTypes ==
    /\ m_pdu \in Pdu \cup {NoPdu} /\ idx \in 0..DataFieldLen - 1
    /\ encap \in Seq(Octet) \cup {NoPacket}
    /\ delivered \in Seq(Seq(Octet)) /\ aborted \in BOOLEAN
    /\ m_pdu # NoPdu => Complete(m_pdu) /\ idx < Len(m_pdu.data)

TypeInv == AddTypes /\ LinkTypes /\ RemoveTypes

-----------------------------------------------------------------------------
LEMMA Concat ==
    ASSUME NEW S, NEW a \in Seq(S), NEW c \in Seq(S)
    PROVE  /\ a \o c \in Seq(S) /\ Len(a \o c) = Len(a) + Len(c)
           /\ \A j \in 1..Len(a) : (a \o c)[j] = a[j]
           /\ \A j \in 1..Len(c) : (a \o c)[Len(a) + j] = c[j]
<1>1. a \o c \in Seq(S)
  BY SMT
<1>2. Len(a \o c) = Len(a) + Len(c)
  BY SMT
<1>3. \A j \in 1..Len(a) : (a \o c)[j] = a[j]
  BY SMT
<1>4. \A j \in 1..Len(c) : (a \o c)[Len(a) + j] = c[j]
  BY SMT
<1> QED
  BY <1>1, <1>2, <1>3, <1>4

LEMMA Part ==
    ASSUME NEW S, NEW b \in Seq(S), NEW i \in Nat, NEW n \in Nat, i + n <= Len(b)
    PROVE  /\ SubSeq(b, i + 1, i + n) \in Seq(S) /\ Len(SubSeq(b, i + 1, i + n)) = n
           /\ \A j \in 1..n : SubSeq(b, i + 1, i + n)[j] = b[i + j]
  BY SMT

LEMMA FunctionIsSeq ==
    ASSUME NEW S, NEW n \in Nat, NEW f \in [1..n -> S]
    PROVE  f \in Seq(S) /\ Len(f) = n
  BY SMT

\* The ends of a queue.
LEMMA QueueTail ==
    ASSUME NEW S, NEW q \in Seq(S), q # <<>>
    PROVE  /\ Head(q) \in S /\ Head(q) = q[1]
           /\ Tail(q) \in Seq(S) /\ Len(q) \in Nat \ {0} /\ Len(Tail(q)) = Len(q) - 1
           /\ \A i \in 1..Len(q) - 1 : Tail(q)[i] = q[i + 1]
  BY SMT

LEMMA QueueAppend ==
    ASSUME NEW S, NEW q \in Seq(S), NEW e \in S
    PROVE  /\ Append(q, e) \in Seq(S) /\ Len(Append(q, e)) = Len(q) + 1
           /\ \A i \in 1..Len(q) : Append(q, e)[i] = q[i]
           /\ Append(q, e)[Len(q) + 1] = e
  BY SMT

LEMMA PacketsAreOctets ==
    ASSUME NEW p \in Packet
    PROVE  OctetsOf(p) \in Seq(Octet) /\ Len(OctetsOf(p)) = p.len
<1>1. p.len \in Nat \ {0}
  BY DEF Packet
<1>2. \A i \in 1..p.len : [pkt |-> p, k |-> i - 1] \in Octet
  BY <1>1 DEF Octet
<1>3. OctetsOf(p) \in [1..p.len -> Octet]
  BY <1>2 DEF OctetsOf
<1> QED
  BY <1>1, <1>3, FunctionIsSeq

\* Octets that fill up an M_PDU: fill, or whatever its buffer holds.
LEMMA UnwrittenPackets ==
    ASSUME NEW u \in Unwritten \cup {FillPacket}
    PROVE  u \in Packet
<1>1. DataFieldLen \in Nat \ {0}
  BY FrameAssumption
<1> QED
  BY <1>1 DEF Unwritten, FillPacket, Packet, PVNs, pvnEncapsulationPacket

LEMMA Padding ==
    ASSUME NEW u \in Packet, NEW n \in Nat
    PROVE  /\ [i \in 1..n |-> [pkt |-> u, k |-> 0]] \in Seq(Octet)
           /\ Len([i \in 1..n |-> [pkt |-> u, k |-> 0]]) = n
<1>1. [pkt |-> u, k |-> 0] \in Octet
  BY DEF Octet
<1>2. [i \in 1..n |-> [pkt |-> u, k |-> 0]] \in [1..n -> Octet]
  BY <1>1
<1> QED
  BY <1>2, FunctionIsSeq

LEMMA LengthsSmall == \A n \in Lengths : n \in 1..DataFieldLen /\ n \in Nat
BY AddAssumption, FrameAssumption

LEMMA PduFields ==
    ASSUME NEW g \in Pdu
    PROVE  /\ g.cap \in Lengths /\ g.cap \in Nat /\ g.fhi \in Pointer /\ g.fhi \in Nat
           /\ g.data \in Seq(Octet) /\ Len(g.data) \in Nat
<1>1. g.cap \in Lengths /\ g.fhi \in Pointer /\ g.data \in Seq(Octet)
  BY DEF Pdu
<1>2. Len(g.data) \in Nat
  BY <1>1
<1>3. \A x \in Pointer : x \in Nat
  BY DEF Pointer
<1> QED
  BY <1>1, <1>2, <1>3, LengthsSmall

\* An M_PDU stays one when its index and its octets are replaced.
LEMMA PduExcept ==
    ASSUME NEW g \in Pdu, NEW x \in Pointer, NEW d \in Seq(Octet)
    PROVE  [g EXCEPT !.fhi = x, !.data = d] \in Pdu /\ [g EXCEPT !.data = d, !.fhi = x] \in Pdu
<1>1. [g EXCEPT !.fhi = x, !.data = d] \in Pdu
  BY DEF Pdu
<1>2. [g EXCEPT !.data = d, !.fhi = x] \in Pdu
  BY DEF Pdu
<1> QED
  BY <1>1, <1>2

LEMMA LenInPointer ==
    ASSUME NEW r \in Nat, r <= DataFieldLen
    PROVE  r \in Pointer
BY FrameAssumption DEF Pointer

LEMMA FieldLen == DataFieldLen \in Nat \ {0}
BY FrameAssumption

\* _send() appends an M_PDU filled up to its size.
LEMMA SendAppends ==
    ASSUME NEW g, Formed(g), mpdus \in Seq(Pdu), Send(g)
    PROVE  \E e : Complete(e) /\ mpdus' = Append(mpdus, e) /\ e.fhi = g.fhi
<1>0. g \in Pdu /\ Len(g.data) <= g.cap
  BY DEF Formed
<1>1. PICK u \in IF Len(g.data) < g.cap THEN Unwritten ELSE {FillPacket} :
          mpdus' = Append(mpdus, [g EXCEPT !.data =
                       @ \o [i \in 1..g.cap - Len(g.data) |-> [pkt |-> u, k |-> 0]]])
  BY DEF Send
<1>2. u \in Packet
  BY <1>1, UnwrittenPackets
<1> DEFINE n == g.cap - Len(g.data)
           pad == [i \in 1..n |-> [pkt |-> u, k |-> 0]]
           e == [g EXCEPT !.data = @ \o pad]
<1>3. n \in Nat
  BY <1>0, PduFields
<1>4. pad \in Seq(Octet) /\ Len(pad) = n
  BY <1>2, <1>3, Padding
<1> HIDE DEF pad, n
<1>5. g.data \o pad \in Seq(Octet) /\ Len(g.data \o pad) = Len(g.data) + Len(pad)
  BY <1>0, <1>4, PduFields, Concat
<1>6. e.cap = g.cap /\ e.fhi = g.fhi /\ e.data = g.data \o pad
  BY <1>0 DEF Pdu
<1>7. e \in Pdu
  BY <1>0, <1>5 DEF Pdu
<1>8. Len(e.data) = e.cap
  BY <1>0, <1>3, <1>4, <1>5, <1>6, PduFields DEF n
<1> HIDE DEF e
<1>9. e.fhi = NoPacketStart \/ e.fhi <= Len(e.data)
  <2>1. g.cap \in Nat /\ g.fhi \in Nat /\ Len(g.data) \in Nat
    BY <1>0, PduFields
  <2>2. g.fhi = NoPacketStart \/ g.fhi <= Len(g.data)
    BY DEF Formed
  <2> QED
    BY <1>0, <1>6, <1>8, <2>1, <2>2
<1>10. Complete(e)
  <2>1. Len(e.data) \in Nat
    BY <1>7, PduFields
  <2> QED
    BY <1>6, <1>7, <1>8, <1>9, <2>1 DEF Complete, Formed
<1>11. mpdus' = Append(mpdus, e)
  BY <1>1 DEF e, pad, n
<1> QED
  BY <1>6, <1>10, <1>11
LEMMA ArriveTypes == AddTypes /\ Arrive => AddTypes'
<1> SUFFICES ASSUME AddTypes, Arrive PROVE AddTypes'
  OBVIOUS
<1>1. PICK s \in Shapes :
          LET p == [id |-> Len(sent) + 1, pvn |-> pvnEncapsulationPacket,
                    hdr |-> s.hdr, len |-> s.len]
          IN  sent' = Append(sent, p) /\ msg_queue' = Append(msg_queue, OctetsOf(p))
  BY DEF Arrive
<1> DEFINE p == [id |-> Len(sent) + 1, pvn |-> pvnEncapsulationPacket,
                 hdr |-> s.hdr, len |-> s.len]
<1>2. p \in Packet
  <2>1. s.hdr \in Nat \ {0} /\ s.len \in Nat \ {0}
    BY AddAssumption
  <2>2. Len(sent) \in Nat
    BY DEF AddTypes, AddTypeOK
  <2> QED
    BY <2>1, <2>2 DEF Packet, PVNs, pvnEncapsulationPacket
<1>3. OctetsOf(p) \in Seq(Octet)
  BY <1>2, PacketsAreOctets
<1> HIDE DEF p
<1>4. sent' = Append(sent, p) /\ msg_queue' = Append(msg_queue, OctetsOf(p))
  BY <1>1 DEF p
<1>5. sent' \in Seq(Packet) /\ msg_queue' \in Seq(Seq(Octet))
  <2>1. Append(sent, p) \in Seq(Packet)
    BY <1>2, QueueAppend DEF AddTypes, AddTypeOK
  <2>2. Append(msg_queue, OctetsOf(p)) \in Seq(Seq(Octet))
    BY <1>3, QueueAppend DEF AddTypes, AddTypeOK
  <2> QED
    BY <1>4, <2>1, <2>2
<1> QED
  BY <1>5 DEF Arrive, AddTypes, AddTypeOK, settings

LEMMA SetLengthTypes == AddTypes /\ SetLength => AddTypes'
<1> SUFFICES ASSUME AddTypes, SetLength PROVE AddTypes'
  OBVIOUS
<1>1. length' \in Lengths /\ sizings' \in 0..MaxSizings
  BY AddAssumption DEF SetLength, AddTypes, AddTypeOK
<1> QED
  BY <1>1 DEF SetLength, AddTypes, AddTypeOK, settings

LEMMA GetDataTypes == AddTypes /\ GetData => AddTypes'
<1> SUFFICES ASSUME AddTypes, GetData PROVE AddTypes'
  OBVIOUS
<1>1. Head(msg_queue) \in Seq(Octet) /\ Tail(msg_queue) \in Seq(Seq(Octet))
  BY QueueTail DEF GetData, AddTypes, AddTypeOK
<1>2. /\ netdata' \in Seq(Octet) /\ netdataIdx' = 0 /\ msg_queue' \in Seq(Seq(Octet))
      /\ zone' \in Lengths /\ phase' = "copy"
  BY <1>1 DEF GetData, AddTypes, AddTypeOK
<1>3. netdataIdx' <= Len(netdata')
  BY <1>2
<1> QED
  BY <1>2, <1>3 DEF GetData, AddTypes, AddTypeOK, settings

LEMMA WaitTypes == AddTypes /\ Wait => AddTypes'
BY DEF Wait, AddTypes, AddTypeOK, settings

\* What Send() and SendOrKeep() leave of the queues is complete, or at least formed.
QueuesFormed ==
    /\ mpdu_list \in Seq(Pdu) /\ mpdus \in Seq(Pdu)
    /\ \A i \in 1..Len(mpdu_list) : Formed(mpdu_list[i])
    /\ \A i \in 1..Len(mpdus) : Complete(mpdus[i])

LEMMA SendTypes ==
    ASSUME NEW g, Formed(g), QueuesFormed, Send(g)
    PROVE  mpdus' \in Seq(Pdu) /\ \A i \in 1..Len(mpdus') : Complete(mpdus'[i])
<1>1. PICK e : Complete(e) /\ mpdus' = Append(mpdus, e)
  BY SendAppends DEF QueuesFormed
<1>2. e \in Pdu
  BY <1>1 DEF Complete, Formed
<1>3. /\ Append(mpdus, e) \in Seq(Pdu) /\ Len(Append(mpdus, e)) = Len(mpdus) + 1
      /\ \A i \in 1..Len(mpdus) : Append(mpdus, e)[i] = mpdus[i]
      /\ Append(mpdus, e)[Len(mpdus) + 1] = e
  BY <1>2, QueueAppend DEF QueuesFormed
<1>4. Len(mpdus) \in Nat
  BY DEF QueuesFormed
<1> QED
  BY <1>1, <1>3, <1>4 DEF QueuesFormed

LEMMA SendOrKeepTypes ==
    ASSUME NEW g, Formed(g), QueuesFormed, SendOrKeep(g)
    PROVE  QueuesFormed'
<1>1. CASE immediate
  BY <1>1, SendTypes DEF SendOrKeep, QueuesFormed
<1>2. CASE ~immediate
  <2>1. g \in Pdu
    BY DEF Formed
  <2>2. /\ Append(mpdu_list, g) \in Seq(Pdu) /\ Len(Append(mpdu_list, g)) = Len(mpdu_list) + 1
        /\ \A i \in 1..Len(mpdu_list) : Append(mpdu_list, g)[i] = mpdu_list[i]
        /\ Append(mpdu_list, g)[Len(mpdu_list) + 1] = g
    BY <2>1, QueueAppend DEF QueuesFormed
  <2>3. Len(mpdu_list) \in Nat
    BY DEF QueuesFormed
  <2>4. mpdu_list' = Append(mpdu_list, g) /\ UNCHANGED mpdus
    BY <1>2 DEF SendOrKeep
  <2> QED
    BY <2>2, <2>3, <2>4 DEF QueuesFormed
<1> QED
  BY <1>1, <1>2

LEMMA AddTypesQueues == AddTypes => QueuesFormed
BY DEF AddTypes, AddTypeOK, QueuesFormed

LEMMA SendListTypes == AddTypes /\ SendList => AddTypes'
<1> SUFFICES ASSUME AddTypes, SendList PROVE AddTypes'
  OBVIOUS
<1>1. CASE mpdu_list = <<>>
  BY <1>1 DEF SendList, AddTypes, AddTypeOK, settings
<1>2. CASE mpdu_list # <<>>
  <2>1. /\ Head(mpdu_list) = mpdu_list[1] /\ Len(mpdu_list) \in Nat \ {0}
        /\ Tail(mpdu_list) \in Seq(Pdu) /\ Len(Tail(mpdu_list)) = Len(mpdu_list) - 1
        /\ \A i \in 1..Len(mpdu_list) - 1 : Tail(mpdu_list)[i] = mpdu_list[i + 1]
    BY <1>2, QueueTail DEF AddTypes, AddTypeOK
  <2>2. Formed(Head(mpdu_list))
    BY <2>1 DEF AddTypes
  <2>3. \A i \in 1..Len(Tail(mpdu_list)) : Formed(Tail(mpdu_list)[i])
    <3> TAKE i \in 1..Len(Tail(mpdu_list))
    <3>1. i + 1 \in 1..Len(mpdu_list) /\ Tail(mpdu_list)[i] = mpdu_list[i + 1]
      BY <2>1
    <3> QED
      BY <3>1 DEF AddTypes
  <2>4. mpdus' \in Seq(Pdu) /\ \A i \in 1..Len(mpdus') : Complete(mpdus'[i])
    BY <1>2, <2>2, AddTypesQueues, SendTypes DEF SendList
  <2>5. mpdu_list' = Tail(mpdu_list) /\ phase' = phase
    BY <1>2 DEF SendList
  <2> QED
    BY <2>1, <2>3, <2>4, <2>5 DEF SendList, AddTypes, AddTypeOK, settings
<1> QED
  BY <1>1, <1>2

\* A zone filled up is an M_PDU as it should be.
LEMMA FilledTypes ==
    ASSUME NEW g, Formed(g), Len(g.data) < DataFieldLen, firstHeaderIndexSet \in BOOLEAN
    PROVE  Formed(Filled(g)) /\ Len(Filled(g).data) = g.cap
<1>0. g \in Pdu /\ Len(g.data) <= g.cap
  BY DEF Formed
<1> DEFINE n == g.cap - Len(g.data)
<1>1. n \in Nat
  BY <1>0, PduFields
<1> HIDE DEF n
<1>2. FillPacket \in Packet
  BY UnwrittenPackets
<1>3. RawFill(n) \in Seq(Octet) /\ Len(RawFill(n)) = n
  BY <1>1, <1>2, Padding DEF RawFill
<1>4. /\ g.data \o RawFill(n) \in Seq(Octet)
      /\ Len(g.data \o RawFill(n)) = Len(g.data) + Len(RawFill(n))
  BY <1>0, <1>3, PduFields, Concat
<1>5. /\ Filled(g).cap = g.cap /\ Filled(g).data = g.data \o RawFill(n)
      /\ Filled(g).fhi = IF firstHeaderIndexSet THEN g.fhi ELSE Len(g.data)
  BY <1>0 DEF Filled, Pdu, n
<1>6. /\ Len(g.data) \in Nat /\ Len(g.data) \in Pointer
      /\ g.cap \in Nat /\ g.fhi \in Nat /\ g.fhi \in Pointer
  <2>1. Len(g.data) \in Nat /\ g.cap \in Nat /\ g.fhi \in Nat /\ g.fhi \in Pointer
    BY <1>0, PduFields
  <2>2. Len(g.data) \in Pointer
    BY <2>1, FieldLen, LenInPointer
  <2> QED
    BY <2>1, <2>2
<1>7. Filled(g) \in Pdu
  <2>1. Filled(g).fhi \in Pointer
    BY <1>5, <1>6
  <2>2. Filled(g) = [g EXCEPT !.data = g.data \o RawFill(n), !.fhi = Filled(g).fhi]
    BY <1>0, <1>5 DEF Filled, n
  <2> QED
    BY <1>0, <1>4, <2>1, <2>2, PduExcept
<1>8. Len(Filled(g).data) = g.cap
  <2>1. Len(Filled(g).data) = Len(g.data) + n
    BY <1>3, <1>4, <1>5
  <2>2. n = g.cap - Len(g.data)
    BY DEF n
  <2> QED
    BY <1>6, <2>1, <2>2
<1>9. Filled(g).fhi = NoPacketStart \/ Filled(g).fhi <= g.cap
  <2>1. g.fhi = NoPacketStart \/ g.fhi <= Len(g.data)
    BY DEF Formed
  <2> QED
    BY <1>0, <1>5, <1>6, <2>1
<1> QED
  BY <1>5, <1>6, <1>7, <1>8, <1>9 DEF Formed

LEMMA TopUpTypes == AddTypes /\ TopUp => AddTypes'
<1> SUFFICES ASSUME AddTypes, TopUp PROVE AddTypes'
  OBVIOUS
<1>1. Formed(Filled(mpdu))
  BY FilledTypes DEF TopUp, AddTypes, AddTypeOK
<1>2. QueuesFormed'
  BY <1>1, AddTypesQueues, SendOrKeepTypes DEF TopUp
<1> QED
  BY <1>2 DEF TopUp, AddTypes, AddTypeOK, QueuesFormed, settings

\* How much is copied: no more than there is, and to no more than the zone unless that was
\* too full before.
LEMMA CopyTaken ==
    ASSUME AddTypes, NEW g, Formed(g)
    PROVE  /\ CopyLen(g) \in Nat /\ netdataIdx + CopyLen(g) <= Len(netdata)
           /\ Len(g.data) <= zone => Len(g.data) + CopyLen(g) <= zone
<1>1. Len(g.data) \in Nat /\ zone \in Nat /\ netdataIdx \in Nat /\ Len(netdata) \in Nat
  BY PduFields, LengthsSmall DEF Formed, AddTypes, AddTypeOK
<1>2. netdataIdx <= Len(netdata)
  BY DEF AddTypes
<1> DEFINE left == Len(netdata) - netdataIdx
           room == zone - Len(g.data)
           n == CopyLen(g)
<1>3. left \in Nat
  BY <1>1, <1>2
<1>4. n = IF Len(g.data) > zone \/ left <= room THEN left ELSE room
  BY DEF CopyLen
<1> HIDE DEF n
<1>5. n \in Nat /\ n <= left /\ (Len(g.data) <= zone => n <= room)
  <2>1. CASE Len(g.data) > zone \/ left <= room
    <3>1. n = left
      BY <1>4, <2>1
    <3> QED
      BY <1>1, <1>3, <2>1, <3>1
  <2>2. CASE ~(Len(g.data) > zone \/ left <= room)
    <3>1. n = room
      BY <1>4, <2>2
    <3> QED
      BY <1>1, <1>3, <2>2, <3>1
  <2> QED
    BY <2>1, <2>2
<1>6. n \in Nat /\ netdataIdx + n <= Len(netdata)
  BY <1>1, <1>5
<1>7. Len(g.data) <= zone => Len(g.data) + n <= zone
  BY <1>1, <1>5
<1> QED
  BY <1>6, <1>7 DEF n

LEMMA CopyIntoTypes ==
    ASSUME AddTypes, phase = "copy", NEW g, Formed(g), Len(g.data) < DataFieldLen,
           NEW set \in BOOLEAN, CopyInto(g, set),
           UNCHANGED <<settings, length, sizings, msg_queue, sent, zone>>
    PROVE  AddTypes'
<1> DEFINE n == CopyLen(g)
           part == SubSeq(netdata, netdataIdx + 1, netdataIdx + n)
           h == [g EXCEPT !.fhi = FirstHeaderIndex(g, set), !.data = @ \o part]
           full == Len(h.data) = zone
           done == netdataIdx + n = Len(netdata)
<1>0. g \in Pdu /\ Len(g.data) <= g.cap /\ g.data \in Seq(Octet) /\ Len(g.data) \in Nat
  BY PduFields DEF Formed
<1>1. netdata \in Seq(Octet) /\ netdataIdx \in Nat /\ Len(netdata) \in Nat
  BY DEF AddTypes, AddTypeOK
<1>2. n \in Nat /\ netdataIdx + n <= Len(netdata)
  BY CopyTaken
<1>3. part \in Seq(Octet) /\ Len(part) = n
  BY <1>1, <1>2, Part
<1> HIDE DEF n, part
<1>4. g.data \o part \in Seq(Octet) /\ Len(g.data \o part) = Len(g.data) + n
  BY <1>0, <1>3, Concat
<1>5. h.cap = g.cap /\ h.data = g.data \o part /\ h.fhi = FirstHeaderIndex(g, set)
  BY <1>0 DEF Pdu
<1>6. /\ FirstHeaderIndex(g, set) \in Pointer
      /\ FirstHeaderIndex(g, set) = NoPacketStart \/ FirstHeaderIndex(g, set) <= Len(g.data)
  <2>0. Len(g.data) \in Pointer
    BY <1>0, FieldLen, LenInPointer
  <2>1. Len(g.data) \in Pointer /\ NoPacketStart \in Pointer
    <3>1. NoPacketStart \in Pointer
      BY DEF Pointer, NoPacketStart
    <3> QED
      BY <2>0, <3>1
  <2>2. g.fhi \in Pointer /\ (g.fhi = NoPacketStart \/ g.fhi <= Len(g.data))
    BY <1>0, PduFields DEF Formed
  <2> QED
    BY <1>0, <2>1, <2>2 DEF FirstHeaderIndex
<1>7. h \in Pdu
  <2>1. h = [g EXCEPT !.fhi = FirstHeaderIndex(g, set), !.data = g.data \o part]
    OBVIOUS
  <2> QED
    BY <1>0, <1>4, <1>6, <2>1, PduExcept
<1> HIDE DEF h
<1>8. Len(h.data) <= g.cap => Formed(h)
  <2>1. Len(h.data) \in Nat /\ h.fhi \in Nat
    BY <1>7, PduFields
  <2>2. h.fhi = NoPacketStart \/ h.fhi <= Len(g.data)
    BY <1>5, <1>6
  <2>3. Len(g.data) <= Len(h.data)
    BY <1>0, <1>2, <1>4, <1>5
  <2>4. h.fhi = NoPacketStart \/ h.fhi <= Len(h.data)
    BY <1>0, <2>1, <2>2, <2>3
  <2> QED
    BY <1>5, <1>7, <2>4 DEF Formed
<1>9. \/ CopyOverflows /\ firstHeaderIndexSet' = set
      \/ /\ thrown' = TRUE
         /\ UNCHANGED <<phase, netdata, netdataIdx, mpdu, firstHeaderIndexSet, mpdu_list, mpdus>>
      \/ /\ Len(h.data) <= g.cap /\ Len(h.data) <= zone
         /\ IF full THEN SendOrKeep(h) ELSE UNCHANGED <<mpdus, mpdu_list>>
         /\ mpdu' = IF full THEN NoPdu ELSE h
         /\ firstHeaderIndexSet' = (set \/ netdataIdx = 0)
         /\ netdata' = IF done THEN <<>> ELSE netdata
         /\ netdataIdx' = IF done THEN 0 ELSE netdataIdx + n
         /\ phase' = IF ~done THEN "copy" ELSE IF full THEN "send" ELSE "last"
         /\ UNCHANGED thrown
  BY DEF CopyInto, n, h, part
<1>10. CASE CopyOverflows /\ firstHeaderIndexSet' = set
  BY <1>10 DEF CopyOverflows, AddTypes, AddTypeOK, settings
<1>11. CASE /\ thrown' = TRUE
            /\ UNCHANGED <<phase, netdata, netdataIdx, mpdu, firstHeaderIndexSet, mpdu_list,
                           mpdus>>
  BY <1>11 DEF AddTypes, AddTypeOK, settings
<1>12. CASE /\ Len(h.data) <= g.cap /\ Len(h.data) <= zone
            /\ IF full THEN SendOrKeep(h) ELSE UNCHANGED <<mpdus, mpdu_list>>
            /\ mpdu' = IF full THEN NoPdu ELSE h
            /\ firstHeaderIndexSet' = (set \/ netdataIdx = 0)
            /\ netdata' = IF done THEN <<>> ELSE netdata
            /\ netdataIdx' = IF done THEN 0 ELSE netdataIdx + n
            /\ phase' = IF ~done THEN "copy" ELSE IF full THEN "send" ELSE "last"
            /\ UNCHANGED thrown
  <2>1. Formed(h)
    BY <1>8, <1>12
  <2>2. QueuesFormed'
    <3>1. CASE full
      BY <1>12, <2>1, <3>1, AddTypesQueues, SendOrKeepTypes
    <3>2. CASE ~full
      BY <1>12, <3>2, AddTypesQueues DEF QueuesFormed
    <3> QED
      BY <3>1, <3>2
  <2>3. netdata' \in Seq(Octet) /\ netdataIdx' \in Nat /\ netdataIdx' <= Len(netdata')
    BY <1>1, <1>2, <1>12
  <2>4. mpdu' # NoPdu => mpdu' = h /\ Len(h.data) < DataFieldLen
    <3>1. zone \in Nat /\ zone <= DataFieldLen /\ DataFieldLen \in Nat
      BY LengthsSmall, FrameAssumption DEF AddTypes, AddTypeOK
    <3>2. Len(h.data) \in Nat
      BY <1>7, PduFields
    <3> QED
      BY <1>12, <3>1, <3>2
  <2>5. h # NoPdu
    BY <1>7, AddAssumption
  <2>6. mpdu' \in Pdu \cup {NoPdu} /\ (mpdu' # NoPdu => Formed(mpdu') /\ Len(mpdu'.data) < DataFieldLen)
    BY <1>7, <1>12, <2>1, <2>4
  <2>7. phase' \in {"get", "copy", "last", "send"} /\ (phase' = "last" => mpdu' # NoPdu)
    BY <1>12, <2>5
  <2>8. firstHeaderIndexSet' \in BOOLEAN
    BY <1>12
  <2> QED
    BY <1>12, <2>2, <2>3, <2>6, <2>7, <2>8 DEF AddTypes, AddTypeOK, QueuesFormed, settings
<1> QED
  BY <1>9, <1>10, <1>11, <1>12

LEMMA NewPduFormed ==
    ASSUME length \in Lengths
    PROVE  /\ Formed([cap |-> length, fhi |-> 0, data |-> <<>>])
           /\ Len([cap |-> length, fhi |-> 0, data |-> <<>>].data) = 0
<1>1. length \in Nat /\ 0 \in Pointer
  BY LengthsSmall DEF Pointer
<1>2. <<>> \in Seq(Octet) /\ Len(<<>>) = 0
  OBVIOUS
<1> QED
  BY <1>1, <1>2 DEF Formed, Pdu

LEMMA CopyTypes == AddTypes /\ Copy => AddTypes'
<1> SUFFICES ASSUME AddTypes, Copy PROVE AddTypes'
  OBVIOUS
<1>1. CASE mpdu = NoPdu
  <2> DEFINE g == [cap |-> length, fhi |-> 0, data |-> <<>>]
  <2>1. Formed(g) /\ Len(g.data) < DataFieldLen
    BY NewPduFormed, FrameAssumption DEF AddTypes, AddTypeOK
  <2>2. CopyInto(g, FALSE)
    BY <1>1 DEF Copy
  <2>3. FALSE \in BOOLEAN
    OBVIOUS
  <2> HIDE DEF g
  <2> QED
    BY <2>1, <2>2, <2>3, CopyIntoTypes DEF Copy
<1>2. CASE mpdu # NoPdu
  BY <1>2, CopyIntoTypes DEF Copy, AddTypes, AddTypeOK
<1> QED
  BY <1>1, <1>2

LEMMA AddTypesStep ==
    /\ AddTypes /\ AddNext => AddTypes'
    /\ AddTypes /\ UNCHANGED addvars => AddTypes'
<1>1. AddTypes /\ UNCHANGED addvars => AddTypes'
  BY DEF addvars, AddTypes, AddTypeOK
<1> QED
  BY <1>1, ArriveTypes, SetLengthTypes, GetDataTypes, CopyTypes, WaitTypes, TopUpTypes,
     SendListTypes DEF AddNext, AddStep
-----------------------------------------------------------------------------
\* The receiver's M_PDU is read on from a place inside it, or done with.
LEMMA GoOnTypes ==
    ASSUME RemoveTypes, m_pdu # NoPdu, NEW i \in Nat, NEW more, R!GoOn(i, more)
    PROVE  /\ m_pdu' \in Pdu \cup {NoPdu} /\ idx' \in 0..DataFieldLen - 1
           /\ m_pdu' # NoPdu => Complete(m_pdu') /\ idx' < Len(m_pdu'.data)
<1>1. m_pdu \in Pdu /\ Complete(m_pdu)
  BY DEF RemoveTypes
<1>2. m_pdu.cap \in 1..DataFieldLen /\ Len(m_pdu.data) = m_pdu.cap
  BY <1>1, PduFields, LengthsSmall DEF Complete
<1>3. CASE more /\ i < Len(m_pdu.data)
  BY <1>1, <1>2, <1>3, FieldLen DEF R!GoOn
<1>4. CASE ~(more /\ i < Len(m_pdu.data))
  BY <1>4, FieldLen DEF R!GoOn
<1> QED
  BY <1>3, <1>4

LEMMA SameReserved ==
    R!NoPacketStart = NoPacketStart /\ R!OnlyIdleData = OnlyIdleData /\ R!FillPacket = FillPacket
BY DEF R!NoPacketStart, NoPacketStart, R!OnlyIdleData, OnlyIdleData, R!FillPacket, FillPacket,
       R!pvnEncapsulationPacket, pvnEncapsulationPacket

LEMMA TakeTypes ==
    RemoveTypes /\ LinkTypes /\ R!Take =>
        RemoveTypes' /\ units' \in Seq(Pdu) /\ \A i \in 1..Len(units') : Complete(units'[i])
<1> SUFFICES ASSUME RemoveTypes, LinkTypes, R!Take
             PROVE  RemoveTypes' /\ units' \in Seq(Pdu) /\ \A i \in 1..Len(units') : Complete(units'[i])
  OBVIOUS
<1>1. /\ Head(units) \in Pdu /\ Head(units) = units[1]
      /\ Tail(units) \in Seq(Pdu) /\ Len(units) \in Nat \ {0} /\ Len(Tail(units)) = Len(units) - 1
      /\ \A i \in 1..Len(units) - 1 : Tail(units)[i] = units[i + 1]
  BY QueueTail DEF R!Take, LinkTypes
<1>2. Complete(Head(units))
  BY <1>1 DEF LinkTypes
<1>3. Len(Head(units).data) \in 1..DataFieldLen
  BY <1>1, <1>2, PduFields, LengthsSmall DEF Complete
<1>4. \A i \in 1..Len(Tail(units)) : Complete(Tail(units)[i])
  <2> TAKE i \in 1..Len(Tail(units))
  <2>1. i + 1 \in 1..Len(units) /\ Tail(units)[i] = units[i + 1]
    BY <1>1
  <2> QED
    BY <2>1 DEF LinkTypes
<1>5. units' = Tail(units) /\ idx' = 0 /\ (m_pdu' = NoPdu \/ m_pdu' = Head(units))
  BY DEF R!Take
<1>6. idx' \in 0..DataFieldLen - 1
  BY <1>5, FieldLen
<1>7. m_pdu' # NoPdu => Complete(m_pdu') /\ idx' < Len(m_pdu'.data)
  BY <1>2, <1>3, <1>5
<1> QED
  BY <1>1, <1>4, <1>5, <1>6, <1>7 DEF R!Take, RemoveTypes

\* What a pass of the loop takes of the zone is octets of it.
LEMMA Piece ==
    ASSUME NEW d \in Seq(Octet), NEW i \in Nat, NEW n \in Nat, i <= n, n <= Len(d)
    PROVE  SubSeq(d, i + 1, n) \in Seq(Octet) /\ Len(SubSeq(d, i + 1, n)) = n - i
  BY SMT

LEMMA DeliveredOne ==
    ASSUME NEW e \in Seq(Octet), delivered \in Seq(Seq(Octet)) PROVE Append(delivered, e) \in Seq(Seq(Octet))
BY QueueAppend

LEMMA StartTypes == RemoveTypes /\ R!Start => RemoveTypes'
<1> SUFFICES ASSUME RemoveTypes, R!Start PROVE RemoveTypes'
  OBVIOUS
<1> DEFINE left == SubSeq(m_pdu.data, idx + 1, Len(m_pdu.data))
           take == IF R!First.len > Len(left) THEN Len(left) ELSE R!First.len
<1>0. m_pdu # NoPdu /\ m_pdu \in Pdu /\ idx \in Nat /\ idx < Len(m_pdu.data) /\ Len(m_pdu.data) \in Nat
  BY PduFields, FieldLen DEF R!Start, R!AtStart, RemoveTypes
<1>1. left \in Seq(Octet) /\ Len(left) = Len(m_pdu.data) - idx
  BY <1>0, PduFields, Piece
<1>2. R!First.len \in Nat
  <2>1. m_pdu.data \in Seq(Octet) /\ idx + 1 \in 1..Len(m_pdu.data)
    BY <1>0, PduFields
  <2>2. m_pdu.data[idx + 1] \in Octet
    BY <2>1
  <2> QED
    BY <2>2 DEF R!First, Octet, Packet
<1> HIDE DEF left
<1>3. take \in Nat /\ take <= Len(left)
  BY <1>0, <1>1, <1>2
<1> HIDE DEF take
<1>4. SubSeq(left, 1, take) \in Seq(Octet)
  <2>1. SubSeq(left, 0 + 1, take) \in Seq(Octet)
    BY <1>1, <1>3, Piece
  <2> QED
    BY <2>1
<1>5. Append(delivered, SubSeq(left, 1, take)) \in Seq(Seq(Octet))
  BY <1>4, DeliveredOne DEF RemoveTypes
<1>6. \/ R!Abort
      \/ /\ aborted' = aborted
         /\ \/ encap' = left /\ R!GoOn(idx, FALSE) /\ delivered' = delivered
            \/ encap' = NoPacket /\ delivered' = Append(delivered, SubSeq(left, 1, take))
               /\ R!GoOn(idx + take, multi)
            \/ encap' = SubSeq(left, 1, take) /\ R!GoOn(idx + take, TRUE) /\ delivered' = delivered
  BY DEF R!Start, R!assemblevars, left, take
<1>7. encap' \in Seq(Octet) \cup {NoPacket} /\ delivered' \in Seq(Seq(Octet)) /\ aborted' \in BOOLEAN
  BY <1>1, <1>4, <1>5, <1>6 DEF RemoveTypes, R!Abort
<1>8. \/ R!Abort
      \/ \E i \in Nat : \E b : R!GoOn(i, b)
  <2>1. idx + take \in Nat
    BY <1>0, <1>3
  <2> QED
    BY <1>0, <1>6, <2>1
<1> QED
  BY <1>0, <1>7, <1>8, GoOnTypes DEF RemoveTypes, R!Abort

LEMMA ContinueTypes == RemoveTypes /\ R!Continue => RemoveTypes'
<1> SUFFICES ASSUME RemoveTypes, R!Continue PROVE RemoveTypes'
  OBVIOUS
<1> DEFINE foundTail == m_pdu.fhi # R!NoPacketStart
           dataLen   == IF foundTail THEN m_pdu.fhi ELSE Len(m_pdu.data)
           more      == encap \o SubSeq(m_pdu.data, 1, dataLen)
           total     == Len(more)
<1>0. m_pdu # NoPdu /\ m_pdu \in Pdu /\ Len(m_pdu.data) \in Nat /\ m_pdu.fhi \in Nat
  BY PduFields DEF R!Continue, RemoveTypes
<1>1. dataLen \in Nat /\ dataLen <= Len(m_pdu.data)
  <2>1. m_pdu.fhi = NoPacketStart \/ m_pdu.fhi <= Len(m_pdu.data)
    BY <1>0 DEF RemoveTypes, Complete, Formed
  <2> QED
    BY <1>0, <2>1, SameReserved
<1> HIDE DEF dataLen
<1>2. SubSeq(m_pdu.data, 1, dataLen) \in Seq(Octet)
  <2>1. SubSeq(m_pdu.data, 0 + 1, dataLen) \in Seq(Octet)
    BY <1>0, <1>1, PduFields, Piece
  <2> QED
    BY <2>1
<1>3. encap \in Seq(Octet)
  BY DEF R!Continue, RemoveTypes
<1>4. more \in Seq(Octet)
  BY <1>2, <1>3, Concat
<1> HIDE DEF more
<1>5. Append(delivered, more) \in Seq(Seq(Octet))
  BY <1>4, DeliveredOne DEF RemoveTypes
<1>6. \/ R!Abort
      \/ /\ aborted' = aborted /\ (R!GoOn(dataLen, multi) \/ R!GoOn(dataLen, TRUE))
         /\ delivered' \in {delivered, Append(delivered, more)} /\ encap' \in {NoPacket, more}
  BY DEF R!Continue, R!assemblevars, more, dataLen
<1>7. encap' \in Seq(Octet) \cup {NoPacket} /\ delivered' \in Seq(Seq(Octet)) /\ aborted' \in BOOLEAN
  BY <1>4, <1>5, <1>6 DEF RemoveTypes, R!Abort
<1>8. R!Abort \/ \E i \in Nat : \E b : R!GoOn(i, b)
  BY <1>1, <1>6
<1> QED
  BY <1>0, <1>7, <1>8, GoOnTypes DEF RemoveTypes, R!Abort

LEMMA PassTypes ==
    RemoveTypes /\ (R!Skip \/ R!PassFill \/ R!LostEnd) => RemoveTypes'
<1> SUFFICES ASSUME RemoveTypes, R!Skip \/ R!PassFill \/ R!LostEnd PROVE RemoveTypes'
  OBVIOUS
<1>0. m_pdu # NoPdu /\ m_pdu \in Pdu /\ idx \in Nat /\ m_pdu.fhi \in Nat
  <2>1. m_pdu # NoPdu
    BY DEF R!Skip, R!PassFill, R!LostEnd, R!AtStart
  <2>2. m_pdu \in Pdu /\ idx \in Nat
    BY <2>1, FieldLen DEF RemoveTypes
  <2> QED
    BY <2>1, <2>2, PduFields
<1>1. /\ encap' \in {encap, NoPacket} /\ delivered' = delivered /\ aborted' = aborted
      /\ \/ \E b : R!GoOn(m_pdu.fhi, b)
         \/ \E b : R!GoOn(idx + 1, b)
         \/ \E b : R!GoOn(idx, b)
  BY DEF R!Skip, R!PassFill, R!LostEnd, R!assemblevars
<1>2. \E i \in Nat : \E b : R!GoOn(i, b)
  BY <1>0, <1>1
<1> QED
  BY <1>0, <1>1, <1>2, GoOnTypes DEF RemoveTypes

LEMMA RemoveTypesStep ==
    RemoveTypes /\ LinkTypes /\ R!Remove =>
        RemoveTypes' /\ units' \in Seq(Pdu) /\ \A i \in 1..Len(units') : Complete(units'[i])
<1> SUFFICES ASSUME RemoveTypes, LinkTypes, R!Remove
             PROVE  RemoveTypes' /\ units' \in Seq(Pdu) /\ \A i \in 1..Len(units') : Complete(units'[i])
  OBVIOUS
<1>1. CASE R!Take
  BY <1>1, TakeTypes
<1>2. CASE R!Skip \/ R!PassFill \/ R!Start \/ R!Continue \/ R!LostEnd
  <2>1. RemoveTypes'
    BY <1>2, PassTypes, StartTypes, ContinueTypes
  <2>2. units' = units
    BY <1>2 DEF R!Skip, R!PassFill, R!Start, R!Continue, R!LostEnd, R!assemblevars, R!Abort
  <2> QED
    BY <2>1, <2>2 DEF LinkTypes
<1> QED
  BY <1>1, <1>2 DEF R!Remove
-----------------------------------------------------------------------------
(* The frame counts.                                                       *)

Counts == 0..MaxVCFrameCount

\* What c says of a queue of frames: before the i-th of them the sender's count was c[i],
\* and it counts every frame but the idle ones.
Numbered(w, c) ==
    /\ c \in [1..Len(w) + 1 -> Counts]
    /\ \A i \in 1..Len(w) :
          IF w[i].idle THEN c[i + 1] = c[i]
          ELSE w[i].num = c[i] /\ c[i + 1] = IncFrameNumber(c[i])

\* The frames between the last one the receiver counted and count n are those missing, up
\* to whole rounds of the count.
Astray(r, miss, n) == \E q \in Nat : r + miss = q * (MaxVCFrameCount + 1) + n

CountInv ==
    /\ \E c : /\ Numbered(wire, c) /\ c[Len(wire) + 1] = sndFrameCount
              /\ Astray(rcvFrameCount, missing, c[1])
    /\ MissesCounted

LEMMA CountRange == /\ MaxVCFrameCount \in Nat \ {0}
                    /\ \A n \in Counts : n \in Nat /\ n <= MaxVCFrameCount /\ IncFrameNumber(n) \in Counts
BY FrameAssumption DEF Counts, IncFrameNumber

\* The first frame of the queue leaves it.
LEMMA NumberedTail ==
    ASSUME NEW w \in Seq(TF), w # <<>>, NEW c, Numbered(w, c)
    PROVE  \E d : /\ Numbered(Tail(w), d) /\ d[Len(Tail(w)) + 1] = c[Len(w) + 1]
                  /\ d[1] = IF w[1].idle THEN c[1] ELSE IncFrameNumber(c[1])
                  /\ c[1] \in Counts /\ (~w[1].idle => w[1].num = c[1])
<1>1. /\ Tail(w) \in Seq(TF) /\ Len(w) \in Nat \ {0} /\ Len(Tail(w)) = Len(w) - 1
      /\ \A i \in 1..Len(w) - 1 : Tail(w)[i] = w[i + 1]
  BY QueueTail
<1> DEFINE d == [i \in 1..Len(Tail(w)) + 1 |-> c[i + 1]]
<1>2. \A i \in 1..Len(w) : i \in 1..Len(w) + 1 /\ i + 1 \in 1..Len(w) + 1
  BY <1>1
<1>3. d \in [1..Len(Tail(w)) + 1 -> Counts]
  <2>1. \A i \in 1..Len(Tail(w)) + 1 : c[i + 1] \in Counts
    BY <1>1, <1>2 DEF Numbered
  <2> QED
    BY <2>1
<1>4. \A i \in 1..Len(Tail(w)) : d[i] = c[i + 1] /\ d[i + 1] = c[i + 2] /\ Tail(w)[i] = w[i + 1]
                                 /\ i + 1 \in 1..Len(w) /\ (i + 1) + 1 = i + 2
  BY <1>1
<1>5. d[1] = c[2] /\ d[Len(Tail(w)) + 1] = c[Len(w) + 1]
  BY <1>1
<1> HIDE DEF d
<1>6. Numbered(Tail(w), d)
  <2>1. ASSUME NEW i \in 1..Len(Tail(w))
        PROVE  IF Tail(w)[i].idle THEN d[i + 1] = d[i]
               ELSE Tail(w)[i].num = d[i] /\ d[i + 1] = IncFrameNumber(d[i])
    <3>1. i + 1 \in 1..Len(w)
      BY <1>4
    <3>2. IF w[i + 1].idle THEN c[(i + 1) + 1] = c[i + 1]
          ELSE w[i + 1].num = c[i + 1] /\ c[(i + 1) + 1] = IncFrameNumber(c[i + 1])
      BY <3>1 DEF Numbered
    <3> QED
      BY <1>4, <3>2
  <2> QED
    BY <1>3, <2>1 DEF Numbered
<1>7. 1 \in 1..Len(w) /\ 1 + 1 = 2
  BY <1>1
<1>8. IF w[1].idle THEN c[2] = c[1] ELSE w[1].num = c[1] /\ c[2] = IncFrameNumber(c[1])
  BY <1>7 DEF Numbered
<1>9. c[1] \in Counts
  BY <1>2, <1>7 DEF Numbered
<1> QED
  BY <1>5, <1>6, <1>8, <1>9

\* A frame is added to it.
LEMMA NumberedAppend ==
    ASSUME NEW w \in Seq(TF), NEW c, Numbered(w, c), NEW f \in TF,
           ~f.idle => f.num = c[Len(w) + 1]
    PROVE  \E d : /\ Numbered(Append(w, f), d) /\ d[1] = c[1]
                  /\ d[Len(Append(w, f)) + 1] =
                        IF f.idle THEN c[Len(w) + 1] ELSE IncFrameNumber(c[Len(w) + 1])
<1>1. /\ Append(w, f) \in Seq(TF) /\ Len(Append(w, f)) = Len(w) + 1
      /\ \A i \in 1..Len(w) : Append(w, f)[i] = w[i]
      /\ Append(w, f)[Len(w) + 1] = f /\ Len(w) \in Nat
  BY QueueAppend
<1> DEFINE n == Len(w)
           last == IF f.idle THEN c[n + 1] ELSE IncFrameNumber(c[n + 1])
           d == [i \in 1..(n + 1) + 1 |-> IF i = n + 2 THEN last ELSE c[i]]
<1>2. c[n + 1] \in Counts /\ last \in Counts
  <2>1. n + 1 \in 1..n + 1
    BY <1>1
  <2>2. c[n + 1] \in Counts
    BY <2>1 DEF Numbered
  <2> QED
    BY <2>2, CountRange
<1>3. d \in [1..(n + 1) + 1 -> Counts]
  <2>1. \A i \in 1..(n + 1) + 1 : i # n + 2 => i \in 1..n + 1
    BY <1>1
  <2>2. \A i \in 1..n + 1 : c[i] \in Counts
    BY DEF Numbered
  <2> HIDE DEF last
  <2> QED
    BY <1>2, <2>1, <2>2
<1>4. d[1] = c[1] /\ d[(n + 1) + 1] = last /\ d[n + 1] = c[n + 1]
  BY <1>1
<1>5. \A i \in 1..n : d[i] = c[i] /\ d[i + 1] = c[i + 1]
  BY <1>1
<1> HIDE DEF d, last
<1>6. Numbered(Append(w, f), d)
  <2>1. ASSUME NEW i \in 1..n + 1
        PROVE  IF Append(w, f)[i].idle THEN d[i + 1] = d[i]
               ELSE Append(w, f)[i].num = d[i] /\ d[i + 1] = IncFrameNumber(d[i])
    <3>1. CASE i \in 1..n
      <4>1. IF w[i].idle THEN c[i + 1] = c[i]
            ELSE w[i].num = c[i] /\ c[i + 1] = IncFrameNumber(c[i])
        BY <3>1 DEF Numbered
      <4> QED
        BY <1>1, <1>5, <3>1, <4>1
    <3>2. CASE i = n + 1
      BY <1>1, <1>4, <3>2 DEF last
    <3> QED
      BY <1>1, <3>1, <3>2
  <2> QED
    BY <1>1, <1>3, <2>1 DEF Numbered
<1> QED
  BY <1>1, <1>4, <1>6 DEF last

\* One more frame is missing.
LEMMA AstrayMore ==
    ASSUME NEW r \in Counts, NEW miss \in Nat, NEW n \in Counts, Astray(r, miss, n)
    PROVE  Astray(r, miss + 1, IncFrameNumber(n))
<1>0. MaxVCFrameCount \in Nat \ {0} /\ r \in Nat /\ n \in Nat
  BY CountRange
<1>1. PICK q \in Nat : r + miss = q * (MaxVCFrameCount + 1) + n
  BY DEF Astray
<1>2. CASE n = MaxVCFrameCount
  <2>1. r + (miss + 1) = (q + 1) * (MaxVCFrameCount + 1) + 0
    BY <1>0, <1>1, <1>2
  <2>2. q + 1 \in Nat
    OBVIOUS
  <2> QED
    BY <1>2, <2>1, <2>2 DEF Astray, IncFrameNumber
<1>3. CASE n # MaxVCFrameCount
  <2>1. r + (miss + 1) = q * (MaxVCFrameCount + 1) + (n + 1)
    <3>1. q * (MaxVCFrameCount + 1) \in Nat
      BY <1>0
    <3> QED
      BY <1>0, <1>1, <3>1
  <2> QED
    BY <1>3, <2>1 DEF Astray, IncFrameNumber
<1> QED
  BY <1>2, <1>3

LEMMA Remainder ==
    ASSUME NEW q \in Nat, NEW r \in Nat, NEW m \in Nat \ {0}, r < m
    PROVE  (q * m + r) % m = r
OBVIOUS

\* Frames are seen to be missing unless as many are as the count has values.
LEMMA AstraySeen ==
    ASSUME NEW r \in Counts, NEW miss \in Nat, NEW n \in Counts, Astray(r, miss, n)
    PROVE  miss % (MaxVCFrameCount + 1) = 0 <=> n = r
<1> DEFINE m == MaxVCFrameCount + 1
<1>0. m \in Nat \ {0} /\ r \in Nat /\ r < m /\ n \in Nat /\ n < m
  BY CountRange
<1>1. PICK q \in Nat : r + miss = q * m + n
  BY DEF Astray
<1> HIDE DEF m
<1>2. (q * m + n) % m = n
  BY <1>0, Remainder
<1>3. ASSUME miss % m = 0 PROVE n = r
  <2>1. miss \div m \in Nat /\ miss = m * (miss \div m) + (miss % m)
    BY <1>0
  <2>2. (miss \div m) * m + r = q * m + n
    BY <1>0, <1>1, <1>3, <2>1
  <2>3. ((miss \div m) * m + r) % m = r
    BY <1>0, <2>1, Remainder
  <2> QED
    BY <1>2, <2>2, <2>3
<1>4. ASSUME n = r PROVE miss % m = 0
  <2>1. miss = q * m + 0
    BY <1>0, <1>1, <1>4
  <2>2. (q * m + 0) % m = 0
    BY <1>0, Remainder
  <2> QED
    BY <2>1, <2>2
<1> QED
  BY <1>3, <1>4 DEF m

LEMMA AstrayNone == \A n \in Counts : Astray(n, 0, n)
<1> TAKE n \in Counts
<1>1. n + 0 = 0 * (MaxVCFrameCount + 1) + n
  BY CountRange
<1> QED
  BY <1>1 DEF Astray
-----------------------------------------------------------------------------
(* Every step of the link.                                                 *)

CountedInv == TypeInv /\ CountInv

WireTypes == wire \in Seq(TF) /\ \A i \in 1..Len(wire) : ~wire[i].idle => Complete(wire[i].pdu)

\* The head of the wire, and what is left.
LEMMA WireTail ==
    ASSUME WireTypes, wire # <<>>
    PROVE  /\ Head(wire) \in TF /\ Head(wire) = wire[1]
           /\ ~Head(wire).idle => Complete(Head(wire).pdu)
           /\ Tail(wire) \in Seq(TF)
           /\ \A i \in 1..Len(Tail(wire)) : ~Tail(wire)[i].idle => Complete(Tail(wire)[i].pdu)
<1>1. /\ Head(wire) \in TF /\ Head(wire) = wire[1]
      /\ Tail(wire) \in Seq(TF) /\ Len(wire) \in Nat \ {0} /\ Len(Tail(wire)) = Len(wire) - 1
      /\ \A i \in 1..Len(wire) - 1 : Tail(wire)[i] = wire[i + 1]
  BY QueueTail DEF WireTypes
<1>2. 1 \in 1..Len(wire)
  BY <1>1
<1>3. \A i \in 1..Len(Tail(wire)) : i + 1 \in 1..Len(wire) /\ Tail(wire)[i] = wire[i + 1]
  BY <1>1
<1> QED
  BY <1>1, <1>2, <1>3 DEF WireTypes

LEMMA WireAppend ==
    ASSUME WireTypes, NEW f \in TF, ~f.idle => Complete(f.pdu), wire' = Append(wire, f)
    PROVE  WireTypes'
<1>1. /\ Append(wire, f) \in Seq(TF) /\ Len(Append(wire, f)) = Len(wire) + 1
      /\ \A i \in 1..Len(wire) : Append(wire, f)[i] = wire[i]
      /\ Append(wire, f)[Len(wire) + 1] = f /\ Len(wire) \in Nat
  BY QueueAppend DEF WireTypes
<1>2. \A i \in 1..Len(wire) + 1 : i \in 1..Len(wire) \/ i = Len(wire) + 1
  BY <1>1
<1> QED
  BY <1>1, <1>2 DEF WireTypes

LEMMA ContentsAreIds ==
    ASSUME NEW f \in TF
    PROVE  Contents(f) \subseteq Nat
<1>1. f.pdu \in Pdu
  BY DEF TF
<1>2. f.pdu.data \in Seq(Octet)
  BY <1>1, PduFields
<1>3. \A i \in DOMAIN f.pdu.data : f.pdu.data[i] \in Octet
  BY <1>2
<1>4. \A o \in Octet : o.pkt.id \in Nat
  BY DEF Octet, Packet
<1> QED
  BY <1>3, <1>4 DEF Contents

LEMMA LinkWire == LinkTypes => WireTypes
BY DEF LinkTypes, WireTypes

LEMMA AddCounted == CountedInv /\ Add => CountedInv'
<1> SUFFICES ASSUME CountedInv, Add PROVE CountedInv'
  OBVIOUS
<1>1. AddTypes'
  BY AddTypesStep DEF Add, CountedInv, TypeInv
<1>2. LinkTypes' /\ RemoveTypes'
  BY DEF Add, CountedInv, TypeInv, LinkTypes, RemoveTypes, channelvars, removeonly, history
<1>3. CountInv'
  BY DEF Add, CountedInv, CountInv, MissesCounted, channelvars, history
<1> QED
  BY <1>1, <1>2, <1>3 DEF CountedInv, TypeInv

LEMMA SetFrameSizeCounted == CountedInv /\ SetFrameSize => CountedInv'
<1> SUFFICES ASSUME CountedInv, SetFrameSize PROVE CountedInv'
  OBVIOUS
<1>1. sizings' \in 0..MaxSizings /\ frameSize' \in Lengths
  BY AddAssumption DEF SetFrameSize, CanSize, CountedInv, TypeInv, AddTypes, AddTypeOK
<1>2. AddTypes'
  BY <1>1 DEF SetFrameSize, CountedInv, TypeInv, AddTypes, AddTypeOK
<1>3. LinkTypes' /\ RemoveTypes'
  BY <1>1 DEF SetFrameSize, CountedInv, TypeInv, LinkTypes, RemoveTypes, removeonly, history
<1>4. CountInv'
  BY DEF SetFrameSize, CountedInv, CountInv, MissesCounted, history
<1> QED
  BY <1>2, <1>3, <1>4 DEF CountedInv, TypeInv

LEMMA FrameUpCounted == CountedInv /\ FrameUp => CountedInv'
<1> SUFFICES ASSUME CountedInv, FrameUp PROVE CountedInv'
  OBVIOUS
<1>1. /\ Head(mpdus) \in Pdu /\ Head(mpdus) = mpdus[1]
      /\ Tail(mpdus) \in Seq(Pdu) /\ Len(mpdus) \in Nat \ {0} /\ Len(Tail(mpdus)) = Len(mpdus) - 1
      /\ \A i \in 1..Len(mpdus) - 1 : Tail(mpdus)[i] = mpdus[i + 1]
  BY QueueTail DEF FrameUp, CountedInv, TypeInv, AddTypes, AddTypeOK
<1>2. Complete(Head(mpdus))
  BY <1>1 DEF CountedInv, TypeInv, AddTypes
<1>3. \A i \in 1..Len(Tail(mpdus)) : Complete(Tail(mpdus)[i])
  <2> TAKE i \in 1..Len(Tail(mpdus))
  <2>1. i + 1 \in 1..Len(mpdus) /\ Tail(mpdus)[i] = mpdus[i + 1]
    BY <1>1
  <2> QED
    BY <2>1 DEF CountedInv, TypeInv, AddTypes
<1>4. AddTypes'
  BY <1>1, <1>3 DEF FrameUp, addonly, CountedInv, TypeInv, AddTypes, AddTypeOK
<1> DEFINE f == [num |-> sndFrameCount, ok |-> TRUE, idle |-> FALSE, pdu |-> Head(mpdus)]
<1>5. f \in TF /\ f.num = sndFrameCount /\ f.idle = FALSE /\ f.pdu = Head(mpdus)
  BY <1>1 DEF TF, CountedInv, TypeInv, LinkTypes
<1> HIDE DEF f
<1>6. \/ UNCHANGED <<sndFrameCount, wire>>
      \/ wire' = Append(wire, f) /\ sndFrameCount' = IncFrameNumber(sndFrameCount)
  BY DEF FrameUp, f
<1>7. UNCHANGED <<frameSize, dropBadFrames, rcvFrameCount, frameCountMisses, units, removeonly,
                  hits, history>>
  BY DEF FrameUp
<1>8. CASE UNCHANGED <<sndFrameCount, wire>>
  <2>1. LinkTypes' /\ RemoveTypes'
    BY <1>7, <1>8 DEF CountedInv, TypeInv, LinkTypes, RemoveTypes, removeonly, history
  <2>2. CountInv'
    BY <1>7, <1>8 DEF CountedInv, CountInv, MissesCounted, history
  <2> QED
    BY <1>4, <2>1, <2>2 DEF CountedInv, TypeInv
<1>9. CASE wire' = Append(wire, f) /\ sndFrameCount' = IncFrameNumber(sndFrameCount)
  <2>1. WireTypes'
    BY <1>2, <1>5, <1>9, LinkWire, WireAppend DEF CountedInv, TypeInv
  <2>2. sndFrameCount' \in 0..MaxVCFrameCount
    BY <1>9, CountRange DEF CountedInv, TypeInv, LinkTypes, Counts
  <2>3. LinkTypes' /\ RemoveTypes'
    BY <1>7, <2>1, <2>2 DEF CountedInv, TypeInv, LinkTypes, RemoveTypes, WireTypes, removeonly, history
  <2>4. PICK c : /\ Numbered(wire, c) /\ c[Len(wire) + 1] = sndFrameCount
                 /\ Astray(rcvFrameCount, missing, c[1])
    BY DEF CountedInv, CountInv
  <2>5. wire \in Seq(TF)
    BY DEF CountedInv, TypeInv, LinkTypes
  <2>6. PICK d : /\ Numbered(Append(wire, f), d) /\ d[1] = c[1]
                 /\ d[Len(Append(wire, f)) + 1] = IncFrameNumber(c[Len(wire) + 1])
    BY <1>5, <2>4, <2>5, NumberedAppend
  <2>7. /\ Numbered(wire', d) /\ d[Len(wire') + 1] = sndFrameCount'
        /\ Astray(rcvFrameCount', missing', d[1])
    BY <1>7, <1>9, <2>4, <2>6 DEF history
  <2>8. MissesCounted'
    BY <1>7 DEF CountedInv, CountInv, MissesCounted, history
  <2> QED
    BY <1>4, <2>3, <2>7, <2>8 DEF CountedInv, TypeInv, CountInv
<1> QED
  BY <1>6, <1>8, <1>9

\* The head of the wire is gone, and counted as it should be.
LEMMA CountTail ==
    ASSUME CountedInv, wire # <<>>
    PROVE  \E n \in Counts : \E d :
              /\ Numbered(Tail(wire), d) /\ d[Len(Tail(wire)) + 1] = sndFrameCount
              /\ Astray(rcvFrameCount, missing, n)
              /\ d[1] = IF Head(wire).idle THEN n ELSE IncFrameNumber(n)
              /\ ~Head(wire).idle => Head(wire).num = n
<1>1. PICK c : /\ Numbered(wire, c) /\ c[Len(wire) + 1] = sndFrameCount
               /\ Astray(rcvFrameCount, missing, c[1])
  BY DEF CountedInv, CountInv
<1>2. wire \in Seq(TF) /\ Head(wire) = wire[1]
  BY LinkWire, WireTail DEF CountedInv, TypeInv, LinkTypes
<1>3. PICK d : /\ Numbered(Tail(wire), d) /\ d[Len(Tail(wire)) + 1] = c[Len(wire) + 1]
               /\ d[1] = IF wire[1].idle THEN c[1] ELSE IncFrameNumber(c[1])
               /\ c[1] \in Counts /\ (~wire[1].idle => wire[1].num = c[1])
  BY <1>1, <1>2, NumberedTail
<1> QED
  BY <1>1, <1>2, <1>3

LEMMA UnframeCounted == CountedInv /\ Unframe => CountedInv'
<1> SUFFICES ASSUME CountedInv, Unframe PROVE CountedInv'
  OBVIOUS
<1> DEFINE f == Head(wire)
<1>1. /\ f \in TF /\ f = wire[1] /\ (~f.idle => Complete(f.pdu))
      /\ Tail(wire) \in Seq(TF)
      /\ \A i \in 1..Len(Tail(wire)) : ~Tail(wire)[i].idle => Complete(Tail(wire)[i].pdu)
  BY LinkWire, WireTail DEF Unframe, CountedInv, TypeInv
<1>2. /\ wire' = Tail(wire)
      /\ UNCHANGED <<addvars, frameSize, dropBadFrames, sndFrameCount, removeonly, hits>>
  BY DEF Unframe
<1>3. WireTypes'
  BY <1>1, <1>2 DEF WireTypes
<1>4. AddTypes' /\ RemoveTypes'
  BY <1>2, AddTypesStep DEF CountedInv, TypeInv, RemoveTypes, removeonly
<1>5. PICK n \in Counts : \E d :
              /\ Numbered(Tail(wire), d) /\ d[Len(Tail(wire)) + 1] = sndFrameCount
              /\ Astray(rcvFrameCount, missing, n)
              /\ d[1] = IF Head(wire).idle THEN n ELSE IncFrameNumber(n)
              /\ ~Head(wire).idle => Head(wire).num = n
  BY CountTail DEF Unframe
<1>6. PICK d : /\ Numbered(Tail(wire), d) /\ d[Len(Tail(wire)) + 1] = sndFrameCount
               /\ Astray(rcvFrameCount, missing, n)
               /\ d[1] = IF f.idle THEN n ELSE IncFrameNumber(n)
               /\ ~f.idle => f.num = n
  BY <1>5
<1>7. Contents(f) \subseteq Nat
  BY <1>1, ContentsAreIds
<1> HIDE DEF f
<1>8. \/ /\ ~f.idle /\ missing' = missing + 1 /\ hurt' = hurt \cup Contents(f)
         /\ UNCHANGED <<rcvFrameCount, frameCountMisses, units, gaps>>
      \/ /\ f.idle
         /\ UNCHANGED <<rcvFrameCount, frameCountMisses, units, history>>
      \/ /\ ~f.idle /\ units' = Append(units, f.pdu)
         /\ rcvFrameCount' = IncFrameNumber(f.num)
         /\ frameCountMisses' = frameCountMisses + (IF f.num # rcvFrameCount THEN 1 ELSE 0)
         /\ missing' = 0
         /\ gaps' = gaps + (IF missing % (MaxVCFrameCount + 1) # 0 THEN 1 ELSE 0)
         /\ UNCHANGED hurt
  BY DEF Unframe, CountAfter, f
<1>9. rcvFrameCount \in Counts /\ missing \in Nat /\ frameCountMisses = gaps
  BY DEF CountedInv, TypeInv, LinkTypes, CountInv, MissesCounted, Counts
<1>10. CASE /\ ~f.idle /\ missing' = missing + 1 /\ hurt' = hurt \cup Contents(f)
            /\ UNCHANGED <<rcvFrameCount, frameCountMisses, units, gaps>>
  <2>0. hurt' \subseteq Nat /\ missing' \in Nat
    <3>1. hurt \subseteq Nat
      BY DEF CountedInv, TypeInv, LinkTypes
    <3>2. hurt' \subseteq Nat
      BY <1>7, <1>10, <3>1
    <3> QED
      BY <1>9, <1>10, <3>2
  <2>1. LinkTypes'
    BY <1>2, <1>3, <1>10, <2>0 DEF CountedInv, TypeInv, LinkTypes, WireTypes
  <2>2. Astray(rcvFrameCount', missing', d[1])
    BY <1>6, <1>9, <1>10, AstrayMore
  <2>3. MissesCounted'
    BY <1>9, <1>10 DEF MissesCounted
  <2>4. CountInv'
    BY <1>2, <1>6, <2>2, <2>3 DEF CountInv
  <2> QED
    BY <1>4, <2>1, <2>4 DEF CountedInv, TypeInv
<1>11. CASE /\ f.idle /\ UNCHANGED <<rcvFrameCount, frameCountMisses, units, history>>
  <2>1. LinkTypes'
    BY <1>2, <1>3, <1>11 DEF CountedInv, TypeInv, LinkTypes, WireTypes, history
  <2>2. CountInv'
    BY <1>2, <1>6, <1>9, <1>11 DEF CountInv, MissesCounted, history
  <2> QED
    BY <1>4, <2>1, <2>2 DEF CountedInv, TypeInv
<1>12. CASE /\ ~f.idle /\ units' = Append(units, f.pdu)
            /\ rcvFrameCount' = IncFrameNumber(f.num)
            /\ frameCountMisses' = frameCountMisses + (IF f.num # rcvFrameCount THEN 1 ELSE 0)
            /\ missing' = 0
            /\ gaps' = gaps + (IF missing % (MaxVCFrameCount + 1) # 0 THEN 1 ELSE 0)
            /\ UNCHANGED hurt
  <2>1. units' \in Seq(Pdu) /\ \A i \in 1..Len(units') : Complete(units'[i])
    <3>1. f.pdu \in Pdu /\ Complete(f.pdu)
      BY <1>1, <1>12 DEF TF
    <3>2. /\ Append(units, f.pdu) \in Seq(Pdu) /\ Len(Append(units, f.pdu)) = Len(units) + 1
          /\ \A i \in 1..Len(units) : Append(units, f.pdu)[i] = units[i]
          /\ Append(units, f.pdu)[Len(units) + 1] = f.pdu /\ Len(units) \in Nat
      BY <3>1, QueueAppend DEF CountedInv, TypeInv, LinkTypes
    <3>3. \A i \in 1..Len(units) + 1 : i \in 1..Len(units) \/ i = Len(units) + 1
      BY <3>2
    <3> QED
      BY <1>12, <3>1, <3>2, <3>3 DEF CountedInv, TypeInv, LinkTypes
  <2>2. f.num = n /\ IncFrameNumber(n) \in Counts
    BY <1>6, <1>12, CountRange
  <2>3. (missing % (MaxVCFrameCount + 1) = 0) <=> (n = rcvFrameCount)
    BY <1>6, <1>9, AstraySeen
  <2>4. frameCountMisses' = gaps' /\ frameCountMisses' \in Nat
    <3>1. frameCountMisses \in Nat /\ frameCountMisses = gaps
      BY <1>9 DEF CountedInv, TypeInv, LinkTypes
    <3>2. CASE n = rcvFrameCount
      BY <1>12, <2>2, <2>3, <3>1, <3>2
    <3>3. CASE n # rcvFrameCount
      BY <1>12, <2>2, <2>3, <3>1, <3>3
    <3> QED
      BY <3>2, <3>3
  <2>5. LinkTypes'
    BY <1>2, <1>3, <1>12, <2>1, <2>2, <2>4 DEF CountedInv, TypeInv, LinkTypes, WireTypes, Counts
  <2>6. d[1] = IncFrameNumber(n)
    BY <1>6, <1>12
  <2>7. Astray(rcvFrameCount', missing', d[1])
    BY <1>12, <2>2, <2>6, AstrayNone
  <2>8. CountInv'
    BY <1>2, <1>6, <2>4, <2>7 DEF CountInv, MissesCounted
  <2> QED
    BY <1>4, <2>5, <2>8 DEF CountedInv, TypeInv
<1> QED
  BY <1>8, <1>10, <1>11, <1>12

LEMMA RemoveCounted == CountedInv /\ Remove => CountedInv'
<1> SUFFICES ASSUME CountedInv, Remove PROVE CountedInv'
  OBVIOUS
<1>1. RemoveTypes' /\ units' \in Seq(Pdu) /\ \A i \in 1..Len(units') : Complete(units'[i])
  BY RemoveTypesStep DEF Remove, CountedInv, TypeInv
<1>2. AddTypes'
  BY AddTypesStep DEF Remove, CountedInv, TypeInv
<1>3. LinkTypes'
  BY <1>1 DEF Remove, CountedInv, TypeInv, LinkTypes, channelvars, history
<1>4. CountInv'
  BY DEF Remove, CountedInv, CountInv, MissesCounted, channelvars, history
<1> QED
  BY <1>1, <1>2, <1>3, <1>4 DEF CountedInv, TypeInv

LEMMA LoseCounted == CountedInv /\ Lose => CountedInv'
<1> SUFFICES ASSUME CountedInv, Lose PROVE CountedInv'
  OBVIOUS
<1> DEFINE f == Head(wire)
<1>1. /\ f \in TF /\ f = wire[1] /\ (~f.idle => Complete(f.pdu))
      /\ Tail(wire) \in Seq(TF)
      /\ \A i \in 1..Len(Tail(wire)) : ~Tail(wire)[i].idle => Complete(Tail(wire)[i].pdu)
  BY LinkWire, WireTail DEF Lose, CountedInv, TypeInv
<1>2. /\ wire' = Tail(wire) /\ ~f.idle /\ hits' = hits + 1 /\ hits < MaxHits
      /\ missing' = missing + 1 /\ hurt' = hurt \cup Contents(f)
      /\ UNCHANGED <<addvars, frameSize, dropBadFrames, sndFrameCount, rcvFrameCount,
                     frameCountMisses, units, removeonly, gaps>>
  BY DEF Lose, Unhurt, CanHit
<1>3. WireTypes'
  BY <1>1, <1>2 DEF WireTypes
<1>4. AddTypes' /\ RemoveTypes'
  BY <1>2, AddTypesStep DEF CountedInv, TypeInv, RemoveTypes, removeonly
<1>5. PICK n \in Counts : \E d :
              /\ Numbered(Tail(wire), d) /\ d[Len(Tail(wire)) + 1] = sndFrameCount
              /\ Astray(rcvFrameCount, missing, n)
              /\ d[1] = IF Head(wire).idle THEN n ELSE IncFrameNumber(n)
              /\ ~Head(wire).idle => Head(wire).num = n
  BY CountTail DEF Lose
<1>6. PICK d : /\ Numbered(Tail(wire), d) /\ d[Len(Tail(wire)) + 1] = sndFrameCount
               /\ Astray(rcvFrameCount, missing, n)
               /\ d[1] = IF f.idle THEN n ELSE IncFrameNumber(n)
  BY <1>5
<1>7. Contents(f) \subseteq Nat
  BY <1>1, ContentsAreIds
<1> HIDE DEF f
<1>8. LinkTypes'
  <2>1. hits' \in 0..MaxHits
    BY <1>2, LinkAssumption DEF CountedInv, TypeInv, LinkTypes
  <2>2. hurt' \subseteq Nat /\ missing' \in Nat
    <3>1. hurt \subseteq Nat /\ missing \in Nat
      BY DEF CountedInv, TypeInv, LinkTypes
    <3>2. hurt' \subseteq Nat
      BY <1>2, <1>7, <3>1
    <3>3. missing' \in Nat
      BY <1>2, <3>1
    <3> QED
      BY <3>2, <3>3
  <2> QED
    BY <1>2, <1>3, <2>1, <2>2 DEF CountedInv, TypeInv, LinkTypes, WireTypes
<1>9. rcvFrameCount \in Counts /\ missing \in Nat /\ frameCountMisses = gaps
  BY DEF CountedInv, TypeInv, LinkTypes, CountInv, MissesCounted, Counts
<1>10. Astray(rcvFrameCount', missing', d[1])
  BY <1>2, <1>6, <1>9, AstrayMore
<1>11. CountInv'
  BY <1>2, <1>6, <1>9, <1>10 DEF CountInv, MissesCounted
<1> QED
  BY <1>4, <1>8, <1>11 DEF CountedInv, TypeInv

LEMMA SpoilCounted == CountedInv /\ Spoil => CountedInv'
<1> SUFFICES ASSUME CountedInv, Spoil PROVE CountedInv'
  OBVIOUS
<1>1. /\ wire' = [wire EXCEPT ![1].ok = FALSE] /\ hits' = hits + 1 /\ hits < MaxHits
      /\ UNCHANGED <<missing, hurt>>
      /\ UNCHANGED <<addvars, frameSize, dropBadFrames, sndFrameCount, rcvFrameCount,
                     frameCountMisses, units, removeonly, gaps>>
  BY DEF Spoil, Unhurt, CanHit
<1>2. wire \in Seq(TF) /\ wire # <<>>
  BY DEF Spoil, CountedInv, TypeInv, LinkTypes
<1>3. /\ wire' \in Seq(TF) /\ Len(wire') = Len(wire)
      /\ \A i \in 1..Len(wire) : /\ wire'[i].num = wire[i].num /\ wire'[i].idle = wire[i].idle
                                 /\ wire'[i].pdu = wire[i].pdu
  <2>1. 1 \in 1..Len(wire) /\ wire[1] \in TF /\ Len(wire) \in Nat
    BY <1>2
  <2> DEFINE g == [wire[1] EXCEPT !.ok = FALSE]
  <2>2. g \in TF /\ g.num = wire[1].num /\ g.idle = wire[1].idle /\ g.pdu = wire[1].pdu
    BY <2>1 DEF TF
  <2> HIDE DEF g
  <2>3. wire' = [wire EXCEPT ![1] = g]
    BY <1>1 DEF g
  <2>4. [wire EXCEPT ![1] = g] \in Seq(TF) /\ Len([wire EXCEPT ![1] = g]) = Len(wire)
    BY <1>2, <2>1, <2>2
  <2>5. \A i \in 1..Len(wire) : [wire EXCEPT ![1] = g][i] = IF i = 1 THEN g ELSE wire[i]
    BY <1>2, <2>1
  <2> QED
    BY <2>2, <2>3, <2>4, <2>5
<1>4. AddTypes' /\ RemoveTypes'
  BY <1>1, AddTypesStep DEF CountedInv, TypeInv, RemoveTypes, removeonly
<1>5. LinkTypes'
  <2>1. hits' \in 0..MaxHits
    BY <1>1, LinkAssumption DEF CountedInv, TypeInv, LinkTypes
  <2> QED
    BY <1>1, <1>3, <2>1 DEF CountedInv, TypeInv, LinkTypes
<1>6. ASSUME NEW c, Numbered(wire, c) PROVE Numbered(wire', c)
  BY <1>3, <1>6 DEF Numbered
<1>7. CountInv'
  BY <1>1, <1>3, <1>6 DEF CountedInv, CountInv, MissesCounted
<1> QED
  BY <1>4, <1>5, <1>7 DEF CountedInv, TypeInv

LEMMA InsertIdleCounted == CountedInv /\ InsertIdle => CountedInv'
<1> SUFFICES ASSUME CountedInv, InsertIdle PROVE CountedInv'
  OBVIOUS
<1> DEFINE p == [cap |-> frameSize, fhi |-> 0, data |-> <<>>]
           f == [num |-> 0, ok |-> TRUE, idle |-> TRUE, pdu |-> p]
<1>1. /\ wire' = Append(wire, f) /\ hits' = hits + 1 /\ hits < MaxHits
      /\ UNCHANGED <<missing, hurt>>
      /\ UNCHANGED <<addvars, frameSize, dropBadFrames, sndFrameCount, rcvFrameCount,
                     frameCountMisses, units, removeonly, gaps>>
  BY DEF InsertIdle, Unhurt, CanHit
<1>2. f \in TF /\ f.idle = TRUE
  <2>1. p \in Pdu
    <3>1. 0 \in Pointer /\ <<>> \in Seq(Octet)
      BY DEF Pointer
    <3> QED
      BY <3>1 DEF Pdu, CountedInv, TypeInv, LinkTypes
  <2>2. 0 \in 0..MaxVCFrameCount
    BY CountRange
  <2> HIDE DEF p
  <2> QED
    BY <2>1, <2>2 DEF TF
<1> HIDE DEF f
<1>3. WireTypes'
  BY <1>1, <1>2, LinkWire, WireAppend DEF CountedInv, TypeInv
<1>4. AddTypes' /\ RemoveTypes'
  BY <1>1, AddTypesStep DEF CountedInv, TypeInv, RemoveTypes, removeonly
<1>5. LinkTypes'
  <2>1. hits' \in 0..MaxHits
    BY <1>1, LinkAssumption DEF CountedInv, TypeInv, LinkTypes
  <2> QED
    BY <1>1, <1>3, <2>1 DEF CountedInv, TypeInv, LinkTypes, WireTypes
<1>6. PICK c : /\ Numbered(wire, c) /\ c[Len(wire) + 1] = sndFrameCount
               /\ Astray(rcvFrameCount, missing, c[1])
  BY DEF CountedInv, CountInv
<1>7. wire \in Seq(TF)
  BY DEF CountedInv, TypeInv, LinkTypes
<1>8. PICK d : /\ Numbered(Append(wire, f), d) /\ d[1] = c[1]
               /\ d[Len(Append(wire, f)) + 1] = c[Len(wire) + 1]
  BY <1>2, <1>6, <1>7, NumberedAppend
<1>9. /\ Numbered(wire', d) /\ d[Len(wire') + 1] = sndFrameCount'
      /\ Astray(rcvFrameCount', missing', d[1])
  BY <1>1, <1>6, <1>8
<1>10. MissesCounted'
  BY <1>1 DEF CountedInv, CountInv, MissesCounted
<1> QED
  BY <1>4, <1>5, <1>9, <1>10 DEF CountedInv, TypeInv, CountInv

LEMMA InitCounted == Init => CountedInv
<1> SUFFICES ASSUME Init PROVE CountedInv
  OBVIOUS
<1>1. AddTypes
  <2>1. /\ msg_queue = <<>> /\ sent = <<>> /\ netdata = <<>> /\ mpdu_list = <<>> /\ mpdus = <<>>
        /\ phase = "get" /\ mpdu = NoPdu /\ netdataIdx = 0 /\ sizings = 0
        /\ zone \in Lengths /\ length \in Lengths
    BY DEF Init, AddInit
  <2>2. 0 \in 0..MaxSizings
    BY AddAssumption
  <2>3. AddTypeOK
    <3>1. multi \in BOOLEAN /\ immediate \in BOOLEAN /\ firstHeaderIndexSet \in BOOLEAN /\ thrown \in BOOLEAN
      BY DEF Init, AddInit
    <3>2. /\ msg_queue \in Seq(Seq(Octet)) /\ sent \in Seq(Packet) /\ netdata \in Seq(Octet)
          /\ mpdu_list \in Seq(Pdu) /\ mpdus \in Seq(Pdu)
      BY <2>1
    <3> QED
      BY <2>1, <2>2, <3>1, <3>2 DEF AddTypeOK
  <2> QED
    BY <2>1, <2>3 DEF AddTypes
<1>2. LinkTypes /\ wire = <<>>
  <2>1. 0 \in 0..MaxVCFrameCount /\ 0 \in 0..MaxHits
    BY CountRange, LinkAssumption
  <2>2. wire = <<>> /\ units = <<>> /\ hurt = {} /\ missing = 0 /\ gaps = 0 /\ hits = 0
    BY DEF Init, R!RemoveInit
  <2>3. frameSize \in Lengths
    BY DEF Init, AddInit
  <2>4. dropBadFrames \in BOOLEAN
    BY DEF Init
  <2>5. sndFrameCount = 0 /\ rcvFrameCount = 0 /\ frameCountMisses = 0
    BY DEF Init
  <2>6. wire \in Seq(TF) /\ units \in Seq(Pdu) /\ Len(wire) = 0 /\ Len(units) = 0
    BY <2>2
  <2>7. hits \in 0..MaxHits /\ missing \in Nat /\ gaps \in Nat /\ hurt \subseteq Nat
    BY <2>1, <2>2
  <2>8. {sndFrameCount, rcvFrameCount} \subseteq 0..MaxVCFrameCount /\ frameCountMisses \in Nat
    BY <2>1, <2>5
  <2> QED
    BY <2>2, <2>3, <2>4, <2>6, <2>7, <2>8 DEF LinkTypes
<1>3. RemoveTypes
  <2>1. m_pdu = NoPdu /\ idx = 0 /\ encap = NoPacket /\ delivered = <<>> /\ aborted = FALSE
    BY DEF Init, R!RemoveInit
  <2>2. 0 \in 0..DataFieldLen - 1
    BY FieldLen
  <2>3. delivered \in Seq(Seq(Octet))
    BY <2>1
  <2> QED
    BY <2>1, <2>2, <2>3 DEF RemoveTypes
<1>4. CountInv
  <2> DEFINE c == [i \in 1..Len(wire) + 1 |-> 0]
  <2>1. Len(wire) = 0 /\ 0 \in Counts
    BY <1>2, CountRange DEF Counts
  <2>2. Numbered(wire, c) /\ c[Len(wire) + 1] = 0 /\ c[1] = 0
    BY <2>1 DEF Numbered
  <2>3. sndFrameCount = 0 /\ rcvFrameCount = 0 /\ missing = 0 /\ frameCountMisses = gaps
    BY DEF Init
  <2>4. Astray(rcvFrameCount, missing, c[1])
    BY <2>1, <2>2, <2>3, AstrayNone
  <2> HIDE DEF c
  <2> QED
    BY <2>2, <2>3, <2>4 DEF CountInv, MissesCounted
<1> QED
  BY <1>1, <1>2, <1>3, <1>4 DEF CountedInv, TypeInv

LEMMA CountedStep == CountedInv /\ [Next]_vars => CountedInv'
<1>1. CountedInv /\ UNCHANGED vars => CountedInv'
  <2> SUFFICES ASSUME CountedInv, UNCHANGED vars PROVE CountedInv'
    OBVIOUS
  <2>1. AddTypes'
    BY AddTypesStep DEF vars, CountedInv, TypeInv
  <2>2. LinkTypes' /\ RemoveTypes'
    BY DEF vars, CountedInv, TypeInv, LinkTypes, RemoveTypes, channelvars, removeonly, history
  <2>3. CountInv'
    BY DEF vars, CountedInv, CountInv, MissesCounted, channelvars, history
  <2> QED
    BY <2>1, <2>2, <2>3 DEF CountedInv, TypeInv
<1> QED
  BY <1>1, AddCounted, SetFrameSizeCounted, FrameUpCounted, UnframeCounted, RemoveCounted,
     LoseCounted, SpoilCounted, InsertIdleCounted DEF Next

\* The link keeps to its types, and the receiver counts a miss for every gap in the frames it
\* could see, and for nothing else, whatever is lost, spoilt, put in between or resized
\* (modAOS_VC_Rcv.cpp:101-113).
THEOREM GapsCounted == Spec => []WellCounted
<1>1. CountedInv => WellCounted
  <2> SUFFICES ASSUME CountedInv PROVE WellCounted
    OBVIOUS
  <2>1. TypeOK
    BY DEF CountedInv, TypeInv, AddTypes, LinkTypes, RemoveTypes, TypeOK
  <2> QED
    BY <2>1 DEF CountedInv, CountInv, WellCounted
<1> QED
  BY <1>1, InitCounted, CountedStep, PTL DEF Spec

-----------------------------------------------------------------------------
(* Where the octets are: from the source to the packets delivered, each in *)
(* one place, and all in the order they were sent in.                      *)

\* A packet's header is part of it, and in the M_PDU it starts in or the next one.
HeadersFit == \A s \in Shapes : s.hdr <= s.len /\ \A n \in Lengths : s.hdr <= n + 1

FillOctet == [pkt |-> FillPacket, k |-> 0]

\* The octets of the packets s.
Own(s, o) == o \in Octet /\ o.pkt.id \in 1..Len(s) /\ s[o.pkt.id] = o.pkt /\ o.k < o.pkt.len

\* The order octets are sent in.
Before(x, y) == x.pkt.id < y.pkt.id \/ (x.pkt.id = y.pkt.id /\ x.k < y.k)
AllBefore(S, T) == \A x \in S : \A y \in T : Before(x, y)

\* What d holds of packets from position i on; what a queue q does, and whether in order.
From(d, i) == {d[j] : j \in i..Len(d)} \ {FillOctet}
OfAll(q) == UNION {From(q[i], 1) : i \in 1..Len(q)}
Ascends(q) == \A i, j \in 1..Len(q) : i < j => AllBefore(From(q[i], 1), From(q[j], 1))
Datas(q) == [i \in 1..Len(q) |-> q[i].data]
Pdus(w)  == [i \in 1..Len(w) |-> w[i].pdu]

PartsHeld == IF encap = NoPacket THEN {} ELSE From(encap, 1)
Ahead     == IF m_pdu = NoPdu THEN {} ELSE From(m_pdu.data, idx + 1)
Filling   == IF mpdu = NoPdu THEN {} ELSE From(mpdu.data, 1)

\* The places an octet goes through, the last one first.
Places == << OfAll(delivered), PartsHeld, Ahead, OfAll(Datas(units)),
             OfAll(Datas(Pdus(wire))), OfAll(Datas(mpdus)), OfAll(Datas(mpdu_list)),
             Filling, From(netdata, netdataIdx + 1), OfAll(msg_queue) >>
InOrder(P) == \A s \in 1..10 : \A t \in 1..10 : s < t => AllBefore(P[s], P[t])
InHand(P) == UNION {P[s] : s \in 2..10}

QueuesInOrder ==
    /\ Ascends(Datas(units)) /\ Ascends(Datas(Pdus(wire))) /\ Ascends(Datas(mpdus))
    /\ Ascends(Datas(mpdu_list)) /\ Ascends(msg_queue)

\* From each octet a packet goes on to its end, and then another one, or fill, starts.
Runs(d) == \A i \in 1..Len(d) : \A j \in i + 1..Len(d) :
    /\ d[i].k + (j - i) < d[i].pkt.len => d[j] = [pkt |-> d[i].pkt, k |-> d[i].k + (j - i)]
    /\ d[i].k + (j - i) = d[i].pkt.len => d[j].k = 0
Rises(d) == \A i \in 1..Len(d) : \A j \in i + 1..Len(d) :
    d[j] = FillOctet \/ (d[i] # FillOctet /\ Before(d[i], d[j]))
\* With one packet to a zone there is only fill behind its end.
Single(d) == \A i \in 1..Len(d) : d[i].k + 1 = d[i].pkt.len =>
    \A j \in i + 1..Len(d) : d[j] = FillOctet
Laid(s, m, d) ==
    /\ d \in Seq(Octet) /\ \A i \in 1..Len(d) : Own(s, d[i]) \/ d[i] = FillOctet
    /\ Runs(d) /\ Rises(d) /\ (m = FALSE => Single(d))
\* Every packet in d ends in it, and there is no fill.
Closed(d) == \A i \in 1..Len(d) :
    d[i] # FillOctet /\ d[i].pkt.len - d[i].k <= Len(d) - i + 1

NoStart(d, n) == \A i \in 1..n : d[i].k # 0
Points(d, h) == h < Len(d) /\ d[h + 1].k = 0 /\ NoStart(d, h)
\* An M_PDU of n octets that was filled; fill is never all there is.
Whole(s, m, n, g) ==
    /\ g \in Pdu /\ g.cap = n /\ Len(g.data) = n /\ Laid(s, m, g.data)
    /\ g.data[1] # FillOctet
    /\ IF g.fhi = NoPacketStart THEN NoStart(g.data, Len(g.data)) ELSE Points(g.data, g.fhi)

-----------------------------------------------------------------------------
LEMMA PlaceIs ==
    /\ Places[1] = OfAll(delivered) /\ Places[2] = PartsHeld /\ Places[3] = Ahead
    /\ Places[4] = OfAll(Datas(units)) /\ Places[5] = OfAll(Datas(Pdus(wire)))
    /\ Places[6] = OfAll(Datas(mpdus)) /\ Places[7] = OfAll(Datas(mpdu_list))
    /\ Places[8] = Filling /\ Places[9] = From(netdata, netdataIdx + 1)
    /\ Places[10] = OfAll(msg_queue)
  BY DEF Places

LEMMA PlaceIsNext ==
    /\ Places'[1] = OfAll(delivered)' /\ Places'[2] = PartsHeld' /\ Places'[3] = Ahead'
    /\ Places'[4] = OfAll(Datas(units))' /\ Places'[5] = OfAll(Datas(Pdus(wire)))'
    /\ Places'[6] = OfAll(Datas(mpdus))' /\ Places'[7] = OfAll(Datas(mpdu_list))'
    /\ Places'[8] = Filling' /\ Places'[9] = From(netdata, netdataIdx + 1)'
    /\ Places'[10] = OfAll(msg_queue)'
  BY DEF Places

\* When some of what is in one place goes to an earlier one, what stays comes after it.
LEMMA MovesDown ==
    ASSUME NEW P, NEW Q, NEW A, NEW lo \in 1..10, NEW hi \in 1..10, lo < hi, InOrder(P),
           \A s \in 1..10 : s # lo => Q[s] \subseteq P[s],
           \A s \in 1..10 : lo < s /\ s < hi => Q[s] = {},
           \A x \in Q[lo] : x \in P[lo] \/ x \in A,
           \A x \in A : x \in P[hi] /\ \A y \in Q[hi] : Before(x, y)
    PROVE  InOrder(Q)
<1> SUFFICES ASSUME NEW s \in 1..10, NEW t \in 1..10, s < t, NEW x \in Q[s], NEW y \in Q[t]
             PROVE  Before(x, y)
  BY DEF InOrder, AllBefore
<1>1. \A a \in 1..10, b \in 1..10 : a < b /\ x \in P[a] /\ y \in P[b] => Before(x, y)
  BY DEF InOrder, AllBefore
<1>2. CASE s # lo /\ t # lo
  <2>1. x \in P[s] /\ y \in P[t]
    BY <1>2
  <2> QED
    BY <1>1, <2>1
<1>3. CASE s = lo
  <2>1. y \in P[t] /\ t # lo
    BY <1>3
  <2>2. CASE x \in P[lo]
    BY <1>1, <1>3, <2>1, <2>2
  <2>3. CASE x \in A
    <3>1. x \in P[hi]
      BY <2>3
    <3>2. CASE t < hi
      BY <1>3, <3>2, <2>1
    <3>3. CASE t = hi
      BY <2>3, <3>3
    <3>4. CASE t > hi
      BY <1>1, <2>1, <3>1, <3>4
    <3> QED
      BY <3>2, <3>3, <3>4
  <2> QED
    BY <1>3, <2>2, <2>3
<1>4. CASE t = lo
  <2>1. x \in P[s] /\ s # lo
    BY <1>4
  <2>2. CASE y \in P[lo]
    BY <1>1, <1>4, <2>1, <2>2
  <2>3. CASE y \in A
    <3>1. y \in P[hi] /\ s < hi
      BY <2>3, <1>4
    <3> QED
      BY <1>1, <2>1, <3>1
  <2> QED
    BY <1>4, <2>2, <2>3
<1> QED
  BY <1>2, <1>3, <1>4

\* What goes away leaves the rest in order.
LEMMA FewerInOrder ==
    ASSUME NEW P, NEW Q, InOrder(P), \A s \in 1..10 : Q[s] \subseteq P[s]
    PROVE  InOrder(Q)
  BY DEF InOrder, AllBefore

-----------------------------------------------------------------------------
\* The octets of queues.
LEMMA OfEmpty == OfAll(<<>>) = {} /\ Ascends(<<>>)
<1>1. Len(<<>>) = 0 /\ 1..0 = {}
  OBVIOUS
<1> QED
  BY <1>1 DEF OfAll, Ascends

LEMMA OfNone ==
    ASSUME NEW q, Len(q) = 0
    PROVE  OfAll(q) = {} /\ Ascends(q)
<1>1. 1..Len(q) = {}
  OBVIOUS
<1> QED
  BY <1>1 DEF OfAll, Ascends

LEMMA OfMember ==
    ASSUME NEW q, NEW x
    PROVE  x \in OfAll(q) <=> \E i \in 1..Len(q) : x \in From(q[i], 1)
  BY DEF OfAll

LEMMA OfTail ==
    ASSUME NEW q, NEW r, Len(q) \in Nat \ {0}, Len(r) = Len(q) - 1,
           \A i \in 1..Len(r) : r[i] = q[i + 1]
    PROVE  /\ OfAll(q) = From(q[1], 1) \cup OfAll(r)
           /\ Ascends(q) => Ascends(r) /\ AllBefore(From(q[1], 1), OfAll(r))
<1>1. ASSUME NEW x, x \in OfAll(q)
      PROVE  x \in From(q[1], 1) \cup OfAll(r)
  <2>1. PICK i \in 1..Len(q) : x \in From(q[i], 1)
    BY <1>1, OfMember
  <2>2. CASE i = 1
    BY <2>1, <2>2
  <2>3. CASE i # 1
    <3>1. i - 1 \in 1..Len(r) /\ r[i - 1] = q[i]
      BY <2>3
    <3> QED
      BY <2>1, <3>1, OfMember
  <2> QED
    BY <2>2, <2>3
<1>2. ASSUME NEW x, x \in OfAll(r)
      PROVE  x \in OfAll(q)
  <2>1. PICK i \in 1..Len(r) : x \in From(r[i], 1)
    BY <1>2, OfMember
  <2>2. i + 1 \in 1..Len(q) /\ r[i] = q[i + 1]
    OBVIOUS
  <2> QED
    BY <2>1, <2>2, OfMember
<1>3. From(q[1], 1) \subseteq OfAll(q)
  <2>1. 1 \in 1..Len(q)
    OBVIOUS
  <2> QED
    BY <2>1, OfMember
<1>4. ASSUME Ascends(q) PROVE Ascends(r)
  <2> SUFFICES ASSUME NEW i \in 1..Len(r), NEW j \in 1..Len(r), i < j
               PROVE  AllBefore(From(r[i], 1), From(r[j], 1))
    BY DEF Ascends
  <2>1. i + 1 \in 1..Len(q) /\ j + 1 \in 1..Len(q) /\ i + 1 < j + 1
    OBVIOUS
  <2>2. AllBefore(From(q[i + 1], 1), From(q[j + 1], 1))
    BY <1>4, <2>1 DEF Ascends
  <2> QED
    BY <2>2
<1>5. ASSUME Ascends(q) PROVE AllBefore(From(q[1], 1), OfAll(r))
  <2> SUFFICES ASSUME NEW x \in From(q[1], 1), NEW y \in OfAll(r)
               PROVE  Before(x, y)
    BY DEF AllBefore
  <2>1. PICK i \in 1..Len(r) : y \in From(r[i], 1)
    BY OfMember
  <2>2. i + 1 \in 1..Len(q) /\ 1 \in 1..Len(q) /\ 1 < i + 1 /\ r[i] = q[i + 1]
    OBVIOUS
  <2>3. AllBefore(From(q[1], 1), From(q[i + 1], 1))
    BY <1>5, <2>2 DEF Ascends
  <2> QED
    BY <2>1, <2>2, <2>3 DEF AllBefore
<1> QED
  BY <1>1, <1>2, <1>3, <1>4, <1>5

LEMMA OfAppend ==
    ASSUME NEW q, NEW r, Len(q) \in Nat, Len(r) = Len(q) + 1,
           \A i \in 1..Len(q) : r[i] = q[i]
    PROVE  /\ OfAll(r) = OfAll(q) \cup From(r[Len(r)], 1)
           /\ Ascends(q) /\ AllBefore(OfAll(q), From(r[Len(r)], 1)) => Ascends(r)
<1> DEFINE e == r[Len(r)]
<1>1. ASSUME NEW x, x \in OfAll(r)
      PROVE  x \in OfAll(q) \cup From(e, 1)
  <2>1. PICK i \in 1..Len(r) : x \in From(r[i], 1)
    BY <1>1, OfMember
  <2>2. CASE i = Len(r)
    BY <2>1, <2>2
  <2>3. CASE i # Len(r)
    <3>1. i \in 1..Len(q) /\ r[i] = q[i]
      BY <2>3
    <3> QED
      BY <2>1, <3>1, OfMember
  <2> QED
    BY <2>2, <2>3
<1>2. ASSUME NEW x, x \in OfAll(q) PROVE x \in OfAll(r)
  <2>1. PICK i \in 1..Len(q) : x \in From(q[i], 1)
    BY <1>2, OfMember
  <2>2. i \in 1..Len(r) /\ r[i] = q[i]
    OBVIOUS
  <2> QED
    BY <2>1, <2>2, OfMember
<1>3. From(e, 1) \subseteq OfAll(r)
  <2>1. Len(r) \in 1..Len(r)
    OBVIOUS
  <2> QED
    BY <2>1, OfMember
<1>4. ASSUME Ascends(q), AllBefore(OfAll(q), From(e, 1)) PROVE Ascends(r)
  <2> SUFFICES ASSUME NEW i \in 1..Len(r), NEW j \in 1..Len(r), i < j
               PROVE  AllBefore(From(r[i], 1), From(r[j], 1))
    BY DEF Ascends
  <2>1. i \in 1..Len(q) /\ r[i] = q[i]
    OBVIOUS
  <2>2. CASE j = Len(r)
    <3>1. From(q[i], 1) \subseteq OfAll(q)
      BY <2>1, OfMember
    <3> QED
      BY <1>4, <2>1, <2>2, <3>1 DEF AllBefore
  <2>3. CASE j # Len(r)
    <3>1. j \in 1..Len(q) /\ r[j] = q[j]
      BY <2>3
    <3>2. AllBefore(From(q[i], 1), From(q[j], 1))
      BY <1>4, <2>1, <3>1 DEF Ascends
    <3> QED
      BY <2>1, <3>1, <3>2
  <2> QED
    BY <2>2, <2>3
<1> QED
  BY <1>1, <1>2, <1>3, <1>4

LEMMA DatasIs ==
    ASSUME NEW q \in Seq(Pdu)
    PROVE  Len(Datas(q)) = Len(q) /\ Len(q) \in Nat /\ \A i \in 1..Len(q) : Datas(q)[i] = q[i].data
<1>1. Len(q) \in Nat /\ \A i \in 1..Len(q) : q[i].data \in Seq(Octet)
  BY PduFields
<1>2. Datas(q) \in [1..Len(q) -> Seq(Octet)]
  BY <1>1 DEF Datas
<1>3. Len(Datas(q)) = Len(q)
  BY <1>1, <1>2, FunctionIsSeq
<1> QED
  BY <1>1, <1>3 DEF Datas

LEMMA DatasTail ==
    ASSUME NEW q \in Seq(Pdu), q # <<>>
    PROVE  /\ OfAll(Datas(q)) = From(q[1].data, 1) \cup OfAll(Datas(Tail(q)))
           /\ Ascends(Datas(q)) => /\ Ascends(Datas(Tail(q)))
                                   /\ AllBefore(From(q[1].data, 1), OfAll(Datas(Tail(q))))
<1>1. /\ Tail(q) \in Seq(Pdu) /\ Len(q) \in Nat \ {0} /\ Len(Tail(q)) = Len(q) - 1
      /\ \A i \in 1..Len(q) - 1 : Tail(q)[i] = q[i + 1]
  BY QueueTail
<1> DEFINE a == Datas(q)
           b == Datas(Tail(q))
<1>2. /\ Len(a) = Len(q) /\ \A i \in 1..Len(q) : a[i] = q[i].data
      /\ Len(b) = Len(q) - 1 /\ \A i \in 1..Len(q) - 1 : b[i] = Tail(q)[i].data
  BY <1>1, DatasIs
<1>3. \A i \in 1..Len(b) : b[i] = a[i + 1]
  <2> SUFFICES ASSUME NEW i \in 1..Len(b) PROVE b[i] = a[i + 1]
    OBVIOUS
  <2>1. i \in 1..Len(q) - 1 /\ i + 1 \in 1..Len(q)
    BY <1>1, <1>2
  <2> QED
    BY <1>1, <1>2, <2>1
<1>4. a[1] = q[1].data
  BY <1>1, <1>2
<1> HIDE DEF a, b
<1> QED
  BY <1>1, <1>2, <1>3, <1>4, OfTail DEF a, b

LEMMA DatasAppend ==
    ASSUME NEW q \in Seq(Pdu), NEW g \in Pdu
    PROVE  /\ OfAll(Datas(Append(q, g))) = OfAll(Datas(q)) \cup From(g.data, 1)
           /\ Ascends(Datas(q)) /\ AllBefore(OfAll(Datas(q)), From(g.data, 1))
                => Ascends(Datas(Append(q, g)))
<1>1. /\ Append(q, g) \in Seq(Pdu) /\ Len(Append(q, g)) = Len(q) + 1
      /\ \A i \in 1..Len(q) : Append(q, g)[i] = q[i]
      /\ Append(q, g)[Len(q) + 1] = g
  BY QueueAppend
<1> DEFINE a == Datas(q)
           b == Datas(Append(q, g))
<1>2. /\ Len(a) = Len(q) /\ Len(q) \in Nat /\ \A i \in 1..Len(q) : a[i] = q[i].data
      /\ Len(b) = Len(q) + 1 /\ \A i \in 1..Len(q) + 1 : b[i] = Append(q, g)[i].data
  BY <1>1, DatasIs
<1>3. \A i \in 1..Len(a) : b[i] = a[i]
  BY <1>1, <1>2
<1>4. b[Len(b)] = g.data
  BY <1>1, <1>2
<1> HIDE DEF a, b
<1> QED
  BY <1>2, <1>3, <1>4, OfAppend DEF a, b

LEMMA PdusIs ==
    ASSUME NEW w \in Seq(TF)
    PROVE  /\ Pdus(w) \in Seq(Pdu) /\ Len(Pdus(w)) = Len(w) /\ Len(w) \in Nat
           /\ \A i \in 1..Len(w) : Pdus(w)[i] = w[i].pdu
<1>0. Len(w) \in Nat /\ \A i \in 1..Len(w) : w[i] \in TF
  OBVIOUS
<1>1. Len(w) \in Nat /\ \A i \in 1..Len(w) : w[i].pdu \in Pdu
  BY <1>0 DEF TF
<1>2. Pdus(w) \in [1..Len(w) -> Pdu]
  BY <1>1 DEF Pdus
<1>3. Pdus(w) \in Seq(Pdu) /\ Len(Pdus(w)) = Len(w)
  BY <1>1, <1>2, FunctionIsSeq
<1> QED
  BY <1>1, <1>3 DEF Pdus

LEMMA WireDatas ==
    ASSUME NEW w \in Seq(TF)
    PROVE  /\ Len(Datas(Pdus(w))) = Len(w) /\ Len(w) \in Nat
           /\ \A i \in 1..Len(w) : Datas(Pdus(w))[i] = w[i].pdu.data
  BY PdusIs, DatasIs

LEMMA WireDatasTail ==
    ASSUME NEW w \in Seq(TF), w # <<>>
    PROVE  /\ OfAll(Datas(Pdus(w))) = From(w[1].pdu.data, 1) \cup OfAll(Datas(Pdus(Tail(w))))
           /\ Ascends(Datas(Pdus(w))) =>
                 /\ Ascends(Datas(Pdus(Tail(w))))
                 /\ AllBefore(From(w[1].pdu.data, 1), OfAll(Datas(Pdus(Tail(w)))))
<1>1. /\ Tail(w) \in Seq(TF) /\ Len(w) \in Nat \ {0} /\ Len(Tail(w)) = Len(w) - 1
      /\ \A i \in 1..Len(w) - 1 : Tail(w)[i] = w[i + 1]
  BY QueueTail
<1> DEFINE a == Datas(Pdus(w))
           b == Datas(Pdus(Tail(w)))
<1>2. /\ Len(a) = Len(w) /\ \A i \in 1..Len(w) : a[i] = w[i].pdu.data
      /\ Len(b) = Len(w) - 1 /\ \A i \in 1..Len(w) - 1 : b[i] = Tail(w)[i].pdu.data
  BY <1>1, WireDatas
<1>3. \A i \in 1..Len(b) : b[i] = a[i + 1]
  <2> SUFFICES ASSUME NEW i \in 1..Len(b) PROVE b[i] = a[i + 1]
    OBVIOUS
  <2>1. i \in 1..Len(w) - 1 /\ i + 1 \in 1..Len(w)
    BY <1>1, <1>2
  <2> QED
    BY <1>1, <1>2, <2>1
<1>4. a[1] = w[1].pdu.data
  BY <1>1, <1>2
<1> HIDE DEF a, b
<1> QED
  BY <1>1, <1>2, <1>3, <1>4, OfTail DEF a, b

LEMMA WireDatasAppend ==
    ASSUME NEW w \in Seq(TF), NEW f \in TF
    PROVE  /\ OfAll(Datas(Pdus(Append(w, f)))) = OfAll(Datas(Pdus(w))) \cup From(f.pdu.data, 1)
           /\ Ascends(Datas(Pdus(w))) /\ AllBefore(OfAll(Datas(Pdus(w))), From(f.pdu.data, 1))
                => Ascends(Datas(Pdus(Append(w, f))))
<1>1. /\ Append(w, f) \in Seq(TF) /\ Len(Append(w, f)) = Len(w) + 1
      /\ \A i \in 1..Len(w) : Append(w, f)[i] = w[i]
      /\ Append(w, f)[Len(w) + 1] = f
  BY QueueAppend
<1> DEFINE a == Datas(Pdus(w))
           b == Datas(Pdus(Append(w, f)))
<1>2. /\ Len(a) = Len(w) /\ Len(w) \in Nat /\ \A i \in 1..Len(w) : a[i] = w[i].pdu.data
      /\ Len(b) = Len(w) + 1 /\ \A i \in 1..Len(w) + 1 : b[i] = Append(w, f)[i].pdu.data
  BY <1>1, WireDatas
<1>3. \A i \in 1..Len(a) : b[i] = a[i]
  BY <1>1, <1>2
<1>4. b[Len(b)] = f.pdu.data
  BY <1>1, <1>2
<1> HIDE DEF a, b
<1> QED
  BY <1>2, <1>3, <1>4, OfAppend DEF a, b

\* A queue whose elements hold the same octets is in the same order.
LEMMA SameDatas ==
    ASSUME NEW v, NEW w, v \in Seq(TF), w \in Seq(TF), Len(v) = Len(w),
           \A i \in 1..Len(v) : v[i].pdu = w[i].pdu
    PROVE  /\ OfAll(Datas(Pdus(v))) = OfAll(Datas(Pdus(w)))
           /\ Ascends(Datas(Pdus(v))) <=> Ascends(Datas(Pdus(w)))
<1>1. \A i \in 1..Len(v) : v[i].pdu.data = w[i].pdu.data
  OBVIOUS
<1>2. /\ Len(Datas(Pdus(v))) = Len(v) /\ Len(Datas(Pdus(w))) = Len(v)
      /\ \A i \in 1..Len(v) : Datas(Pdus(v))[i] = Datas(Pdus(w))[i]
  BY <1>1, WireDatas
<1> DEFINE a == Datas(Pdus(v))
           b == Datas(Pdus(w))
<1> HIDE DEF a, b
<1>3. Len(a) = Len(b) /\ \A i \in 1..Len(a) : a[i] = b[i]
  BY <1>2 DEF a, b
<1>4. OfAll(a) = OfAll(b)
  BY <1>3 DEF OfAll
<1>5. Ascends(a) <=> Ascends(b)
  BY <1>3 DEF Ascends
<1> QED
  BY <1>4, <1>5 DEF a, b

-----------------------------------------------------------------------------
\* Octets, and what follows what in a zone.
LEMMA FillFields == /\ FillOctet.pkt = FillPacket /\ FillOctet.k = 0 /\ FillOctet.pkt.id = 0
                    /\ FillOctet.pkt.len = 1 /\ FillOctet \in Octet
  BY DEF FillOctet, FillPacket, Octet, Packet, PVNs, pvnEncapsulationPacket

LEMMA OctetParts ==
    ASSUME NEW o \in Octet
    PROVE  /\ o.pkt \in Packet /\ o.k \in Nat /\ o.pkt.id \in Nat /\ o.pkt.len \in Nat \ {0}
           /\ o.pkt.hdr \in Nat \ {0} /\ o = [pkt |-> o.pkt, k |-> o.k]
  BY DEF Octet, Packet

LEMMA OwnParts ==
    ASSUME NEW s, NEW o, Own(s, o)
    PROVE  o \in Octet /\ o # FillOctet /\ o.pkt # FillPacket /\ o.pkt.id # 0 /\ o.k < o.pkt.len
<1>1. o \in Octet /\ o.pkt.id \in 1..Len(s) /\ o.k < o.pkt.len
  BY DEF Own
<1>2. o.pkt.id # 0
  BY <1>1
<1>3. FillPacket.id = 0 /\ FillOctet.pkt.id = 0
  BY FillFields
<1> QED
  BY <1>1, <1>2, <1>3

LEMMA LaidAt ==
    ASSUME NEW s, NEW m, NEW d, Laid(s, m, d), NEW i \in 1..Len(d)
    PROVE  /\ d[i] \in Octet /\ d[i].k \in Nat /\ d[i].pkt.len \in Nat \ {0}
           /\ d[i].k < d[i].pkt.len /\ d[i].pkt.id \in Nat
           /\ d[i] = [pkt |-> d[i].pkt, k |-> d[i].k]
           /\ d[i] # FillOctet => Own(s, d[i]) /\ d[i].pkt # FillPacket /\ d[i].pkt.id # 0
           /\ d[i] = FillOctet => d[i].pkt = FillPacket /\ d[i].k = 0 /\ d[i].pkt.id = 0
<1>1. Own(s, d[i]) \/ d[i] = FillOctet
  BY DEF Laid
<1>2. d[i] \in Octet /\ d[i].k < d[i].pkt.len
  <2>1. CASE Own(s, d[i])
    BY <2>1, OwnParts
  <2>2. CASE d[i] = FillOctet
    BY <2>2, FillFields
  <2> QED
    BY <1>1, <2>1, <2>2
<1> QED
  BY <1>1, <1>2, OctetParts, OwnParts, FillFields

\* A part of a zone and what is behind it.
LEMMA Parted ==
    ASSUME NEW s, NEW m, NEW d, Laid(s, m, d), NEW i \in Nat, NEW n \in Nat, i + n <= Len(d),
           NEW e, Len(e) = n, \A j \in 1..n : e[j] = d[i + j]
    PROVE  /\ From(d, i + 1) = From(e, 1) \cup From(d, i + n + 1)
           /\ AllBefore(From(e, 1), From(d, i + n + 1))
<1>0. Len(d) \in Nat
  BY DEF Laid
<1>1. ASSUME NEW x, x \in From(d, i + 1) PROVE x \in From(e, 1) \cup From(d, i + n + 1)
  <2>1. PICK j \in i + 1..Len(d) : x = d[j] /\ x # FillOctet
    BY <1>1 DEF From
  <2>2. CASE j <= i + n
    <3>1. j - i \in 1..n /\ i + (j - i) = j
      BY <2>2
    <3>2. e[j - i] = d[j]
      BY <3>1
    <3> QED
      BY <2>1, <3>1, <3>2 DEF From
  <2>3. CASE ~(j <= i + n)
    <3>1. j \in i + n + 1..Len(d)
      BY <1>0, <2>3
    <3> QED
      BY <2>1, <3>1 DEF From
  <2> QED
    BY <2>2, <2>3
<1>2. ASSUME NEW x, x \in From(e, 1) PROVE \E j \in 1..n : x = d[i + j] /\ x # FillOctet
  BY <1>2 DEF From
<1>3. From(e, 1) \subseteq From(d, i + 1)
  <2> SUFFICES ASSUME NEW x, x \in From(e, 1) PROVE x \in From(d, i + 1)
    OBVIOUS
  <2>1. PICK j \in 1..n : x = d[i + j] /\ x # FillOctet
    BY <1>2
  <2>2. i + j \in i + 1..Len(d)
    BY <1>0
  <2> QED
    BY <2>1, <2>2 DEF From
<1>4. From(d, i + n + 1) \subseteq From(d, i + 1)
  <2>1. \A j \in i + n + 1..Len(d) : j \in i + 1..Len(d)
    BY <1>0
  <2> QED
    BY <2>1 DEF From
<1>5. ASSUME NEW x \in From(e, 1), NEW y \in From(d, i + n + 1) PROVE Before(x, y)
  <2>1. PICK j \in 1..n : x = d[i + j] /\ x # FillOctet
    BY <1>2
  <2>2. PICK h \in i + n + 1..Len(d) : y = d[h] /\ y # FillOctet
    BY DEF From
  <2>3. i + j \in 1..Len(d) /\ h \in (i + j) + 1..Len(d)
    BY <1>0
  <2> QED
    BY <2>1, <2>2, <2>3 DEF Laid, Rises
<1> QED
  BY <1>1, <1>3, <1>4, <1>5 DEF AllBefore

\* From the start of a packet on there is that packet, as far as the zone goes.
LEMMA FromStart ==
    ASSUME NEW s, NEW m, NEW d, Laid(s, m, d), NEW i \in 1..Len(d), d[i].k = 0,
           NEW n \in Nat, n <= d[i].pkt.len, i + n <= Len(d) + 1
    PROVE  /\ \A j \in 1..n : d[i + j - 1] = [pkt |-> d[i].pkt, k |-> j - 1]
           /\ n = d[i].pkt.len /\ i + n <= Len(d) => d[i + n].k = 0
<1>0. /\ Len(d) \in Nat /\ i \in Nat /\ d[i] = [pkt |-> d[i].pkt, k |-> 0]
      /\ d[i].pkt.len \in Nat \ {0}
  <2>1. d \in Seq(Octet)
    BY DEF Laid
  <2>2. Len(d) \in Nat /\ i \in Nat
    BY <2>1
  <2>3. d[i] = [pkt |-> d[i].pkt, k |-> d[i].k] /\ d[i].pkt.len \in Nat \ {0}
    BY LaidAt
  <2> QED
    BY <2>2, <2>3
<1>1. ASSUME NEW j \in 1..n PROVE d[i + j - 1] = [pkt |-> d[i].pkt, k |-> j - 1]
  <2>1. CASE j = 1
    <3>1. i + j - 1 = i /\ j - 1 = 0
      BY <1>0, <2>1
    <3> QED
      BY <1>0, <3>1
  <2>2. CASE j # 1
    <3>1. i + j - 1 \in i + 1..Len(d) /\ (i + j - 1) - i = j - 1 /\ 0 + (j - 1) = j - 1
      BY <1>0, <2>2
    <3>2. j - 1 < d[i].pkt.len
      BY <1>0
    <3> QED
      BY <3>1, <3>2 DEF Laid, Runs
  <2> QED
    BY <2>1, <2>2
<1>2. ASSUME n = d[i].pkt.len, i + n <= Len(d) PROVE d[i + n].k = 0
  <2>1. i + n \in i + 1..Len(d) /\ (i + n) - i = n /\ 0 + n = n
    BY <1>0, <1>2
  <2> QED
    BY <1>2, <2>1 DEF Laid, Runs
<1> QED
  BY <1>1, <1>2

\* Up to the first start in a zone there is more of one packet.
LEMMA UpToStart ==
    ASSUME NEW s, NEW m, NEW d, Laid(s, m, d), NEW h \in Nat \ {0}, h <= Len(d), NoStart(d, h)
    PROVE  /\ d[1].k + h <= d[1].pkt.len /\ Own(s, d[1])
           /\ \A j \in 1..h : d[j] = [pkt |-> d[1].pkt, k |-> d[1].k + (j - 1)]
           /\ h < Len(d) /\ d[h + 1].k = 0 => d[1].k + h = d[1].pkt.len
<1>0. /\ Len(d) \in Nat /\ 1 \in 1..Len(d) /\ d[1].k \in Nat /\ d[1].k # 0
      /\ d[1] = [pkt |-> d[1].pkt, k |-> d[1].k]
      /\ d[1].pkt.len \in Nat \ {0} /\ d[1].k < d[1].pkt.len
  <2>1. Len(d) \in Nat
    BY DEF Laid
  <2>2. 1 \in 1..Len(d) /\ 1 \in 1..h
    BY <2>1
  <2>3. d[1].k # 0
    BY <2>2 DEF NoStart
  <2> QED
    BY <2>1, <2>2, <2>3, LaidAt
<1>1. Own(s, d[1])
  BY <1>0, LaidAt
<1>2. d[1].k + h <= d[1].pkt.len
  <2> SUFFICES ASSUME d[1].k + h > d[1].pkt.len PROVE FALSE
    BY <1>0
  <2> DEFINE j == 1 + (d[1].pkt.len - d[1].k)
  <2>1. j \in 1 + 1..Len(d) /\ j \in 1..h /\ d[1].k + (j - 1) = d[1].pkt.len
    BY <1>0
  <2>2. d[j].k = 0
    BY <1>0, <2>1 DEF Laid, Runs
  <2> QED
    BY <2>1, <2>2 DEF NoStart
<1>3. ASSUME NEW j \in 1..h PROVE d[j] = [pkt |-> d[1].pkt, k |-> d[1].k + (j - 1)]
  <2>1. CASE j = 1
    BY <1>0, <2>1
  <2>2. CASE j # 1
    <3>1. j \in 1 + 1..Len(d) /\ d[1].k + (j - 1) < d[1].pkt.len
      BY <1>0, <1>2, <2>2
    <3> QED
      BY <1>0, <3>1 DEF Laid, Runs
  <2> QED
    BY <2>1, <2>2
<1>4. ASSUME h < Len(d), d[h + 1].k = 0, d[1].k + h # d[1].pkt.len PROVE FALSE
  <2>0. (h + 1) - 1 = h /\ h + 1 \in 1 + 1..Len(d)
    BY <1>0, <1>4
  <2> DEFINE a == d[1].k
             c == d[1].pkt.len
  <2>3. a \in Nat /\ c \in Nat /\ a + h <= c /\ a + h # c
    BY <1>0, <1>2, <1>4
  <2> HIDE DEF a, c
  <2>4. a + h < c /\ a + h # 0
    BY <2>3
  <2>1. h + 1 \in 1 + 1..Len(d) /\ d[1].k + ((h + 1) - 1) < d[1].pkt.len
        /\ d[1].k + ((h + 1) - 1) # 0
    BY <2>0, <2>4 DEF a, c
  <2>2. d[h + 1] = [pkt |-> d[1].pkt, k |-> d[1].k + ((h + 1) - 1)]
    BY <1>0, <2>1 DEF Laid, Runs
  <2> QED
    BY <1>4, <2>1, <2>2
<1> QED
  BY <1>1, <1>2, <1>3, <1>4

-----------------------------------------------------------------------------
\* How zones are made up.
Joins(c, a, e) ==
    /\ c \in Seq(Octet) /\ Len(c) = Len(a) + Len(e)
    /\ \A i \in 1..Len(a) : c[i] = a[i]
    /\ \A i \in 1..Len(e) : c[Len(a) + i] = e[i]

LEMMA JoinAt ==
    ASSUME NEW a \in Seq(Octet), NEW e \in Seq(Octet), NEW c, Joins(c, a, e), NEW i \in 1..Len(c)
    PROVE  \/ i \in 1..Len(a) /\ c[i] = a[i]
           \/ \E h \in 1..Len(e) : i = Len(a) + h /\ c[i] = e[h]
<1>1. Len(a) \in Nat /\ Len(e) \in Nat /\ Len(c) = Len(a) + Len(e)
  BY DEF Joins
<1>2. CASE i <= Len(a)
  <2>1. i \in 1..Len(a)
    BY <1>1, <1>2
  <2> QED
    BY <2>1 DEF Joins
<1>3. CASE ~(i <= Len(a))
  <2>1. i - Len(a) \in 1..Len(e) /\ i = Len(a) + (i - Len(a))
    BY <1>1, <1>3
  <2>2. c[i] = e[i - Len(a)]
    BY <2>1 DEF Joins
  <2> QED
    BY <2>1, <2>2
<1> QED
  BY <1>2, <1>3

LEMMA JoinLaid ==
    ASSUME NEW s, NEW m, NEW a, NEW e, NEW c, Laid(s, m, a), Laid(s, m, e), Joins(c, a, e),
           Closed(a), Len(a) > 0 /\ Len(e) > 0 => e[1].k = 0,
           AllBefore(From(a, 1), From(e, 1)),
           m = FALSE => Len(a) = 0 \/ \A i \in 1..Len(e) : e[i] = FillOctet
    PROVE  Laid(s, m, c)
<1>1. a \in Seq(Octet) /\ e \in Seq(Octet) /\ Len(a) \in Nat /\ Len(e) \in Nat
      /\ Len(c) = Len(a) + Len(e) /\ c \in Seq(Octet)
  <2>1. a \in Seq(Octet) /\ e \in Seq(Octet)
    BY DEF Laid
  <2> QED
    BY <2>1 DEF Joins
<1>2. ASSUME NEW i \in 1..Len(c)
      PROVE  \/ i \in 1..Len(a) /\ c[i] = a[i]
             \/ \E h \in 1..Len(e) : i = Len(a) + h /\ c[i] = e[h]
  <2>1. a \in Seq(Octet) /\ e \in Seq(Octet)
    BY <1>1
  <2> QED
    BY <2>1, JoinAt
<1>3. \A i \in 1..Len(c) : Own(s, c[i]) \/ c[i] = FillOctet
  BY <1>2 DEF Laid
<1>4. ASSUME NEW i \in 1..Len(c), NEW j \in i + 1..Len(c)
      PROVE  /\ c[i].k + (j - i) < c[i].pkt.len
                    => c[j] = [pkt |-> c[i].pkt, k |-> c[i].k + (j - i)]
             /\ c[i].k + (j - i) = c[i].pkt.len => c[j].k = 0
  <2>0. j \in 1..Len(c) /\ i \in Nat /\ j \in Nat /\ i < j
    BY <1>1
  <2>1. CASE i \in 1..Len(a) /\ c[i] = a[i]
    <3>0. a[i].k \in Nat /\ a[i].pkt.len \in Nat \ {0}
          /\ a[i].pkt.len - a[i].k <= Len(a) - i + 1
      BY <2>1, LaidAt DEF Closed
    <3>1. CASE j \in 1..Len(a) /\ c[j] = a[j]
      <4>1. j \in i + 1..Len(a)
        BY <2>0, <3>1
      <4> QED
        BY <2>1, <3>1, <4>1 DEF Laid, Runs
    <3>2. ASSUME NEW h \in 1..Len(e), j = Len(a) + h, c[j] = e[h]
          PROVE  /\ ~(a[i].k + (j - i) < a[i].pkt.len)
                 /\ a[i].k + (j - i) = a[i].pkt.len => c[j].k = 0
      <4> DEFINE k == a[i].k
                 l == a[i].pkt.len
      <4>1. k \in Nat /\ l \in Nat /\ l - k <= Len(a) - i + 1
        BY <3>0
      <4> HIDE DEF k, l
      <4>2. ~(k + (j - i) < l) /\ (k + (j - i) = l => h = 1)
        BY <4>1, <3>2, <1>1, <2>0
      <4>3. Len(a) > 0 /\ Len(e) > 0
        BY <1>1, <2>1
      <4> QED
        BY <4>2, <4>3, <3>2 DEF k, l
    <3> QED
      BY <1>2, <2>0, <2>1, <3>1, <3>2
  <2>2. ASSUME NEW g \in 1..Len(e), i = Len(a) + g, c[i] = e[g]
        PROVE  /\ c[i].k + (j - i) < c[i].pkt.len
                      => c[j] = [pkt |-> c[i].pkt, k |-> c[i].k + (j - i)]
               /\ c[i].k + (j - i) = c[i].pkt.len => c[j].k = 0
    <3>1. PICK h \in 1..Len(e) : j = Len(a) + h /\ c[j] = e[h]
      <4>1. ~(j \in 1..Len(a))
        BY <1>1, <2>0, <2>2
      <4> QED
        BY <1>2, <2>0, <4>1
    <3>2. h \in g + 1..Len(e) /\ j - i = h - g
      BY <1>1, <2>0, <2>2, <3>1
    <3> QED
      BY <2>2, <3>1, <3>2 DEF Laid, Runs
  <2> QED
    BY <1>2, <2>1, <2>2
<1>5. ASSUME NEW i \in 1..Len(c), NEW j \in i + 1..Len(c)
      PROVE  c[j] = FillOctet \/ (c[i] # FillOctet /\ Before(c[i], c[j]))
  <2>0. j \in 1..Len(c) /\ i \in Nat /\ j \in Nat /\ i < j
    BY <1>1
  <2>1. CASE i \in 1..Len(a) /\ c[i] = a[i]
    <3>1. CASE j \in 1..Len(a) /\ c[j] = a[j]
      <4>1. j \in i + 1..Len(a)
        BY <2>0, <3>1
      <4> QED
        BY <2>1, <3>1, <4>1 DEF Laid, Rises
    <3>2. ASSUME NEW h \in 1..Len(e), c[j] = e[h], c[j] # FillOctet
          PROVE  c[i] # FillOctet /\ Before(c[i], c[j])
      <4>1. c[i] # FillOctet
        BY <2>1 DEF Closed
      <4>2. c[i] \in From(a, 1) /\ c[j] \in From(e, 1)
        BY <2>1, <3>2, <4>1 DEF From
      <4> QED
        BY <4>1, <4>2 DEF AllBefore
    <3> QED
      BY <1>2, <2>0, <3>1, <3>2
  <2>2. ASSUME NEW g \in 1..Len(e), i = Len(a) + g, c[i] = e[g]
        PROVE  c[j] = FillOctet \/ (c[i] # FillOctet /\ Before(c[i], c[j]))
    <3>1. PICK h \in 1..Len(e) : j = Len(a) + h /\ c[j] = e[h]
      <4>1. ~(j \in 1..Len(a))
        BY <1>1, <2>0, <2>2
      <4> QED
        BY <1>2, <2>0, <4>1
    <3>2. h \in g + 1..Len(e)
      BY <1>1, <2>0, <2>2, <3>1
    <3> QED
      BY <2>2, <3>1, <3>2 DEF Laid, Rises
  <2> QED
    BY <1>2, <2>1, <2>2
<1>6. ASSUME m = FALSE, NEW i \in 1..Len(c), c[i].k + 1 = c[i].pkt.len, NEW j \in i + 1..Len(c)
      PROVE  c[j] = FillOctet
  <2>0. j \in 1..Len(c) /\ i \in Nat /\ j \in Nat /\ i < j
    BY <1>1
  <2>1. CASE i \in 1..Len(a) /\ c[i] = a[i]
    <3>1. CASE j \in 1..Len(a) /\ c[j] = a[j]
      <4>1. j \in i + 1..Len(a)
        BY <2>0, <3>1
      <4> QED
        BY <1>6, <2>1, <3>1, <4>1 DEF Laid, Single
    <3>2. ASSUME NEW h \in 1..Len(e), c[j] = e[h]
          PROVE  c[j] = FillOctet
      BY <1>1, <1>6, <2>1, <3>2
    <3> QED
      BY <1>2, <2>0, <3>1, <3>2
  <2>2. ASSUME NEW g \in 1..Len(e), i = Len(a) + g, c[i] = e[g]
        PROVE  c[j] = FillOctet
    <3>1. PICK h \in 1..Len(e) : j = Len(a) + h /\ c[j] = e[h]
      <4>1. ~(j \in 1..Len(a))
        BY <1>1, <2>0, <2>2
      <4> QED
        BY <1>2, <2>0, <4>1
    <3>2. h \in g + 1..Len(e)
      BY <1>1, <2>0, <2>2, <3>1
    <3> QED
      BY <1>6, <2>2, <3>1, <3>2 DEF Laid, Single
  <2> QED
    BY <1>2, <2>1, <2>2
<1> QED
  BY <1>1, <1>3, <1>4, <1>5, <1>6 DEF Laid, Runs, Rises, Single

LEMMA JoinClosed ==
    ASSUME NEW a, NEW e, NEW c, a \in Seq(Octet), e \in Seq(Octet), Joins(c, a, e),
           Closed(a), Closed(e)
    PROVE  Closed(c)
<1> SUFFICES ASSUME NEW i \in 1..Len(c)
             PROVE  c[i] # FillOctet /\ c[i].pkt.len - c[i].k <= Len(c) - i + 1
  BY DEF Closed
<1>1. Len(a) \in Nat /\ Len(e) \in Nat /\ Len(c) = Len(a) + Len(e) /\ c \in Seq(Octet)
  BY DEF Joins
<1>2. c[i] \in Octet
  BY <1>1
<1> DEFINE l == c[i].pkt.len
           k == c[i].k
<1>3. l \in Nat /\ k \in Nat
  BY <1>2, OctetParts
<1>4. CASE i \in 1..Len(a) /\ c[i] = a[i]
  <2>1. c[i] # FillOctet /\ l - k <= Len(a) - i + 1
    BY <1>4 DEF Closed
  <2> HIDE DEF l, k
  <2>2. l - k <= Len(c) - i + 1
    BY <1>1, <1>3, <2>1
  <2> QED
    BY <2>1, <2>2 DEF l, k
<1>5. ASSUME NEW h \in 1..Len(e), i = Len(a) + h, c[i] = e[h]
      PROVE  c[i] # FillOctet /\ c[i].pkt.len - c[i].k <= Len(c) - i + 1
  <2>1. c[i] # FillOctet /\ l - k <= Len(e) - h + 1
    BY <1>5 DEF Closed
  <2> HIDE DEF l, k
  <2>2. l - k <= Len(c) - i + 1
    BY <1>1, <1>3, <1>5, <2>1
  <2> QED
    BY <2>1, <2>2 DEF l, k
<1> QED
  BY <1>4, <1>5, JoinAt

\* What the two hold is what they hold together.
LEMMA JoinFrom ==
    ASSUME NEW a, NEW e, NEW c, a \in Seq(Octet), e \in Seq(Octet), Joins(c, a, e)
    PROVE  From(c, 1) = From(a, 1) \cup From(e, 1)
<1>1. Len(a) \in Nat /\ Len(e) \in Nat /\ Len(c) = Len(a) + Len(e)
  BY DEF Joins
<1>2. ASSUME NEW x, x \in From(c, 1) PROVE x \in From(a, 1) \cup From(e, 1)
  <2>1. PICK i \in 1..Len(c) : x = c[i] /\ x # FillOctet
    BY <1>2 DEF From
  <2>2. CASE i \in 1..Len(a) /\ c[i] = a[i]
    BY <2>1, <2>2 DEF From
  <2>3. ASSUME NEW h \in 1..Len(e), c[i] = e[h] PROVE x \in From(e, 1)
    BY <2>1, <2>3 DEF From
  <2> QED
    BY <2>2, <2>3, JoinAt
<1>3. ASSUME NEW x, x \in From(a, 1) PROVE x \in From(c, 1)
  <2>1. PICK i \in 1..Len(a) : x = a[i] /\ x # FillOctet
    BY <1>3 DEF From
  <2>2. i \in 1..Len(c) /\ c[i] = a[i]
    BY <1>1 DEF Joins
  <2> QED
    BY <2>1, <2>2 DEF From
<1>4. ASSUME NEW x, x \in From(e, 1) PROVE x \in From(c, 1)
  <2>1. PICK i \in 1..Len(e) : x = e[i] /\ x # FillOctet
    BY <1>4 DEF From
  <2>2. Len(a) + i \in 1..Len(c) /\ c[Len(a) + i] = e[i]
    BY <1>1 DEF Joins
  <2> QED
    BY <2>1, <2>2 DEF From
<1> QED
  BY <1>2, <1>3, <1>4

LEMMA JoinStarts ==
    ASSUME NEW a, NEW e, NEW c, a \in Seq(Octet), e \in Seq(Octet), Joins(c, a, e)
    PROVE  /\ \A h \in Nat : Points(a, h) => Points(c, h)
           /\ NoStart(a, Len(a)) /\ NoStart(e, Len(e)) => NoStart(c, Len(c))
           /\ NoStart(a, Len(a)) /\ Len(e) > 0 /\ e[1].k = 0 => Points(c, Len(a))
<1>1. Len(a) \in Nat /\ Len(e) \in Nat /\ Len(c) = Len(a) + Len(e)
  BY DEF Joins
<1>2. ASSUME NEW h \in Nat, Points(a, h) PROVE Points(c, h)
  <2>1. h + 1 \in 1..Len(a) /\ \A i \in 1..h : i \in 1..Len(a)
    BY <1>1, <1>2 DEF Points
  <2>2. c[h + 1] = a[h + 1] /\ \A i \in 1..h : c[i] = a[i]
    BY <2>1 DEF Joins
  <2> QED
    BY <1>1, <1>2, <2>2 DEF Points, NoStart
<1>3. ASSUME NoStart(a, Len(a)), NoStart(e, Len(e)) PROVE NoStart(c, Len(c))
  <2> SUFFICES ASSUME NEW i \in 1..Len(c) PROVE c[i].k # 0
    BY DEF NoStart
  <2>1. CASE i \in 1..Len(a) /\ c[i] = a[i]
    BY <1>3, <2>1 DEF NoStart
  <2>2. ASSUME NEW h \in 1..Len(e), c[i] = e[h] PROVE c[i].k # 0
    BY <1>3, <2>2 DEF NoStart
  <2> QED
    BY <2>1, <2>2, JoinAt
<1>4. ASSUME NoStart(a, Len(a)), Len(e) > 0, e[1].k = 0 PROVE Points(c, Len(a))
  <2>1. 1 \in 1..Len(e)
    BY <1>1, <1>4
  <2>2. c[Len(a) + 1] = e[1] /\ \A i \in 1..Len(a) : c[i] = a[i]
    BY <2>1 DEF Joins
  <2> QED
    BY <1>1, <1>4, <2>2 DEF Points, NoStart
<1> QED
  BY <1>2, <1>3, <1>4

LEMMA NothingLaid ==
    ASSUME NEW s, NEW m, NEW a \in Seq(Octet), Len(a) = 0
    PROVE  Laid(s, m, a) /\ Closed(a) /\ From(a, 1) = {}
<1>1. 1..Len(a) = {}
  OBVIOUS
<1> QED
  BY <1>1 DEF Laid, Closed, From, Runs, Rises, Single

\* A part of a packet.
PieceOf(e, p, i) == e \in Seq(Octet) /\ \A j \in 1..Len(e) : e[j] = [pkt |-> p, k |-> i + (j - 1)]

LEMMA PieceLaid ==
    ASSUME NEW s \in Seq(Packet), NEW m, NEW p \in Packet, p.id \in 1..Len(s), s[p.id] = p,
           NEW i \in Nat, NEW e, PieceOf(e, p, i), i + Len(e) <= p.len
    PROVE  /\ Laid(s, m, e) /\ \A j \in 1..Len(e) : e[j] # FillOctet
           /\ i + Len(e) = p.len => Closed(e)
<1>1. e \in Seq(Octet) /\ Len(e) \in Nat /\ p.len \in Nat \ {0} /\ p.id \in Nat /\ p.id # 0
  BY DEF PieceOf, Packet
<1>2. ASSUME NEW j \in 1..Len(e)
      PROVE  /\ e[j] \in Octet /\ e[j].pkt = p /\ e[j].k = i + (j - 1) /\ e[j].k < p.len
             /\ Own(s, e[j]) /\ e[j] # FillOctet
  <2>0. e[j] = [pkt |-> p, k |-> i + (j - 1)] /\ e[j] \in Octet
    BY <1>1 DEF PieceOf
  <2>1. e[j] \in Octet /\ e[j].pkt = p /\ e[j].k = i + (j - 1)
    BY <2>0
  <2>2. i + (j - 1) < p.len
    BY <1>1
  <2>3. Own(s, e[j])
    BY <2>1, <2>2 DEF Own
  <2> QED
    BY <2>1, <2>2, <2>3, OwnParts
<1>3. Runs(e)
  <2> SUFFICES ASSUME NEW j \in 1..Len(e), NEW h \in j + 1..Len(e)
               PROVE  /\ e[j].k + (h - j) < e[j].pkt.len
                            => e[h] = [pkt |-> e[j].pkt, k |-> e[j].k + (h - j)]
                      /\ ~(e[j].k + (h - j) = e[j].pkt.len)
    BY DEF Runs
  <2>1. h \in 1..Len(e) /\ (i + (j - 1)) + (h - j) = i + (h - 1) /\ i + (h - 1) < p.len
    BY <1>1
  <2>2. e[h] = [pkt |-> p, k |-> i + (h - 1)] /\ e[j].pkt = p /\ e[j].k = i + (j - 1)
    BY <1>2, <2>1 DEF PieceOf
  <2> QED
    BY <1>1, <2>1, <2>2
<1>4. Rises(e)
  <2> SUFFICES ASSUME NEW j \in 1..Len(e), NEW h \in j + 1..Len(e)
               PROVE  e[j] # FillOctet /\ Before(e[j], e[h])
    BY DEF Rises
  <2>1. h \in 1..Len(e) /\ i + (j - 1) < i + (h - 1)
    BY <1>1
  <2>2. e[j].pkt = e[h].pkt /\ e[j].k < e[h].k
    BY <1>2, <2>1
  <2> QED
    BY <1>2, <2>2 DEF Before
<1>5. Single(e)
  <2> SUFFICES ASSUME NEW j \in 1..Len(e), e[j].k + 1 = e[j].pkt.len, NEW h \in j + 1..Len(e)
               PROVE  FALSE
    BY DEF Single
  <2>1. i + (j - 1) + 1 = p.len
    BY <1>2
  <2> QED
    BY <1>1, <2>1
<1>6. ASSUME i + Len(e) = p.len PROVE Closed(e)
  <2> SUFFICES ASSUME NEW j \in 1..Len(e)
               PROVE  e[j] # FillOctet /\ e[j].pkt.len - e[j].k <= Len(e) - j + 1
    BY DEF Closed
  <2>1. e[j].pkt = p /\ e[j].k = i + (j - 1) /\ e[j] # FillOctet
    BY <1>2
  <2>2. p.len - (i + (j - 1)) <= Len(e) - j + 1
    BY <1>1, <1>6
  <2> QED
    BY <2>1, <2>2
<1> QED
  BY <1>1, <1>2, <1>3, <1>4, <1>5, <1>6 DEF Laid

LEMMA FillLaid ==
    ASSUME NEW s, NEW m, NEW n \in Nat
    PROVE  /\ Laid(s, m, RawFill(n)) /\ Len(RawFill(n)) = n /\ From(RawFill(n), 1) = {}
           /\ \A i \in 1..n : RawFill(n)[i] = FillOctet
<1> DEFINE d == RawFill(n)
<1>1. FillPacket \in Packet
  BY UnwrittenPackets
<1>2. d \in Seq(Octet) /\ Len(d) = n
  BY <1>1, Padding DEF RawFill
<1>3. \A i \in 1..n : d[i] = FillOctet
  BY DEF RawFill, FillOctet
<1> HIDE DEF d
<1>4. Runs(d)
  <2> SUFFICES ASSUME NEW i \in 1..Len(d), NEW j \in i + 1..Len(d)
               PROVE  ~(d[i].k + (j - i) < d[i].pkt.len) /\ d[j].k = 0
    BY DEF Runs
  <2>1. d[i].k = 0 /\ d[i].pkt.len = 1 /\ j \in 1..n
    BY <1>2, <1>3, FillFields
  <2>2. d[j].k = 0
    BY <1>3, <2>1, FillFields
  <2> QED
    BY <1>2, <2>1, <2>2
<1>5. Rises(d) /\ Single(d)
  <2>1. \A i \in 1..Len(d) : \A j \in i + 1..Len(d) : j \in 1..n
    BY <1>2
  <2> QED
    BY <1>3, <2>1 DEF Rises, Single
<1>6. From(d, 1) = {}
  BY <1>2, <1>3 DEF From
<1> QED
  BY <1>2, <1>3, <1>4, <1>5, <1>6 DEF Laid, d

-----------------------------------------------------------------------------
\* A whole packet, as its octets.
APacket(s, d) == \E p \in 1..Len(s) : d = OctetsOf(s[p])

\* What the sender has: packets numbered as they came, and an M_PDU that waits for more only
\* if several packets may share it.
SentInv == \A p \in 1..Len(sent) :
    sent[p].id = p /\ sent[p].hdr <= sent[p].len /\ sent[p].hdr <= frameSize + 1
SizesInv == length = frameSize /\ zone = frameSize
QueueInv == \A i \in 1..Len(msg_queue) : APacket(sent, msg_queue[i])
UnitInv == IF phase = "copy" THEN APacket(sent, netdata) /\ netdataIdx < Len(netdata)
                             ELSE netdata = <<>>
ListInv == immediate => mpdu_list = <<>>
FillingInv == mpdu # NoPdu =>
    /\ mpdu.cap = frameSize /\ Len(mpdu.data) \in 1..frameSize - 1
    /\ Laid(sent, multi, mpdu.data) /\ Closed(mpdu.data)
    /\ IF firstHeaderIndexSet THEN Points(mpdu.data, mpdu.fhi)
                              ELSE NoStart(mpdu.data, Len(mpdu.data))
    /\ phase = "copy" => netdataIdx = 0
    /\ phase # "last" => multi = TRUE /\ immediate = TRUE /\ phase # "send"
SenderInv == SentInv /\ SizesInv /\ QueueInv /\ UnitInv /\ ListInv /\ FillingInv

\* What is on its way.
ListWhole  == \A i \in 1..Len(mpdu_list) : Whole(sent, multi, frameSize, mpdu_list[i])
MpdusWhole == \A i \in 1..Len(mpdus) : Whole(sent, multi, frameSize, mpdus[i])
WireWhole  == \A i \in 1..Len(wire) :
    IF wire[i].idle THEN wire[i].pdu.data = <<>> ELSE Whole(sent, multi, frameSize, wire[i].pdu)
UnitsWhole == \A i \in 1..Len(units) : Whole(sent, multi, frameSize, units[i])
AtHandInv == m_pdu # NoPdu =>
    /\ Whole(sent, multi, frameSize, m_pdu)
    /\ idx > 0 => m_pdu.data[idx + 1].k = 0 /\ encap = NoPacket
ZonesInv == ListWhole /\ MpdusWhole /\ WireWhole /\ UnitsWhole /\ AtHandInv

OrderInv == InOrder(Places) /\ QueuesInOrder

\* What is put together: octets of one packet from its start on, or of packets that were hit.
Prefix(d) == \A j \in 1..Len(d) : d[j] = [pkt |-> d[1].pkt, k |-> j - 1]
AllHurt(h, d) == \A j \in 1..Len(d) : d[j].pkt.id \in h
Begun(s, d) == /\ d \in Seq(Octet) /\ Len(d) > 0 /\ d[1].k = 0
               /\ \A j \in 1..Len(d) : Own(s, d[j])
EncapInv == encap # NoPacket =>
    /\ Begun(sent, encap)
    /\ AllHurt(hurt, encap) \/ (Prefix(encap) /\ Len(encap) < encap[1].pkt.len)
OutInv == \A i \in 1..Len(delivered) :
    /\ Begun(sent, delivered[i])
    /\ AllHurt(hurt, delivered[i]) \/ delivered[i] = OctetsOf(delivered[i][1].pkt)
    /\ i > 1 => delivered[i - 1][1].pkt.id < delivered[i][1].pkt.id

\* A packet that was not hit has come out, or every octet of it is still somewhere.
KeptFor(s, P, ds, h, p) ==
    \/ p \in h
    \/ \E i \in 1..Len(ds) : ds[i] = OctetsOf(s[p])
    \/ \A k \in 0..s[p].len - 1 : [pkt |-> s[p], k |-> k] \in InHand(P)
Kept == \A p \in 1..Len(sent) : KeptFor(sent, Places, delivered, hurt, p)

PlacesInv == SenderInv /\ ZonesInv /\ OrderInv /\ EncapInv /\ OutInv /\ Kept

-----------------------------------------------------------------------------
LEMMA InHandIs ==
    ASSUME NEW P, NEW x
    PROVE  x \in InHand(P) <=> \E s \in 2..10 : x \in P[s]
  BY DEF InHand

LEMMA KeptForStays ==
    ASSUME NEW s, NEW t, NEW P, NEW Q, NEW ds, NEW es, NEW h, NEW g,
           NEW p, KeptFor(s, P, ds, h, p), t[p] = s[p], s[p].id = p, h \subseteq g,
           \A i \in 1..Len(ds) : i \in 1..Len(es) /\ es[i] = ds[i],
           \A x \in InHand(P) : x \in InHand(Q) \/ x.pkt.id \in g
                                \/ \E i \in 1..Len(es) : es[i] = OctetsOf(x.pkt)
    PROVE  KeptFor(t, Q, es, g, p)
<1>1. CASE p \in h
  BY <1>1 DEF KeptFor
<1>2. CASE \E i \in 1..Len(ds) : ds[i] = OctetsOf(s[p])
  BY <1>2 DEF KeptFor
<1>3. CASE \A k \in 0..s[p].len - 1 : [pkt |-> s[p], k |-> k] \in InHand(P)
  <2>1. CASE \A k \in 0..s[p].len - 1 : [pkt |-> s[p], k |-> k] \in InHand(Q)
    BY <2>1 DEF KeptFor
  <2>2. ASSUME NEW k \in 0..s[p].len - 1, [pkt |-> s[p], k |-> k] \notin InHand(Q)
        PROVE  KeptFor(t, Q, es, g, p)
    <3> DEFINE x == [pkt |-> s[p], k |-> k]
    <3>1. x \in InHand(P) /\ x \notin InHand(Q) /\ x.pkt = s[p]
      BY <1>3, <2>2
    <3> HIDE DEF x
    <3>2. x.pkt.id \in g \/ \E i \in 1..Len(es) : es[i] = OctetsOf(x.pkt)
      BY <3>1
    <3> QED
      BY <3>1, <3>2 DEF KeptFor
  <2> QED
    BY <2>1, <2>2
<1> QED
  BY <1>1, <1>2, <1>3 DEF KeptFor

\* When sent stays and nothing is delivered, a step that keeps the octets keeps the packets.
LEMMA KeptStays ==
    ASSUME Kept, SentInv, sent' = sent, delivered' = delivered, hurt \subseteq hurt',
           \A x \in InHand(Places) : x \in InHand(Places') \/ x.pkt.id \in hurt'
    PROVE  Kept'
<1> SUFFICES ASSUME NEW p \in 1..Len(sent) PROVE KeptFor(sent, Places', delivered, hurt', p)
  BY DEF Kept
<1>1. KeptFor(sent, Places, delivered, hurt, p) /\ sent[p].id = p
  BY DEF Kept, SentInv
<1> QED
  BY <1>1, KeptForStays

LEMMA PacketsSent ==
    ASSUME TypeInv, SentInv, NEW p \in 1..Len(sent)
    PROVE  /\ sent[p] \in Packet /\ sent[p].id = p /\ sent[p].len \in Nat \ {0}
           /\ OctetsOf(sent[p]) \in Seq(Octet) /\ Len(OctetsOf(sent[p])) = sent[p].len
           /\ PieceOf(OctetsOf(sent[p]), sent[p], 0)
           /\ \A m : Laid(sent, m, OctetsOf(sent[p]))
<1>0. sent \in Seq(Packet)
  BY DEF TypeInv, AddTypes, AddTypeOK
<1>1. sent[p] \in Packet /\ sent[p].id = p /\ sent[p].id \in 1..Len(sent)
      /\ sent[sent[p].id] = sent[p]
  BY <1>0 DEF SentInv
<1>2. /\ OctetsOf(sent[p]) \in Seq(Octet) /\ Len(OctetsOf(sent[p])) = sent[p].len
      /\ sent[p].len \in Nat \ {0}
  BY <1>1, PacketsAreOctets DEF Packet
<1>3. PieceOf(OctetsOf(sent[p]), sent[p], 0)
  <2>1. ASSUME NEW j \in 1..sent[p].len
        PROVE  OctetsOf(sent[p])[j] = [pkt |-> sent[p], k |-> 0 + (j - 1)]
    <3>1. 0 + (j - 1) = j - 1
      BY <1>2
    <3> QED
      BY <3>1 DEF OctetsOf
  <2> QED
    BY <1>2, <2>1 DEF PieceOf
<1>4. 0 + Len(OctetsOf(sent[p])) <= sent[p].len
  BY <1>2
<1>5. ASSUME NEW m PROVE Laid(sent, m, OctetsOf(sent[p]))
  BY <1>0, <1>1, <1>3, <1>4, PieceLaid
<1> QED
  BY <1>1, <1>2, <1>3, <1>5

LEMMA LaidFrom ==
    ASSUME NEW s, NEW m, NEW d, Laid(s, m, d), NEW i \in Nat \ {0}, NEW x \in From(d, i)
    PROVE  Own(s, x)
<1>1. PICK j \in i..Len(d) : x = d[j] /\ x # FillOctet
  BY DEF From
<1>2. d \in Seq(Octet)
  BY DEF Laid
<1>3. j \in 1..Len(d)
  BY <1>2
<1> QED
  BY <1>1, <1>3 DEF Laid

\* Every octet in a place is of a packet that was sent.
LEMMA PlacesOwn ==
    ASSUME TypeInv, PlacesInv, NEW t \in 1..10, NEW x \in Places[t]
    PROVE  Own(sent, x)
<1>0. /\ units \in Seq(Pdu) /\ wire \in Seq(TF) /\ mpdus \in Seq(Pdu) /\ mpdu_list \in Seq(Pdu)
      /\ idx \in Nat /\ netdataIdx \in Nat
  <2>1. \A i \in 0..DataFieldLen - 1 : i \in Nat
    BY FieldLen
  <2> QED
    BY <2>1 DEF TypeInv, AddTypes, AddTypeOK, LinkTypes, RemoveTypes
<1>1. ASSUME NEW q \in Seq(Pdu), \A i \in 1..Len(q) : Whole(sent, multi, frameSize, q[i]),
             x \in OfAll(Datas(q))
      PROVE  Own(sent, x)
  <2>1. PICK i \in 1..Len(Datas(q)) : x \in From(Datas(q)[i], 1)
    BY <1>1, OfMember
  <2>2. i \in 1..Len(q) /\ Datas(q)[i] = q[i].data
    BY <1>1, <2>1, DatasIs
  <2> QED
    BY <1>1, <2>1, <2>2, LaidFrom DEF Whole
<1>2. CASE t = 1
  <2>1. PICK i \in 1..Len(delivered) : x \in From(delivered[i], 1)
    BY <1>2, PlaceIs, OfMember
  <2>2. PICK j \in 1..Len(delivered[i]) : x = delivered[i][j]
    BY <2>1 DEF From
  <2> QED
    BY <2>1, <2>2 DEF PlacesInv, OutInv, Begun
<1>3. CASE t = 2
  <2>1. encap # NoPacket /\ x \in From(encap, 1)
    BY <1>3, PlaceIs DEF PartsHeld
  <2>2. PICK j \in 1..Len(encap) : x = encap[j]
    BY <2>1 DEF From
  <2> QED
    BY <2>1, <2>2 DEF PlacesInv, EncapInv, Begun
<1>4. CASE t = 3
  <2>1. m_pdu # NoPdu /\ x \in From(m_pdu.data, idx + 1)
    BY <1>4, PlaceIs DEF Ahead
  <2>2. idx + 1 \in Nat \ {0}
    BY <1>0
  <2> QED
    BY <2>1, <2>2, LaidFrom DEF PlacesInv, ZonesInv, AtHandInv, Whole
<1>5. CASE t = 4
  BY <1>0, <1>1, <1>5, PlaceIs DEF PlacesInv, ZonesInv, UnitsWhole
<1>6. CASE t = 5
  <2>1. PICK i \in 1..Len(Datas(Pdus(wire))) : x \in From(Datas(Pdus(wire))[i], 1)
    BY <1>6, PlaceIs, OfMember
  <2>2. i \in 1..Len(wire) /\ Datas(Pdus(wire))[i] = wire[i].pdu.data
    BY <1>0, <2>1, WireDatas
  <2>3. wire[i].pdu.data # <<>>
    <3>1. From(<<>>, 1) = {}
      <4>1. Len(<<>>) = 0 /\ 1..0 = {}
        OBVIOUS
      <4> QED
        BY <4>1 DEF From
    <3> QED
      BY <2>1, <2>2, <3>1
  <2>4. Whole(sent, multi, frameSize, wire[i].pdu)
    BY <2>2, <2>3 DEF PlacesInv, ZonesInv, WireWhole
  <2> QED
    BY <2>1, <2>2, <2>4, LaidFrom DEF Whole
<1>7. CASE t = 6
  BY <1>0, <1>1, <1>7, PlaceIs DEF PlacesInv, ZonesInv, MpdusWhole
<1>8. CASE t = 7
  BY <1>0, <1>1, <1>8, PlaceIs DEF PlacesInv, ZonesInv, ListWhole
<1>9. CASE t = 8
  <2>1. mpdu # NoPdu /\ x \in From(mpdu.data, 1)
    BY <1>9, PlaceIs DEF Filling
  <2> QED
    BY <2>1, LaidFrom DEF PlacesInv, SenderInv, FillingInv
<1>10. CASE t = 9
  <2>1. x \in From(netdata, netdataIdx + 1) /\ netdataIdx + 1 \in Nat \ {0}
    BY <1>0, <1>10, PlaceIs
  <2>2. phase = "copy"
    <3> SUFFICES ASSUME netdata = <<>> PROVE FALSE
      BY DEF PlacesInv, SenderInv, UnitInv
    <3>1. Len(<<>>) = 0 /\ netdataIdx + 1..0 = {}
      BY <1>0
    <3> QED
      BY <2>1, <3>1 DEF From
  <2>3. PICK p \in 1..Len(sent) : netdata = OctetsOf(sent[p])
    BY <2>2 DEF PlacesInv, SenderInv, UnitInv, APacket
  <2>4. Laid(sent, multi, netdata)
    BY <2>3, PacketsSent DEF PlacesInv, SenderInv
  <2> QED
    BY <2>1, <2>4, LaidFrom
<1>11. CASE t = 10
  <2>1. PICK i \in 1..Len(msg_queue) : x \in From(msg_queue[i], 1)
    BY <1>11, PlaceIs, OfMember
  <2>2. PICK p \in 1..Len(sent) : msg_queue[i] = OctetsOf(sent[p])
    BY <2>1 DEF PlacesInv, SenderInv, QueueInv, APacket
  <2>3. Laid(sent, multi, msg_queue[i])
    BY <2>2, PacketsSent DEF PlacesInv, SenderInv
  <2> QED
    BY <2>1, <2>3, LaidFrom
<1> QED
  BY <1>2, <1>3, <1>4, <1>5, <1>6, <1>7, <1>8, <1>9, <1>10, <1>11

-----------------------------------------------------------------------------
\* What a step of the sender leaves as it was.
Beyond == UNCHANGED <<channelvars, units, removeonly, hits, history>>
Settled == sent' = sent /\ multi' = multi /\ immediate' = immediate /\ length' = length

LEMMA BeyondStays ==
    ASSUME PlacesInv, sent' = sent, multi' = multi, Beyond
    PROVE  /\ WireWhole' /\ UnitsWhole' /\ AtHandInv' /\ EncapInv' /\ OutInv' /\ SentInv'
           /\ \A s \in 1..5 : Places'[s] = Places[s]
           /\ Ascends(Datas(units))' /\ Ascends(Datas(Pdus(wire)))'
           /\ frameSize' = frameSize /\ delivered' = delivered /\ hurt' = hurt
<1>1. /\ frameSize' = frameSize /\ wire' = wire /\ units' = units /\ m_pdu' = m_pdu
      /\ idx' = idx /\ encap' = encap /\ delivered' = delivered /\ hurt' = hurt
  BY DEF Beyond, channelvars, removeonly, history
<1>2. WireWhole' /\ UnitsWhole'
  BY <1>1 DEF PlacesInv, ZonesInv, WireWhole, UnitsWhole
<1>3. AtHandInv'
  BY <1>1 DEF PlacesInv, ZonesInv, AtHandInv
<1>4. EncapInv'
  BY <1>1 DEF PlacesInv, EncapInv
<1>5. OutInv'
  BY <1>1 DEF PlacesInv, OutInv
<1>6. SentInv'
  BY <1>1 DEF PlacesInv, SenderInv, SentInv
<1>7. /\ Places'[1] = Places[1] /\ Places'[2] = Places[2] /\ Places'[3] = Places[3]
      /\ Places'[4] = Places[4] /\ Places'[5] = Places[5]
  BY <1>1, PlaceIs, PlaceIsNext DEF PartsHeld, Ahead
<1>8. \A s \in 1..5 : Places'[s] = Places[s]
  BY <1>7
<1>9. Ascends(Datas(units))' /\ Ascends(Datas(Pdus(wire)))'
  BY <1>1 DEF PlacesInv, OrderInv, QueuesInOrder
<1> QED
  BY <1>1, <1>2, <1>3, <1>4, <1>5, <1>6, <1>8, <1>9

\* What a step of the sender on its own M_PDUs has to show.
LEMMA SenderStep ==
    ASSUME PlacesInv, sent' = sent, multi' = multi, Beyond,
           SizesInv', QueueInv', UnitInv', ListInv', FillingInv', ListWhole', MpdusWhole',
           InOrder(Places'), Ascends(Datas(mpdus))', Ascends(Datas(mpdu_list))',
           Ascends(msg_queue)',
           \A x \in InHand(Places) : x \in InHand(Places')
    PROVE  PlacesInv'
<1>1. /\ WireWhole' /\ UnitsWhole' /\ AtHandInv' /\ EncapInv' /\ OutInv' /\ SentInv'
      /\ Ascends(Datas(units))' /\ Ascends(Datas(Pdus(wire)))'
      /\ delivered' = delivered /\ hurt' = hurt
  BY BeyondStays
<1>2. Kept'
  BY <1>1, KeptStays DEF PlacesInv, SenderInv
<1>3. OrderInv'
  BY <1>1 DEF OrderInv, QueuesInOrder
<1> QED
  BY <1>1, <1>2, <1>3 DEF PlacesInv, SenderInv, ZonesInv

LEMMA FromNothing ==
    ASSUME NEW i \in Nat \ {0}
    PROVE  From(<<>>, i) = {}
<1>1. Len(<<>>) = 0 /\ i..0 = {}
  OBVIOUS
<1> QED
  BY <1>1 DEF From

LEMMA SenderTypes ==
    ASSUME TypeInv
    PROVE  /\ msg_queue \in Seq(Seq(Octet)) /\ sent \in Seq(Packet) /\ netdata \in Seq(Octet)
           /\ netdataIdx \in Nat /\ mpdu_list \in Seq(Pdu) /\ mpdus \in Seq(Pdu)
           /\ multi \in BOOLEAN /\ immediate \in BOOLEAN /\ firstHeaderIndexSet \in BOOLEAN
           /\ frameSize \in Nat \ {0} /\ frameSize \in Lengths /\ frameSize <= DataFieldLen
           /\ Len(sent) \in Nat /\ Len(msg_queue) \in Nat /\ Len(mpdu_list) \in Nat
           /\ Len(mpdus) \in Nat /\ Len(netdata) \in Nat
           /\ mpdu # NoPdu => mpdu \in Pdu /\ mpdu.fhi \in Nat /\ mpdu.fhi \in Pointer
                              /\ mpdu.data \in Seq(Octet) /\ Len(mpdu.data) \in Nat
<1>1. /\ msg_queue \in Seq(Seq(Octet)) /\ sent \in Seq(Packet) /\ netdata \in Seq(Octet)
      /\ netdataIdx \in Nat /\ mpdu_list \in Seq(Pdu) /\ mpdus \in Seq(Pdu)
      /\ multi \in BOOLEAN /\ immediate \in BOOLEAN /\ firstHeaderIndexSet \in BOOLEAN
      /\ frameSize \in Lengths /\ (mpdu # NoPdu => mpdu \in Pdu)
  BY DEF TypeInv, AddTypes, AddTypeOK, LinkTypes
<1>2. frameSize \in 1..DataFieldLen /\ DataFieldLen \in Nat
  BY <1>1, LengthsSmall, FieldLen
<1>3. Len(sent) \in Nat /\ Len(msg_queue) \in Nat /\ Len(mpdu_list) \in Nat
      /\ Len(mpdus) \in Nat /\ Len(netdata) \in Nat
  BY <1>1
<1>4. mpdu # NoPdu => mpdu.fhi \in Nat /\ mpdu.fhi \in Pointer
                      /\ mpdu.data \in Seq(Octet) /\ Len(mpdu.data) \in Nat
  BY <1>1, PduFields
<1> QED
  BY <1>1, <1>2, <1>3, <1>4

LEMMA GetDataPlaces ==
    ASSUME TypeInv, PlacesInv, GetData, Beyond
    PROVE  PlacesInv'
<1>1. /\ phase = "get" /\ msg_queue # <<>> /\ netdata' = Head(msg_queue) /\ netdataIdx' = 0
      /\ msg_queue' = Tail(msg_queue) /\ zone' = length /\ phase' = "copy"
      /\ Settled /\ mpdu' = mpdu /\ firstHeaderIndexSet' = firstHeaderIndexSet
      /\ mpdu_list' = mpdu_list /\ mpdus' = mpdus
  BY DEF GetData, settings, Settled
<1>2. sent' = sent /\ multi' = multi /\ immediate' = immediate /\ length' = length
  BY <1>1 DEF Settled
<1>3. /\ frameSize' = frameSize /\ \A s \in 1..5 : Places'[s] = Places[s]
  BY <1>2, BeyondStays
<1>4. /\ Head(msg_queue) = msg_queue[1] /\ Len(msg_queue) \in Nat \ {0}
      /\ msg_queue' \in Seq(Seq(Octet)) /\ Len(msg_queue') = Len(msg_queue) - 1
      /\ \A i \in 1..Len(msg_queue') : msg_queue'[i] = msg_queue[i + 1]
  BY <1>1, SenderTypes, QueueTail
<1>5. /\ OfAll(msg_queue) = From(netdata', 1) \cup OfAll(msg_queue')
      /\ Ascends(msg_queue') /\ AllBefore(From(netdata', 1), OfAll(msg_queue'))
  <2>1. Ascends(msg_queue)
    BY DEF PlacesInv, OrderInv, QueuesInOrder
  <2> QED
    BY <1>1, <1>4, <2>1, OfTail
<1>6. SizesInv'
  BY <1>1, <1>2, <1>3 DEF SizesInv, PlacesInv, SenderInv
<1>7. QueueInv'
  <2>1. \A i \in 1..Len(msg_queue') : i + 1 \in 1..Len(msg_queue)
    BY <1>4
  <2> QED
    BY <1>2, <1>4, <2>1 DEF QueueInv, PlacesInv, SenderInv
<1>8. UnitInv'
  <2>1. 1 \in 1..Len(msg_queue)
    BY <1>4
  <2>2. PICK p \in 1..Len(sent) : msg_queue[1] = OctetsOf(sent[p])
    BY <2>1 DEF QueueInv, PlacesInv, SenderInv, APacket
  <2>3. Len(netdata') \in Nat \ {0}
    BY <1>1, <1>4, <2>2, PacketsSent DEF PlacesInv, SenderInv
  <2> QED
    BY <1>1, <1>2, <1>4, <2>2, <2>3 DEF UnitInv, APacket
<1>9. ListInv'
  BY <1>1, <1>2 DEF ListInv, PlacesInv, SenderInv
<1>10. FillingInv'
  BY <1>1, <1>2, <1>3 DEF FillingInv, PlacesInv, SenderInv
<1>11. ListWhole' /\ MpdusWhole'
  BY <1>1, <1>2, <1>3 DEF ListWhole, MpdusWhole, PlacesInv, ZonesInv
<1>12. Ascends(Datas(mpdus))' /\ Ascends(Datas(mpdu_list))'
  BY <1>1 DEF PlacesInv, OrderInv, QueuesInOrder
<1>13. /\ Places'[6] = Places[6] /\ Places'[7] = Places[7] /\ Places'[8] = Places[8]
       /\ Places[9] = {} /\ Places'[9] = From(netdata', 1) /\ Places'[10] = OfAll(msg_queue')
       /\ Places[10] = OfAll(msg_queue)
  <2>1. netdata = <<>> /\ netdataIdx + 1 \in Nat \ {0}
    BY <1>1, SenderTypes DEF PlacesInv, SenderInv, UnitInv
  <2>2. 0 + 1 = 1
    OBVIOUS
  <2>3. Places'[9] = From(netdata', 0 + 1)
    BY <1>1, PlaceIsNext
  <2>4. Places[9] = {}
    BY <2>1, FromNothing, PlaceIs
  <2> QED
    BY <1>1, <2>2, <2>3, <2>4, PlaceIs, PlaceIsNext DEF Filling
<1>14. \A s \in 1..10 : s # 9 /\ s # 10 => Places'[s] = Places[s]
  <2>1. \A s \in 1..10 : s \in 1..5 \/ s = 6 \/ s = 7 \/ s = 8 \/ s = 9 \/ s = 10
    OBVIOUS
  <2> QED
    BY <1>3, <1>13, <2>1
<1>15. InOrder(Places')
  <2>1. InOrder(Places)
    BY DEF PlacesInv, OrderInv
  <2>2. \A s \in 1..10 : s # 9 => Places'[s] \subseteq Places[s]
    BY <1>5, <1>13, <1>14
  <2>3. \A s \in 1..10 : ~(9 < s /\ s < 10)
    OBVIOUS
  <2>4. /\ \A x \in Places'[9] : x \in Places[9] \/ x \in From(netdata', 1)
        /\ \A x \in From(netdata', 1) :
               x \in Places[10] /\ \A y \in Places'[10] : Before(x, y)
    BY <1>5, <1>13 DEF AllBefore
  <2> QED
    BY <2>1, <2>2, <2>3, <2>4, MovesDown
<1>16. ASSUME NEW x, x \in InHand(Places) PROVE x \in InHand(Places')
  <2>1. PICK s \in 2..10 : x \in Places[s]
    BY <1>16, InHandIs
  <2>2. s \in 1..10 /\ 9 \in 2..10 /\ 10 \in 2..10
    OBVIOUS
  <2>3. x \in Places'[s] \/ x \in Places'[9] \/ x \in Places'[10]
    BY <1>5, <1>13, <1>14, <2>1, <2>2
  <2> QED
    BY <2>2, <2>3, InHandIs
<1> QED
  BY <1>2, <1>5, <1>6, <1>7, <1>8, <1>9, <1>10, <1>11, <1>12, <1>15, <1>16, SenderStep

LEMMA WaitPlaces ==
    ASSUME TypeInv, PlacesInv, Wait, Beyond
    PROVE  PlacesInv'
<1>1. /\ phase = "last" /\ multi /\ immediate /\ phase' = "get" /\ Settled
      /\ UNCHANGED <<msg_queue, zone, netdata, netdataIdx, mpdu, firstHeaderIndexSet,
                     mpdu_list, mpdus>>
  BY DEF Wait, settings, Settled
<1>2. sent' = sent /\ multi' = multi /\ immediate' = immediate /\ length' = length
  BY <1>1 DEF Settled
<1>3. /\ frameSize' = frameSize /\ \A s \in 1..5 : Places'[s] = Places[s]
  BY <1>2, BeyondStays
<1>4. SizesInv' /\ QueueInv' /\ ListInv'
  BY <1>1, <1>2, <1>3 DEF SizesInv, QueueInv, ListInv, PlacesInv, SenderInv
<1>5. UnitInv'
  BY <1>1, <1>2 DEF UnitInv, PlacesInv, SenderInv
<1>6. FillingInv'
  <2>1. multi = TRUE /\ immediate = TRUE
    BY <1>1, SenderTypes
  <2> QED
    BY <1>1, <1>2, <1>3, <2>1 DEF FillingInv, PlacesInv, SenderInv
<1>7. ListWhole' /\ MpdusWhole'
  BY <1>1, <1>2, <1>3 DEF ListWhole, MpdusWhole, PlacesInv, ZonesInv
<1>8. Ascends(Datas(mpdus))' /\ Ascends(Datas(mpdu_list))' /\ Ascends(msg_queue)'
  BY <1>1 DEF PlacesInv, OrderInv, QueuesInOrder
<1>9. \A s \in 1..10 : Places'[s] = Places[s]
  <2>1. \A s \in 1..10 : s \in 1..5 \/ s = 6 \/ s = 7 \/ s = 8 \/ s = 9 \/ s = 10
    OBVIOUS
  <2>2. /\ Places'[6] = Places[6] /\ Places'[7] = Places[7] /\ Places'[8] = Places[8]
        /\ Places'[9] = Places[9] /\ Places'[10] = Places[10]
    BY <1>1, PlaceIs, PlaceIsNext DEF Filling
  <2> QED
    BY <1>3, <2>1, <2>2
<1>10. InOrder(Places')
  BY <1>9, FewerInOrder DEF PlacesInv, OrderInv
<1>11. \A x \in InHand(Places) : x \in InHand(Places')
  <2>1. \A s \in 2..10 : Places'[s] = Places[s]
    BY <1>9
  <2> QED
    BY <2>1, InHandIs
<1> QED
  BY <1>2, <1>4, <1>5, <1>6, <1>7, <1>8, <1>10, <1>11, SenderStep

-----------------------------------------------------------------------------
\* M_PDUs that are full leave.
LEMMA SeqSame ==
    ASSUME NEW S, NEW a \in Seq(S), NEW c \in Seq(S), Len(a) = Len(c),
           \A i \in 1..Len(a) : a[i] = c[i]
    PROVE  a = c
  OBVIOUS

LEMMA SendsWhole ==
    ASSUME NEW g \in Pdu, Len(g.data) = g.cap, Send(g)
    PROVE  mpdus' = Append(mpdus, g)
<1>1. g.data \in Seq(Octet) /\ Len(g.data) \in Nat /\ g.cap \in Nat
  BY PduFields
<1>10. ~(Len(g.data) < g.cap)
  BY <1>1
<1>2. PICK u \in {FillPacket} :
          mpdus' = Append(mpdus, [g EXCEPT !.data =
                       g.data \o [i \in 1..g.cap - Len(g.data) |-> [pkt |-> u, k |-> 0]]])
  BY <1>10 DEF Send
<1>3. g.cap - Len(g.data) = 0
  BY <1>1
<1> DEFINE e == [i \in 1..0 |-> [pkt |-> u, k |-> 0]]
<1>4. u \in Packet /\ 0 \in Nat
  BY UnwrittenPackets
<1>5. e \in Seq(Octet) /\ Len(e) = 0
  BY <1>4, Padding
<1> HIDE DEF e
<1>6. /\ g.data \o e \in Seq(Octet) /\ Len(g.data \o e) = Len(g.data)
      /\ \A i \in 1..Len(g.data) : (g.data \o e)[i] = g.data[i]
  BY <1>1, <1>5, Concat
<1>7. g.data \o e = g.data
  BY <1>1, <1>6, SeqSame
<1>8. [g EXCEPT !.data = g.data] = g
  BY DEF Pdu
<1>9. mpdus' = Append(mpdus, [g EXCEPT !.data = g.data \o e])
  BY <1>2, <1>3 DEF e
<1> QED
  BY <1>7, <1>8, <1>9

LEMMA QueueGrows ==
    ASSUME NEW s, NEW m, NEW n, NEW q \in Seq(Pdu), NEW g \in Pdu, Whole(s, m, n, g),
           \A i \in 1..Len(q) : Whole(s, m, n, q[i])
    PROVE  \A i \in 1..Len(Append(q, g)) : Whole(s, m, n, Append(q, g)[i])
<1>1. /\ Len(q) \in Nat /\ Len(Append(q, g)) = Len(q) + 1
      /\ \A i \in 1..Len(q) : Append(q, g)[i] = q[i]
      /\ Append(q, g)[Len(q) + 1] = g
  BY QueueAppend
<1> SUFFICES ASSUME NEW i \in 1..Len(Append(q, g)) PROVE Whole(s, m, n, Append(q, g)[i])
  OBVIOUS
<1>2. i \in 1..Len(q) \/ i = Len(q) + 1
  BY <1>1
<1> QED
  BY <1>1, <1>2

\* From being filled to being kept, or sent.
LEMMA HandOn ==
    ASSUME TypeInv, PlacesInv, sent' = sent, multi' = multi, immediate' = immediate,
           Beyond, NEW g, Whole(sent, multi, frameSize, g), SendOrKeep(g),
           NEW P, InOrder(P), P[6] = OfAll(Datas(mpdus)), P[7] = OfAll(Datas(mpdu_list)),
           P[8] = From(g.data, 1), Places'[8] = {},
           \A s \in 1..10 : s \notin {6, 7, 8} => Places'[s] = P[s]
    PROVE  /\ ListInv' /\ MpdusWhole' /\ ListWhole'
           /\ Ascends(Datas(mpdus))' /\ Ascends(Datas(mpdu_list))'
           /\ InOrder(Places') /\ \A x \in InHand(P) : x \in InHand(Places')
<1>0. /\ g \in Pdu /\ Len(g.data) = g.cap /\ mpdus \in Seq(Pdu) /\ mpdu_list \in Seq(Pdu)
      /\ immediate \in BOOLEAN /\ frameSize' = frameSize
      /\ Ascends(Datas(mpdus)) /\ Ascends(Datas(mpdu_list))
  BY SenderTypes, BeyondStays DEF Whole, PlacesInv, OrderInv, QueuesInOrder
<1>01. /\ \A i \in 1..Len(mpdus) : Whole(sent, multi, frameSize, mpdus[i])
       /\ \A i \in 1..Len(mpdu_list) : Whole(sent, multi, frameSize, mpdu_list[i])
  BY DEF PlacesInv, ZonesInv, MpdusWhole, ListWhole
<1>02. AllBefore(P[6], P[8]) /\ AllBefore(P[7], P[8])
  <2>1. 6 \in 1..10 /\ 7 \in 1..10 /\ 8 \in 1..10 /\ 6 < 8 /\ 7 < 8
    OBVIOUS
  <2> QED
    BY <2>1 DEF InOrder
<1>03. Places'[6] = OfAll(Datas(mpdus)') /\ Places'[7] = OfAll(Datas(mpdu_list)')
  BY PlaceIsNext
<1>04. Places'[8] = {} /\ P[8] = From(g.data, 1)
  OBVIOUS
<1>1. CASE immediate = TRUE
  <2>1. mpdus' = Append(mpdus, g) /\ mpdu_list' = mpdu_list /\ mpdu_list = <<>>
    <3>1. Send(g) /\ mpdu_list' = mpdu_list
      BY <1>1 DEF SendOrKeep
    <3>2. mpdu_list = <<>>
      BY <1>1 DEF PlacesInv, SenderInv, ListInv
    <3> QED
      BY <1>0, <3>1, <3>2, SendsWhole
  <2>2. ListInv' /\ ListWhole' /\ Ascends(Datas(mpdu_list))'
    <3>1. Datas(mpdu_list)' = Datas(mpdu_list)
      BY <2>1
    <3> QED
      BY <1>0, <1>01, <2>1, <3>1 DEF ListInv, ListWhole
  <2>3. MpdusWhole'
    BY <1>0, <1>01, <2>1, QueueGrows DEF MpdusWhole
  <2>4. /\ OfAll(Datas(mpdus)') = OfAll(Datas(mpdus)) \cup From(g.data, 1)
        /\ Ascends(Datas(mpdus))'
    BY <1>0, <1>02, <2>1, DatasAppend
  <2>5. Places'[7] = {} /\ P[7] = {}
    <3>1. Len(<<>>) = 0
      OBVIOUS
    <3>2. Len(Datas(mpdu_list)) = 0
      BY <1>0, <2>1, <3>1, DatasIs
    <3>3. OfAll(Datas(mpdu_list)) = {}
      BY <3>2, OfNone
    <3> QED
      BY <1>03, <2>1, <3>3
  <2>6. InOrder(Places')
    <3>1. \A s \in 1..10 : s # 6 => Places'[s] \subseteq P[s]
      BY <2>5
    <3>2. \A s \in 1..10 : 6 < s /\ s < 8 => Places'[s] = {}
      <4>1. \A s \in 1..10 : 6 < s /\ s < 8 => s = 7
        OBVIOUS
      <4> QED
        BY <2>5, <4>1
    <3>3. \A x \in Places'[6] : x \in P[6] \/ x \in From(g.data, 1)
      BY <1>03, <2>4
    <3>4. 6 \in 1..10 /\ 8 \in 1..10 /\ 6 < 8
          /\ \A x \in From(g.data, 1) : x \in P[8] /\ \A y \in Places'[8] : Before(x, y)
      BY <1>04
    <3> QED
      BY <3>1, <3>2, <3>3, <3>4, MovesDown
  <2>7. ASSUME NEW x, x \in InHand(P) PROVE x \in InHand(Places')
    <3>1. PICK s \in 2..10 : x \in P[s]
      BY <2>7, InHandIs
    <3>2. s \in 1..10 /\ 6 \in 2..10
      OBVIOUS
    <3>3. x \in Places'[s] \/ x \in Places'[6]
      BY <1>03, <2>4, <2>5, <3>1, <3>2
    <3> QED
      BY <3>2, <3>3, InHandIs
  <2> QED
    BY <2>2, <2>3, <2>4, <2>6, <2>7
<1>2. CASE immediate = FALSE
  <2>1. mpdu_list' = Append(mpdu_list, g) /\ mpdus' = mpdus
    BY <1>2 DEF SendOrKeep
  <2>2. ListInv' /\ MpdusWhole' /\ Ascends(Datas(mpdus))'
    <3>1. Datas(mpdus)' = Datas(mpdus)
      BY <2>1
    <3> QED
      BY <1>0, <1>01, <1>2, <2>1, <3>1 DEF ListInv, MpdusWhole
  <2>3. ListWhole'
    BY <1>0, <1>01, <2>1, QueueGrows DEF ListWhole
  <2>4. /\ OfAll(Datas(mpdu_list)') = OfAll(Datas(mpdu_list)) \cup From(g.data, 1)
        /\ Ascends(Datas(mpdu_list))'
    BY <1>0, <1>02, <2>1, DatasAppend
  <2>5. Places'[6] = P[6]
    BY <1>03, <2>1
  <2>6. InOrder(Places')
    <3>1. \A s \in 1..10 : s # 7 => Places'[s] \subseteq P[s]
      BY <2>5
    <3>2. \A s \in 1..10 : ~(7 < s /\ s < 8)
      OBVIOUS
    <3>3. \A x \in Places'[7] : x \in P[7] \/ x \in From(g.data, 1)
      BY <1>03, <2>4
    <3>4. 7 \in 1..10 /\ 8 \in 1..10 /\ 7 < 8
          /\ \A x \in From(g.data, 1) : x \in P[8] /\ \A y \in Places'[8] : Before(x, y)
      BY <1>04
    <3> QED
      BY <3>1, <3>2, <3>3, <3>4, MovesDown
  <2>7. ASSUME NEW x, x \in InHand(P) PROVE x \in InHand(Places')
    <3>1. PICK s \in 2..10 : x \in P[s]
      BY <2>7, InHandIs
    <3>2. s \in 1..10 /\ 7 \in 2..10
      OBVIOUS
    <3>3. x \in Places'[s] \/ x \in Places'[7]
      BY <1>03, <2>4, <2>5, <3>1, <3>2
    <3> QED
      BY <3>2, <3>3, InHandIs
  <2> QED
    BY <2>2, <2>3, <2>4, <2>6, <2>7
<1> QED
  BY <1>0, <1>1, <1>2

LEMMA TopUpPlaces ==
    ASSUME TypeInv, PlacesInv, TopUp, Beyond
    PROVE  PlacesInv'
<1>1. /\ phase = "last" /\ SendOrKeep(Filled(mpdu)) /\ mpdu' = NoPdu /\ phase' = "send"
      /\ Settled /\ UNCHANGED <<msg_queue, zone, netdata, netdataIdx>>
  BY DEF TopUp, settings, Settled
<1>2. sent' = sent /\ multi' = multi /\ immediate' = immediate /\ length' = length
  BY <1>1 DEF Settled
<1>3. /\ frameSize' = frameSize /\ \A s \in 1..5 : Places'[s] = Places[s]
  BY <1>2, BeyondStays
<1>4. /\ mpdu # NoPdu /\ mpdu \in Pdu /\ mpdu.data \in Seq(Octet) /\ Len(mpdu.data) \in Nat
      /\ mpdu.fhi \in Nat /\ mpdu.fhi \in Pointer
      /\ frameSize \in Nat /\ frameSize <= DataFieldLen
  BY <1>1, SenderTypes DEF TypeInv, AddTypes
<1>5. /\ mpdu.cap = frameSize /\ Len(mpdu.data) \in 1..frameSize - 1
      /\ Laid(sent, multi, mpdu.data) /\ Closed(mpdu.data)
      /\ IF firstHeaderIndexSet THEN Points(mpdu.data, mpdu.fhi)
                                ELSE NoStart(mpdu.data, Len(mpdu.data))
  BY <1>4 DEF PlacesInv, SenderInv, FillingInv
<1> DEFINE a == mpdu.data
           e == RawFill(frameSize - Len(a))
           c == a \o e
           g == Filled(mpdu)
<1>6. /\ frameSize - Len(a) \in Nat \ {0} /\ Laid(sent, multi, e) /\ Len(e) = frameSize - Len(a)
      /\ From(e, 1) = {} /\ \A i \in 1..Len(e) : e[i] = FillOctet
      /\ e \in Seq(Octet)
  <2>1. frameSize - Len(a) \in Nat \ {0}
    BY <1>4, <1>5
  <2> QED
    BY <2>1, FillLaid DEF Laid
<1> HIDE DEF e
<1>7. Joins(c, a, e) /\ Len(c) = frameSize
  <2>1. c \in Seq(Octet) /\ Len(c) = Len(a) + Len(e)
        /\ (\A j \in 1..Len(a) : c[j] = a[j]) /\ (\A j \in 1..Len(e) : c[Len(a) + j] = e[j])
    BY <1>4, <1>6, Concat
  <2> QED
    BY <1>4, <1>6, <2>1 DEF Joins
<1> HIDE DEF c
<1>70. a \in Seq(Octet) /\ e \in Seq(Octet) /\ Joins(c, a, e)
  BY <1>4, <1>6, <1>7
<1>8. e[1] = FillOctet /\ e[1].k = 0 /\ Len(e) > 0
  <2>1. 1 \in 1..Len(e)
    BY <1>6
  <2> QED
    BY <1>6, <2>1, FillFields
<1>9. From(c, 1) = From(a, 1)
  <2> HIDE DEF a
  <2>1. From(c, 1) = From(a, 1) \cup From(e, 1)
    BY <1>70, JoinFrom
  <2> QED
    BY <1>6, <2>1
<1>10. Laid(sent, multi, c)
  <2>1. AllBefore(From(a, 1), From(e, 1))
    BY <1>6 DEF AllBefore
  <2> HIDE DEF a
  <2> QED
    BY <1>5, <1>6, <1>7, <1>8, <2>1, JoinLaid DEF a
<1>11. g = [mpdu EXCEPT !.data = c, !.fhi = IF firstHeaderIndexSet THEN mpdu.fhi ELSE Len(a)]
  BY <1>5 DEF Filled, c, e
<1>12. /\ (IF firstHeaderIndexSet THEN mpdu.fhi ELSE Len(a)) \in Pointer
       /\ (IF firstHeaderIndexSet THEN mpdu.fhi ELSE Len(a)) \in Nat
       /\ (IF firstHeaderIndexSet THEN mpdu.fhi ELSE Len(a)) # NoPacketStart
       /\ Points(c, IF firstHeaderIndexSet THEN mpdu.fhi ELSE Len(a))
  <2>1. DataFieldLen \in 1..2045 /\ DataFieldLen \in Nat
    BY FrameAssumption
  <2>2. CASE firstHeaderIndexSet
    <3>1. Points(a, mpdu.fhi) /\ mpdu.fhi < Len(a)
      BY <1>5, <2>2 DEF Points
    <3>2. Points(c, mpdu.fhi)
      BY <1>4, <1>6, <1>7, <3>1, JoinStarts
    <3>3. mpdu.fhi # NoPacketStart
      BY <1>4, <1>5, <2>1, <3>1 DEF NoPacketStart
    <3> QED
      BY <1>4, <2>2, <3>2, <3>3
  <2>3. CASE ~firstHeaderIndexSet
    <3>1. Points(c, Len(a))
      <4>1. NoStart(a, Len(a)) /\ Len(e) > 0 /\ e[1].k = 0
        BY <1>5, <1>8, <2>3
      <4> HIDE DEF a
      <4> QED
        BY <1>70, <4>1, JoinStarts
    <3>2. Len(a) # NoPacketStart /\ Len(a) \in Pointer
      <4>1. Len(a) \in Nat /\ Len(a) <= DataFieldLen
        <5>1. \A n, f, d \in Nat : n \in 1..f - 1 /\ f <= d => n <= d
          OBVIOUS
        <5> QED
          BY <1>4, <1>5, <5>1, FieldLen
      <4>2. \A n \in Nat : n <= DataFieldLen => n \in Pointer /\ n # NoPacketStart
        BY FrameAssumption DEF NoPacketStart, Pointer
      <4> QED
        BY <4>1, <4>2
    <3> QED
      BY <1>4, <2>3, <3>1, <3>2
  <2> QED
    BY <2>2, <2>3
<1>13. g \in Pdu /\ g.cap = frameSize /\ g.data = c
       /\ g.fhi = IF firstHeaderIndexSet THEN mpdu.fhi ELSE Len(a)
  <2>1. c \in Seq(Octet)
    BY <1>7 DEF Joins
  <2> DEFINE h == IF firstHeaderIndexSet THEN mpdu.fhi ELSE Len(a)
  <2> HIDE DEF h
  <2>2. g = [mpdu EXCEPT !.data = c, !.fhi = h]
    BY <1>11 DEF h
  <2>3. h \in Pointer
    BY <1>12 DEF h
  <2>4. g \in Pdu
    <3>1. [mpdu EXCEPT !.data = c, !.fhi = h] \in Pdu
      BY <1>4, <2>1, <2>3, PduExcept
    <3> QED
      BY <2>2, <3>1
  <2>5. g.cap = mpdu.cap /\ g.data = c /\ g.fhi = h
    BY <1>4, <2>2 DEF Pdu
  <2> QED
    BY <1>5, <2>4, <2>5 DEF h
<1>14. Whole(sent, multi, frameSize, g)
  <2>1. 1 \in 1..Len(a)
    BY <1>4, <1>5
  <2>2. a[1] # FillOctet
    BY <1>5, <2>1 DEF Closed
  <2>3. c[1] # FillOctet
    BY <1>7, <2>1, <2>2 DEF Joins
  <2> QED
    BY <1>7, <1>10, <1>12, <1>13, <2>3 DEF Whole
<1>15. Places[8] = From(g.data, 1) /\ Places'[8] = {} /\ Places'[9] = Places[9]
       /\ Places'[10] = Places[10]
       /\ Places[6] = OfAll(Datas(mpdus)) /\ Places[7] = OfAll(Datas(mpdu_list))
  BY <1>1, <1>4, <1>9, <1>13, PlaceIs, PlaceIsNext DEF Filling
<1>16. \A s \in 1..10 : s \notin {6, 7, 8} => Places'[s] = Places[s]
  <2>1. \A s \in 1..10 : s \in 1..5 \/ s \in {6, 7, 8} \/ s = 9 \/ s = 10
    OBVIOUS
  <2> QED
    BY <1>3, <1>15, <2>1
<1>17. InOrder(Places)
  BY DEF PlacesInv, OrderInv
<1> HIDE DEF g
<1>18. /\ ListInv' /\ MpdusWhole' /\ ListWhole'
       /\ Ascends(Datas(mpdus))' /\ Ascends(Datas(mpdu_list))'
       /\ InOrder(Places') /\ \A x \in InHand(Places) : x \in InHand(Places')
  <2>1. SendOrKeep(g)
    BY <1>1 DEF g
  <2> QED
    BY <1>2, <1>14, <1>15, <1>16, <1>17, <2>1, HandOn
<1>19. SizesInv' /\ QueueInv'
  BY <1>1, <1>2, <1>3 DEF SizesInv, QueueInv, PlacesInv, SenderInv
<1>20. UnitInv' /\ FillingInv'
  BY <1>1, <1>2 DEF UnitInv, FillingInv, PlacesInv, SenderInv
<1>21. Ascends(msg_queue)'
  BY <1>1 DEF PlacesInv, OrderInv, QueuesInOrder
<1> QED
  BY <1>2, <1>18, <1>19, <1>20, <1>21, SenderStep

\* svc() sends the list, one M_PDU after another.
LEMMA SendListPlaces ==
    ASSUME TypeInv, PlacesInv, SendList, Beyond
    PROVE  PlacesInv'
<1>1. /\ phase = "send" /\ Settled
      /\ UNCHANGED <<msg_queue, zone, netdata, netdataIdx, mpdu, firstHeaderIndexSet>>
  BY DEF SendList, settings, Settled
<1>2. sent' = sent /\ multi' = multi /\ immediate' = immediate /\ length' = length
  BY <1>1 DEF Settled
<1>3. /\ frameSize' = frameSize /\ \A s \in 1..5 : Places'[s] = Places[s]
  BY <1>2, BeyondStays
<1>4. SizesInv' /\ QueueInv'
  BY <1>1, <1>2, <1>3 DEF SizesInv, QueueInv, PlacesInv, SenderInv
<1>5. mpdu = NoPdu /\ netdata = <<>>
  BY <1>1 DEF PlacesInv, SenderInv, FillingInv, UnitInv
<1>6. FillingInv'
  BY <1>1, <1>5 DEF FillingInv
<1>7. /\ Ascends(msg_queue)' /\ Ascends(Datas(mpdus)) /\ Ascends(Datas(mpdu_list))
      /\ InOrder(Places)
  BY <1>1 DEF PlacesInv, OrderInv, QueuesInOrder
<1>8. /\ Places'[8] = Places[8] /\ Places'[9] = Places[9] /\ Places'[10] = Places[10]
      /\ Places[6] = OfAll(Datas(mpdus)) /\ Places[7] = OfAll(Datas(mpdu_list))
      /\ Places'[6] = OfAll(Datas(mpdus)') /\ Places'[7] = OfAll(Datas(mpdu_list)')
  BY <1>1, PlaceIs, PlaceIsNext DEF Filling
<1>9. \A s \in 1..10 : s # 6 /\ s # 7 => Places'[s] = Places[s]
  <2>1. \A s \in 1..10 : s \in 1..5 \/ s = 6 \/ s = 7 \/ s = 8 \/ s = 9 \/ s = 10
    OBVIOUS
  <2> QED
    BY <1>3, <1>8, <2>1
<1>10. CASE mpdu_list = <<>>
  <2>1. phase' = "get" /\ mpdu_list' = mpdu_list /\ mpdus' = mpdus
    BY <1>10 DEF SendList
  <2>2. Datas(mpdus)' = Datas(mpdus) /\ Datas(mpdu_list)' = Datas(mpdu_list)
    BY <2>1
  <2>3. UnitInv' /\ ListInv'
    BY <1>1, <1>2, <1>5, <2>1 DEF UnitInv, ListInv, PlacesInv, SenderInv
  <2>4. ListWhole' /\ MpdusWhole'
    BY <1>2, <1>3, <2>1 DEF ListWhole, MpdusWhole, PlacesInv, ZonesInv
  <2>5. \A s \in 1..10 : Places'[s] = Places[s]
    BY <1>8, <1>9, <2>2
  <2>6. InOrder(Places')
    BY <1>7, <2>5, FewerInOrder
  <2>7. \A x \in InHand(Places) : x \in InHand(Places')
    <3>1. \A s \in 2..10 : Places'[s] = Places[s]
      BY <2>5
    <3> QED
      BY <3>1, InHandIs
  <2>8. Ascends(Datas(mpdus))' /\ Ascends(Datas(mpdu_list))'
    BY <1>7, <2>2
  <2> QED
    BY <1>2, <1>4, <1>6, <1>7, <2>3, <2>4, <2>6, <2>7, <2>8, SenderStep
<1>11. CASE mpdu_list # <<>>
  <2>0. Send(Head(mpdu_list)) /\ mpdu_list' = Tail(mpdu_list) /\ phase' = phase
    BY <1>11 DEF SendList
  <2>1. /\ mpdus \in Seq(Pdu) /\ mpdu_list \in Seq(Pdu) /\ Len(mpdu_list) \in Nat \ {0}
        /\ Head(mpdu_list) = mpdu_list[1] /\ 1 \in 1..Len(mpdu_list)
        /\ mpdu_list' \in Seq(Pdu) /\ Len(mpdu_list') = Len(mpdu_list) - 1
        /\ \A i \in 1..Len(mpdu_list') : mpdu_list'[i] = mpdu_list[i + 1]
    BY <1>11, <2>0, SenderTypes, QueueTail
  <2>2. PICK g : g = mpdu_list[1]
    OBVIOUS
  <2>3. /\ Whole(sent, multi, frameSize, g) /\ g \in Pdu /\ Len(g.data) = g.cap
        /\ \A i \in 1..Len(mpdus) : Whole(sent, multi, frameSize, mpdus[i])
    BY <2>1, <2>2 DEF PlacesInv, ZonesInv, ListWhole, MpdusWhole, Whole
  <2>4. mpdus' = Append(mpdus, g)
    BY <2>0, <2>1, <2>2, <2>3, SendsWhole
  <2>5. /\ OfAll(Datas(mpdu_list)) = From(g.data, 1) \cup OfAll(Datas(mpdu_list)')
        /\ Ascends(Datas(mpdu_list)')
        /\ AllBefore(From(g.data, 1), OfAll(Datas(mpdu_list)'))
    BY <1>7, <1>11, <2>0, <2>1, <2>2, DatasTail
  <2>6. AllBefore(OfAll(Datas(mpdus)), From(g.data, 1))
    <3>1. 6 \in 1..10 /\ 7 \in 1..10 /\ 6 < 7
      OBVIOUS
    <3>2. AllBefore(Places[6], Places[7])
      BY <1>7, <3>1 DEF InOrder
    <3> QED
      BY <1>8, <2>5, <3>2 DEF AllBefore
  <2>7. /\ OfAll(Datas(mpdus)') = OfAll(Datas(mpdus)) \cup From(g.data, 1)
        /\ Ascends(Datas(mpdus)')
    BY <1>7, <2>1, <2>3, <2>4, <2>6, DatasAppend
  <2>8. UnitInv' /\ ListInv'
    <3>1. immediate = FALSE
      BY <1>11, SenderTypes DEF ListInv, PlacesInv, SenderInv
    <3> QED
      BY <1>1, <1>2, <1>5, <2>0, <3>1 DEF UnitInv, ListInv
  <2>9. ListWhole' /\ MpdusWhole'
    <3>1. MpdusWhole'
      BY <1>2, <1>3, <2>1, <2>3, <2>4, QueueGrows DEF MpdusWhole
    <3>2. \A i \in 1..Len(mpdu_list') : i + 1 \in 1..Len(mpdu_list)
      BY <2>1
    <3> QED
      BY <1>2, <1>3, <2>1, <3>1, <3>2 DEF ListWhole, PlacesInv, ZonesInv
  <2>10. InOrder(Places')
    <3>1. \A s \in 1..10 : s # 6 => Places'[s] \subseteq Places[s]
      BY <1>8, <1>9, <2>5
    <3>2. \A s \in 1..10 : ~(6 < s /\ s < 7)
      OBVIOUS
    <3>3. \A x \in Places'[6] : x \in Places[6] \/ x \in From(g.data, 1)
      BY <1>8, <2>7
    <3>4. 6 \in 1..10 /\ 7 \in 1..10 /\ 6 < 7
          /\ \A x \in From(g.data, 1) : x \in Places[7] /\ \A y \in Places'[7] : Before(x, y)
      BY <1>8, <2>5 DEF AllBefore
    <3> QED
      BY <1>7, <3>1, <3>2, <3>3, <3>4, MovesDown
  <2>11. ASSUME NEW x, x \in InHand(Places) PROVE x \in InHand(Places')
    <3>1. PICK s \in 2..10 : x \in Places[s]
      BY <2>11, InHandIs
    <3>2. s \in 1..10 /\ 6 \in 2..10 /\ 7 \in 2..10
      OBVIOUS
    <3>3. x \in Places'[s] \/ x \in Places'[6] \/ x \in Places'[7]
      BY <1>8, <1>9, <2>5, <2>7, <3>1, <3>2
    <3> QED
      BY <3>2, <3>3, InHandIs
  <2> QED
    BY <1>2, <1>4, <1>6, <1>7, <2>5, <2>7, <2>8, <2>9, <2>10, <2>11, SenderStep
<1> QED
  BY <1>10, <1>11

\* One packet more to come leaves those there as they were.
LEMMA OneMoreSent ==
    ASSUME NEW s \in Seq(Packet), NEW p \in Packet, NEW t, t = Append(s, p)
    PROVE  /\ \A d : APacket(s, d) => APacket(t, d)
           /\ \A m, d : Laid(s, m, d) => Laid(t, m, d)
           /\ \A m, n, g : Whole(s, m, n, g) => Whole(t, m, n, g)
           /\ \A d : Begun(s, d) => Begun(t, d)
<1>1. Len(s) \in Nat /\ Len(t) = Len(s) + 1 /\ \A i \in 1..Len(s) : t[i] = s[i]
  BY QueueAppend
<1>2. \A i \in 1..Len(s) : i \in 1..Len(t)
  BY <1>1
<1>3. \A o : Own(s, o) => Own(t, o)
  BY <1>1, <1>2 DEF Own
<1>4. \A d : APacket(s, d) => APacket(t, d)
  BY <1>1, <1>2 DEF APacket
<1>5. ASSUME NEW m, NEW d, Laid(s, m, d) PROVE Laid(t, m, d)
  BY <1>3, <1>5 DEF Laid
<1>6. \A m, n, g : Whole(s, m, n, g) => Whole(t, m, n, g)
  BY <1>5 DEF Whole
<1>7. \A d : Begun(s, d) => Begun(t, d)
  BY <1>3 DEF Begun
<1> QED
  BY <1>4, <1>5, <1>6, <1>7

\* A packet that comes to the queue is behind all that was sent before.
LEMMA ArrivePlaces ==
    ASSUME HeadersFit, TypeInv, PlacesInv, Arrive, Beyond
    PROVE  PlacesInv'
<1>1. PICK s \in Shapes :
          LET p == [id |-> Len(sent) + 1, pvn |-> pvnEncapsulationPacket,
                    hdr |-> s.hdr, len |-> s.len]
          IN  sent' = Append(sent, p) /\ msg_queue' = Append(msg_queue, OctetsOf(p))
  BY DEF Arrive
<1>2. PICK p : p = [id |-> Len(sent) + 1, pvn |-> pvnEncapsulationPacket,
                    hdr |-> s.hdr, len |-> s.len]
  OBVIOUS
<1>3. sent' = Append(sent, p) /\ msg_queue' = Append(msg_queue, OctetsOf(p))
  BY <1>1, <1>2
<1>4. /\ UNCHANGED <<multi, immediate, length, phase, zone, netdata, netdataIdx, mpdu,
                     firstHeaderIndexSet, mpdu_list, mpdus>>
      /\ UNCHANGED <<frameSize, wire, units, m_pdu, idx, encap, delivered, hurt>>
  BY DEF Arrive, settings, Beyond, channelvars, removeonly, history
<1>5. /\ sent \in Seq(Packet) /\ msg_queue \in Seq(Seq(Octet)) /\ Len(sent) \in Nat
      /\ frameSize \in Lengths /\ Len(msg_queue) \in Nat
  BY SenderTypes
<1>6. /\ p \in Packet /\ p.id = Len(sent) + 1 /\ p.hdr = s.hdr /\ p.len = s.len
      /\ p.len \in Nat \ {0}
  <2>1. s.hdr \in Nat \ {0} /\ s.len \in Nat \ {0}
    BY AddAssumption
  <2> QED
    BY <1>2, <1>5, <2>1 DEF Packet, PVNs, pvnEncapsulationPacket
<1>7. /\ Len(sent') = Len(sent) + 1 /\ \A i \in 1..Len(sent) : sent'[i] = sent[i]
      /\ sent'[Len(sent) + 1] = p
  BY <1>3, <1>5, <1>6, QueueAppend
<1>8. OctetsOf(p) \in Seq(Octet) /\ Len(OctetsOf(p)) = p.len
      /\ \A j \in 1..p.len : OctetsOf(p)[j] = [pkt |-> p, k |-> j - 1]
  BY <1>6, PacketsAreOctets DEF OctetsOf
<1>9. /\ Len(msg_queue') = Len(msg_queue) + 1
      /\ \A i \in 1..Len(msg_queue) : msg_queue'[i] = msg_queue[i]
      /\ msg_queue'[Len(msg_queue) + 1] = OctetsOf(p)
  BY <1>3, <1>5, <1>8, QueueAppend
<1>10. /\ \A d : APacket(sent, d) => APacket(sent', d)
       /\ \A m, d : Laid(sent, m, d) => Laid(sent', m, d)
       /\ \A m, n, g : Whole(sent, m, n, g) => Whole(sent', m, n, g)
       /\ \A d : Begun(sent, d) => Begun(sent', d)
  BY <1>3, <1>5, <1>6, OneMoreSent
<1>11. \A i \in 1..Len(sent') : i \in 1..Len(sent) \/ i = Len(sent) + 1
  BY <1>5, <1>7
<1>12. SentInv'
  <2>1. s.hdr <= s.len /\ s.hdr <= frameSize + 1
    BY <1>5 DEF HeadersFit
  <2> QED
    BY <1>4, <1>6, <1>7, <1>11, <2>1 DEF SentInv, PlacesInv, SenderInv
<1>13. SizesInv' /\ ListInv'
  BY <1>4 DEF SizesInv, ListInv, PlacesInv, SenderInv
<1>14. QueueInv'
  <2>1. \A i \in 1..Len(msg_queue') : i \in 1..Len(msg_queue) \/ i = Len(msg_queue) + 1
    BY <1>5, <1>9
  <2>2. APacket(sent', OctetsOf(p))
    <3>1. Len(sent) + 1 \in 1..Len(sent')
      BY <1>5, <1>7
    <3> QED
      BY <1>7, <3>1 DEF APacket
  <2> QED
    BY <1>9, <1>10, <2>1, <2>2 DEF QueueInv, PlacesInv, SenderInv
<1>15. UnitInv'
  BY <1>4, <1>10 DEF UnitInv, PlacesInv, SenderInv
<1>16. FillingInv'
  BY <1>4, <1>10 DEF FillingInv, PlacesInv, SenderInv
<1>17. ZonesInv'
  <2>1. ListWhole' /\ MpdusWhole'
    BY <1>4, <1>10 DEF ListWhole, MpdusWhole, PlacesInv, ZonesInv
  <2>2. WireWhole' /\ UnitsWhole'
    BY <1>4, <1>10 DEF WireWhole, UnitsWhole, PlacesInv, ZonesInv
  <2>3. AtHandInv'
    BY <1>4, <1>10 DEF AtHandInv, PlacesInv, ZonesInv
  <2> QED
    BY <2>1, <2>2, <2>3 DEF ZonesInv
<1>18. EncapInv' /\ OutInv'
  BY <1>4, <1>10 DEF EncapInv, OutInv, PlacesInv
<1>19. /\ OfAll(msg_queue') = OfAll(msg_queue) \cup From(OctetsOf(p), 1)
       /\ Ascends(msg_queue) /\ AllBefore(OfAll(msg_queue), From(OctetsOf(p), 1))
             => Ascends(msg_queue')
  BY <1>5, <1>9, OfAppend
<1>20. /\ \A t \in 1..10 : t # 10 => Places'[t] = Places[t]
       /\ Places[10] = OfAll(msg_queue) /\ Places'[10] = OfAll(msg_queue')
  <2>1. \A t \in 1..10 : t \in {1, 2, 3, 4, 5, 6, 7, 8, 9, 10}
    OBVIOUS
  <2>2. /\ Places'[1] = Places[1] /\ Places'[2] = Places[2] /\ Places'[3] = Places[3]
        /\ Places'[4] = Places[4] /\ Places'[5] = Places[5]
    BY <1>4, PlaceIs, PlaceIsNext DEF PartsHeld, Ahead
  <2>3. /\ Places'[6] = Places[6] /\ Places'[7] = Places[7] /\ Places'[8] = Places[8]
        /\ Places'[9] = Places[9]
    BY <1>4, PlaceIs, PlaceIsNext DEF Filling
  <2> QED
    BY <2>1, <2>2, <2>3, PlaceIs, PlaceIsNext
<1>21. ASSUME NEW x \in From(OctetsOf(p), 1) PROVE x.pkt = p
  <2>1. PICK j \in 1..Len(OctetsOf(p)) : x = OctetsOf(p)[j]
    BY DEF From
  <2>2. x = [pkt |-> p, k |-> j - 1]
    BY <1>8, <2>1
  <2> QED
    BY <2>2
<1>22. \A t \in 1..10 : \A x \in Places[t], y \in From(OctetsOf(p), 1) : Before(x, y)
  <2> SUFFICES ASSUME NEW t \in 1..10, NEW x \in Places[t], NEW y \in From(OctetsOf(p), 1)
               PROVE  Before(x, y)
    OBVIOUS
  <2>1. x.pkt.id \in 1..Len(sent)
    BY PlacesOwn DEF Own
  <2>2. y.pkt.id = Len(sent) + 1
    BY <1>6, <1>21
  <2> QED
    BY <1>5, <2>1, <2>2 DEF Before
<1>23. OrderInv'
  <2>1. InOrder(Places) /\ Ascends(msg_queue)
    BY DEF PlacesInv, OrderInv, QueuesInOrder
  <2>2. Ascends(msg_queue')
    <3>1. 10 \in 1..10
      OBVIOUS
    <3> QED
      BY <1>19, <1>20, <1>22, <2>1, <3>1 DEF AllBefore
  <2>3. InOrder(Places')
    <3> SUFFICES ASSUME NEW a \in 1..10, NEW b \in 1..10, a < b, NEW x \in Places'[a],
                        NEW y \in Places'[b]
                 PROVE  Before(x, y)
      BY DEF InOrder, AllBefore
    <3>1. x \in Places[a]
      BY <1>20
    <3>2. y \in Places[b] \/ y \in From(OctetsOf(p), 1)
      BY <1>19, <1>20
    <3> QED
      BY <1>22, <2>1, <3>1, <3>2 DEF InOrder, AllBefore
  <2>4. QueuesInOrder'
    BY <1>4, <2>2 DEF QueuesInOrder, PlacesInv, OrderInv
  <2> QED
    BY <2>3, <2>4 DEF OrderInv
<1>24. \A x \in InHand(Places) : x \in InHand(Places')
  <2>1. \A t \in 2..10 : Places[t] \subseteq Places'[t] /\ t \in 1..10
    BY <1>19, <1>20
  <2> QED
    BY <2>1, InHandIs
<1>25. Kept'
  <2> SUFFICES ASSUME NEW i \in 1..Len(sent')
               PROVE  KeptFor(sent', Places', delivered', hurt', i)
    BY DEF Kept
  <2>1. CASE i \in 1..Len(sent)
    <3>1. KeptFor(sent, Places, delivered, hurt, i) /\ sent[i].id = i /\ sent'[i] = sent[i]
      BY <1>7, <2>1 DEF Kept, SentInv, PlacesInv, SenderInv
    <3> QED
      BY <1>4, <1>24, <3>1, KeptForStays
  <2>2. CASE i = Len(sent) + 1
    <3>1. ASSUME NEW k \in 0..p.len - 1
          PROVE  [pkt |-> p, k |-> k] \in InHand(Places')
      <4>1. k + 1 \in 1..p.len /\ (k + 1) - 1 = k
        BY <1>6
      <4>2. OctetsOf(p)[k + 1] = [pkt |-> p, k |-> k]
        BY <1>8, <4>1
      <4>3. [pkt |-> p, k |-> k] # FillOctet
        BY <1>5, <1>6 DEF FillOctet, FillPacket
      <4>4. [pkt |-> p, k |-> k] \in From(OctetsOf(p), 1)
        BY <1>8, <4>1, <4>2, <4>3 DEF From
      <4>5. [pkt |-> p, k |-> k] \in Places'[10] /\ 10 \in 2..10
        BY <1>19, <1>20, <4>4
      <4> QED
        BY <4>5, InHandIs
    <3> QED
      BY <1>7, <2>2, <3>1 DEF KeptFor
  <2> QED
    BY <1>11, <2>1, <2>2
<1> QED
  BY <1>12, <1>13, <1>14, <1>15, <1>16, <1>17, <1>18, <1>23, <1>25 DEF PlacesInv, SenderInv

-----------------------------------------------------------------------------
\* The loop of _processData(): what it finds, and what a pass adds to the M_PDU.
Ready(g, set) ==
    /\ g \in Pdu /\ g.cap = frameSize /\ Len(g.data) < frameSize /\ set \in BOOLEAN
    /\ Laid(sent, multi, g.data) /\ Closed(g.data) /\ From(g.data, 1) = Filling
    /\ IF set THEN Points(g.data, g.fhi) ELSE NoStart(g.data, Len(g.data))
    /\ Len(g.data) > 0 => netdataIdx = 0 /\ multi = TRUE

LEMMA CopyReady ==
    ASSUME TypeInv, PlacesInv, phase = "copy"
    PROVE  /\ mpdu = NoPdu => Ready([cap |-> length, fhi |-> 0, data |-> <<>>], FALSE)
           /\ mpdu # NoPdu => Ready(mpdu, firstHeaderIndexSet)
<1>0. /\ frameSize \in Nat \ {0} /\ frameSize \in Lengths /\ length = frameSize
      /\ firstHeaderIndexSet \in BOOLEAN
  BY SenderTypes DEF PlacesInv, SenderInv, SizesInv
<1>1. ASSUME mpdu = NoPdu PROVE Ready([cap |-> length, fhi |-> 0, data |-> <<>>], FALSE)
  <2> DEFINE g == [cap |-> length, fhi |-> 0, data |-> <<>>]
  <2>1. g.cap = frameSize /\ g.fhi = 0 /\ g.data = <<>>
    BY <1>0
  <2>2. g.data \in Seq(Octet) /\ Len(g.data) = 0
    BY <2>1
  <2>3. g \in Pdu
    BY <1>0, <2>2 DEF Pdu, Pointer
  <2>4. Laid(sent, multi, g.data) /\ Closed(g.data) /\ From(g.data, 1) = {}
    BY <2>2, NothingLaid
  <2> HIDE DEF g
  <2>5. NoStart(g.data, Len(g.data))
    BY <2>2 DEF NoStart
  <2>6. Filling = {}
    BY <1>1 DEF Filling
  <2>7. Ready(g, FALSE)
    BY <1>0, <2>1, <2>2, <2>3, <2>4, <2>5, <2>6 DEF Ready
  <2> QED
    BY <2>7 DEF g
<1>2. ASSUME mpdu # NoPdu PROVE Ready(mpdu, firstHeaderIndexSet)
  <2>1. mpdu \in Pdu /\ Len(mpdu.data) \in Nat
    BY <1>2, SenderTypes
  <2>2. /\ mpdu.cap = frameSize /\ Len(mpdu.data) \in 1..frameSize - 1
        /\ Laid(sent, multi, mpdu.data) /\ Closed(mpdu.data)
        /\ IF firstHeaderIndexSet THEN Points(mpdu.data, mpdu.fhi)
                                  ELSE NoStart(mpdu.data, Len(mpdu.data))
        /\ netdataIdx = 0 /\ multi = TRUE
    BY <1>2 DEF PlacesInv, SenderInv, FillingInv
  <2>3. Filling = From(mpdu.data, 1)
    BY <1>2 DEF Filling
  <2>4. Len(mpdu.data) < frameSize
    BY <1>0, <2>2
  <2> QED
    BY <1>0, <2>1, <2>2, <2>3, <2>4 DEF Ready
<1> QED
  BY <1>1, <1>2

\* A pass takes n octets, e.
Pass(g, n, e) == n = CopyLen(g) /\ e = SubSeq(netdata, netdataIdx + 1, netdataIdx + n)

LEMMA PointersSmall == \A r \in Nat : r <= DataFieldLen => r \in Pointer /\ r # NoPacketStart
  BY FrameAssumption DEF NoPacketStart, Pointer

LEMMA CopyTakes ==
    ASSUME TypeInv, PlacesInv, phase = "copy", NEW g, NEW set, Ready(g, set),
           NEW n, NEW e, Pass(g, n, e)
    PROVE  /\ n \in Nat \ {0} /\ netdataIdx + n <= Len(netdata) /\ Len(g.data) + n <= frameSize
           /\ netdataIdx + n = Len(netdata) \/ Len(g.data) + n = frameSize
           /\ e \in Seq(Octet) /\ Len(e) = n
           /\ \A j \in 1..n : e[j].k = netdataIdx + (j - 1)
           /\ Laid(sent, multi, e) /\ \A j \in 1..n : e[j] # FillOctet
           /\ netdataIdx + n = Len(netdata) => Closed(e)
           /\ From(netdata, netdataIdx + 1) = From(e, 1) \cup From(netdata, netdataIdx + n + 1)
           /\ AllBefore(From(e, 1), From(netdata, netdataIdx + n + 1))
<1>1. /\ netdata \in Seq(Octet) /\ netdataIdx \in Nat /\ Len(netdata) \in Nat
      /\ frameSize \in Nat \ {0} /\ zone = frameSize /\ netdataIdx < Len(netdata)
      /\ sent \in Seq(Packet)
  BY SenderTypes DEF PlacesInv, SenderInv, SizesInv, UnitInv
<1>2. g.data \in Seq(Octet) /\ Len(g.data) \in Nat /\ Len(g.data) < frameSize
  BY PduFields DEF Ready
<1>3. PICK q \in 1..Len(sent) : netdata = OctetsOf(sent[q])
  BY DEF PlacesInv, SenderInv, UnitInv, APacket
<1>4. /\ sent[q] \in Packet /\ sent[q].id = q /\ sent[q].len = Len(netdata)
      /\ PieceOf(netdata, sent[q], 0) /\ Laid(sent, multi, netdata)
  BY <1>3, PacketsSent DEF PlacesInv, SenderInv
<1>5. /\ n \in Nat \ {0} /\ netdataIdx + n <= Len(netdata) /\ Len(g.data) + n <= frameSize
      /\ netdataIdx + n = Len(netdata) \/ Len(g.data) + n = frameSize
  <2>1. n = IF Len(netdata) - netdataIdx <= frameSize - Len(g.data)
            THEN Len(netdata) - netdataIdx ELSE frameSize - Len(g.data)
    BY <1>1, <1>2 DEF CopyLen, Pass
  <2>2. CASE Len(netdata) - netdataIdx <= frameSize - Len(g.data)
    <3>1. n = Len(netdata) - netdataIdx
      BY <2>1, <2>2
    <3> QED
      BY <1>1, <1>2, <2>2, <3>1
  <2>3. CASE ~(Len(netdata) - netdataIdx <= frameSize - Len(g.data))
    <3>1. n = frameSize - Len(g.data)
      BY <2>1, <2>3
    <3> QED
      BY <1>1, <1>2, <2>3, <3>1
  <2> QED
    BY <2>2, <2>3
<1>6. /\ e \in Seq(Octet) /\ Len(e) = n /\ \A j \in 1..n : e[j] = netdata[netdataIdx + j]
  <2>1. n \in Nat
    BY <1>5
  <2>2. e = SubSeq(netdata, netdataIdx + 1, netdataIdx + n)
    BY DEF Pass
  <2>3. /\ SubSeq(netdata, netdataIdx + 1, netdataIdx + n) \in Seq(Octet)
        /\ Len(SubSeq(netdata, netdataIdx + 1, netdataIdx + n)) = n
        /\ \A j \in 1..n :
               SubSeq(netdata, netdataIdx + 1, netdataIdx + n)[j] = netdata[netdataIdx + j]
    BY <1>1, <1>5, <2>1, Part
  <2> QED
    BY <2>2, <2>3
<1>7. PieceOf(e, sent[q], netdataIdx)
  <2> SUFFICES ASSUME NEW j \in 1..n
               PROVE  e[j] = [pkt |-> sent[q], k |-> netdataIdx + (j - 1)]
    BY <1>6 DEF PieceOf
  <2>1. netdataIdx + j \in 1..Len(netdata)
    BY <1>1, <1>5
  <2>2. netdata[netdataIdx + j] = [pkt |-> sent[q], k |-> 0 + ((netdataIdx + j) - 1)]
    BY <1>4, <2>1 DEF PieceOf
  <2>3. 0 + ((netdataIdx + j) - 1) = netdataIdx + (j - 1)
    BY <1>1
  <2> QED
    BY <1>6, <2>2, <2>3
<1>8. \A j \in 1..n : e[j].k = netdataIdx + (j - 1)
  <2> SUFFICES ASSUME NEW j \in 1..n PROVE e[j].k = netdataIdx + (j - 1)
    OBVIOUS
  <2>1. e[j] = [pkt |-> sent[q], k |-> netdataIdx + (j - 1)]
    BY <1>6, <1>7 DEF PieceOf
  <2> QED
    BY <2>1
<1>9. /\ Laid(sent, multi, e) /\ \A j \in 1..Len(e) : e[j] # FillOctet
      /\ netdataIdx + Len(e) = sent[q].len => Closed(e)
  <2>1. sent[q].id \in 1..Len(sent) /\ sent[sent[q].id] = sent[q]
    BY <1>4
  <2>2. netdataIdx + Len(e) <= sent[q].len
    BY <1>4, <1>5, <1>6
  <2> QED
    BY <1>1, <1>4, <1>7, <2>1, <2>2, PieceLaid
<1>10. /\ From(netdata, netdataIdx + 1) = From(e, 1) \cup From(netdata, netdataIdx + n + 1)
       /\ AllBefore(From(e, 1), From(netdata, netdataIdx + n + 1))
  <2>1. n \in Nat /\ netdataIdx \in Nat /\ netdataIdx + n <= Len(netdata)
    BY <1>1, <1>5
  <2>2. Len(e) = n /\ \A j \in 1..n : e[j] = netdata[netdataIdx + j]
    BY <1>6
  <2>3. Laid(sent, multi, netdata)
    BY <1>4
  <2> QED
    <3>1. ASSUME NEW i \in Nat, NEW m \in Nat, i + m <= Len(netdata), NEW d, Len(d) = m,
                 \A j \in 1..m : d[j] = netdata[i + j]
          PROVE  /\ From(netdata, i + 1) = From(d, 1) \cup From(netdata, i + m + 1)
                 /\ AllBefore(From(d, 1), From(netdata, i + m + 1))
      BY <2>3, <3>1, Parted
    <3> QED
      BY <2>1, <2>2, <3>1
<1> QED
  BY <1>4, <1>5, <1>6, <1>8, <1>9, <1>10

LEMMA CopyFills ==
    ASSUME TypeInv, PlacesInv, phase = "copy", NEW g, NEW set, Ready(g, set),
           NEW n, NEW e, Pass(g, n, e),
           NEW c, Joins(c, g.data, e), NEW f, f = FirstHeaderIndex(g, set)
    PROVE  /\ c \in Seq(Octet) /\ Len(c) = Len(g.data) + n
           /\ Laid(sent, multi, c) /\ f \in Pointer
           /\ netdataIdx + n = Len(netdata) => Closed(c)
           /\ Len(c) = frameSize =>
                 IF f = NoPacketStart THEN NoStart(c, Len(c)) ELSE Points(c, f)
           /\ Len(c) < frameSize =>
                 IF set \/ netdataIdx = 0 THEN Points(c, f) ELSE NoStart(c, Len(c))
           /\ From(c, 1) = Filling \cup From(e, 1) /\ c[1] # FillOctet
<1>0. /\ n \in Nat \ {0} /\ netdataIdx + n <= Len(netdata) /\ Len(g.data) + n <= frameSize
      /\ netdataIdx + n = Len(netdata) \/ Len(g.data) + n = frameSize
      /\ e \in Seq(Octet) /\ Len(e) = n
      /\ \A j \in 1..n : e[j].k = netdataIdx + (j - 1)
      /\ Laid(sent, multi, e) /\ \A j \in 1..n : e[j] # FillOctet
      /\ netdataIdx + n = Len(netdata) => Closed(e)
      /\ From(netdata, netdataIdx + 1) = From(e, 1) \cup From(netdata, netdataIdx + n + 1)
  BY CopyTakes
<1>1. /\ netdataIdx \in Nat /\ frameSize \in Nat \ {0} /\ zone = frameSize
      /\ frameSize <= DataFieldLen /\ Len(netdata) \in Nat
  BY SenderTypes DEF PlacesInv, SenderInv, SizesInv
<1> DEFINE a == g.data
<1>2. /\ a \in Seq(Octet) /\ Len(a) \in Nat /\ Len(a) < frameSize /\ g.fhi \in Pointer
      /\ g.fhi \in Nat
      /\ Laid(sent, multi, a) /\ Closed(a) /\ From(a, 1) = Filling /\ set \in BOOLEAN
      /\ IF set THEN Points(a, g.fhi) ELSE NoStart(a, Len(a))
      /\ Len(a) > 0 => netdataIdx = 0 /\ multi = TRUE
  BY PduFields DEF Ready
<1>3. f = IF netdataIdx > 0 /\ n = frameSize THEN NoPacketStart
          ELSE IF netdataIdx = 0 /\ ~set THEN Len(a) ELSE g.fhi
  BY <1>1 DEF FirstHeaderIndex, Pass
<1>4. Joins(c, a, e) /\ Len(c) = Len(a) + n
  BY <1>0 DEF Joins
<1> HIDE DEF a
<1>40. a \in Seq(Octet) /\ e \in Seq(Octet)
  BY <1>0, <1>2
<1>5. From(c, 1) = From(a, 1) \cup From(e, 1)
  BY <1>4, <1>40, JoinFrom
<1>6. 1 \in 1..n /\ e[1].k = netdataIdx
  <2>1. 1 \in 1..n
    BY <1>0
  <2>2. netdataIdx + (1 - 1) = netdataIdx
    BY <1>1
  <2> QED
    BY <1>0, <2>1, <2>2
<1>7. AllBefore(From(a, 1), From(e, 1))
  <2>1. 8 \in 1..10 /\ 9 \in 1..10 /\ 8 < 9
    OBVIOUS
  <2>2. AllBefore(Places[8], Places[9])
    BY <2>1 DEF PlacesInv, OrderInv, InOrder
  <2> QED
    BY <1>0, <1>2, <2>2, PlaceIs DEF AllBefore
<1>8. Laid(sent, multi, c)
  <2>1. Len(a) > 0 /\ Len(e) > 0 => e[1].k = 0
    BY <1>2, <1>6
  <2>2. multi = FALSE => Len(a) = 0 \/ \A i \in 1..Len(e) : e[i] = FillOctet
    BY <1>2
  <2> QED
    BY <1>0, <1>2, <1>4, <1>7, <2>1, <2>2, JoinLaid
<1>9. ASSUME netdataIdx + n = Len(netdata) PROVE Closed(c)
  <2>1. Closed(e) /\ Closed(a)
    BY <1>0, <1>2, <1>9
  <2> QED
    BY <1>4, <1>40, <2>1, JoinClosed
<1>10. \A r \in Nat : r <= frameSize => r \in Pointer /\ r # NoPacketStart
  <2>1. \A r \in Nat : r <= frameSize => r <= DataFieldLen
    BY <1>1, FieldLen
  <2> QED
    BY <2>1, PointersSmall
<1>11. /\ \A h \in Nat : Points(a, h) => Points(c, h)
       /\ NoStart(a, Len(a)) /\ NoStart(e, Len(e)) => NoStart(c, Len(c))
       /\ NoStart(a, Len(a)) /\ Len(e) > 0 /\ e[1].k = 0 => Points(c, Len(a))
  BY <1>4, <1>40, JoinStarts
<1>16. c[1] # FillOctet
  <2>1. CASE Len(a) = 0
    <3>1. c[0 + 1] = e[1] /\ 0 + 1 = 1
      BY <1>0, <1>4, <1>6, <2>1 DEF Joins
    <3> QED
      BY <1>0, <1>6, <3>1
  <2>2. CASE Len(a) # 0
    <3>1. 1 \in 1..Len(a)
      BY <1>2, <2>2
    <3> QED
      BY <1>2, <1>4, <3>1 DEF Joins, Closed
  <2> QED
    BY <2>1, <2>2
<1>12. CASE netdataIdx = 0 /\ ~set
  <2>1. f = Len(a) /\ Points(c, f)
    <3>1. f = Len(a)
      BY <1>3, <1>12
    <3>2. NoStart(a, Len(a)) /\ Len(e) > 0 /\ e[1].k = 0
      BY <1>0, <1>2, <1>6, <1>12
    <3> QED
      BY <1>11, <3>1, <3>2
  <2>2. f \in Pointer /\ f # NoPacketStart
    <3>1. Len(a) \in Nat /\ Len(a) <= frameSize
      BY <1>1, <1>2
    <3> QED
      BY <1>10, <2>1, <3>1
  <2> QED
    BY <1>2, <1>4, <1>5, <1>8, <1>9, <1>16, <1>12, <2>1, <2>2 DEF Joins, a
<1>13. CASE netdataIdx = 0 /\ set
  <2>1. f = g.fhi /\ Points(a, f) /\ Points(c, f)
    BY <1>2, <1>3, <1>11, <1>13
  <2>2. f \in Pointer /\ f # NoPacketStart
    <3>1. f < Len(a)
      BY <2>1 DEF Points
    <3>2. f \in Nat /\ f <= frameSize
      BY <1>1, <1>2, <2>1, <3>1
    <3> QED
      BY <1>10, <3>2
  <2> QED
    BY <1>2, <1>4, <1>5, <1>8, <1>9, <1>16, <1>13, <2>1, <2>2 DEF Joins, a
<1>14. CASE netdataIdx > 0
  <2>1. Len(a) = 0 /\ ~set
    <3>1. Len(a) = 0
      BY <1>2, <1>14
    <3>2. ~Points(a, g.fhi)
      BY <1>2, <3>1 DEF Points
    <3> QED
      BY <1>2, <3>1, <3>2
  <2>2. NoStart(c, Len(c))
    <3>1. \A j \in 1..n : netdataIdx + (j - 1) # 0
      BY <1>0, <1>1, <1>14
    <3>2. NoStart(e, Len(e)) /\ NoStart(a, Len(a))
      BY <1>0, <1>2, <2>1, <3>1 DEF NoStart
    <3> QED
      BY <1>11, <3>2
  <2>3. netdataIdx # 0 /\ Len(c) = n
    BY <1>0, <1>1, <1>4, <1>14, <2>1
  <2>4. f \in Pointer /\ (Len(c) = frameSize => f = NoPacketStart)
    <3>1. NoPacketStart \in Pointer
      BY DEF NoPacketStart, Pointer
    <3> QED
      BY <1>2, <1>3, <1>14, <2>3, <3>1
  <2> QED
    BY <1>2, <1>4, <1>5, <1>8, <1>9, <1>16, <2>1, <2>2, <2>3, <2>4 DEF Joins, a
<1>15. netdataIdx = 0 \/ netdataIdx > 0
  BY <1>1
<1> QED
  BY <1>2, <1>12, <1>13, <1>14, <1>15

LEMMA CopyIntoPlaces ==
    ASSUME TypeInv, PlacesInv, phase = "copy", NEW g, NEW set, Ready(g, set),
           CopyInto(g, set), Settled, msg_queue' = msg_queue, zone' = zone, Beyond
    PROVE  PlacesInv'
<1>1. sent' = sent /\ multi' = multi /\ immediate' = immediate /\ length' = length
  BY DEF Settled
<1>2. /\ frameSize' = frameSize /\ \A s \in 1..5 : Places'[s] = Places[s]
  BY <1>1, BeyondStays
<1>3. PICK n, e : Pass(g, n, e)
  BY DEF Pass
<1>4. /\ n \in Nat \ {0} /\ netdataIdx + n <= Len(netdata) /\ Len(g.data) + n <= frameSize
      /\ netdataIdx + n = Len(netdata) \/ Len(g.data) + n = frameSize
      /\ e \in Seq(Octet) /\ Len(e) = n
      /\ From(netdata, netdataIdx + 1) = From(e, 1) \cup From(netdata, netdataIdx + n + 1)
      /\ AllBefore(From(e, 1), From(netdata, netdataIdx + n + 1))
  BY <1>3, CopyTakes
<1>5. /\ g \in Pdu /\ g.cap = frameSize /\ g.data \in Seq(Octet) /\ Len(g.data) \in Nat
      /\ set \in BOOLEAN
  BY PduFields DEF Ready
<1>6. /\ frameSize \in Nat \ {0} /\ zone = frameSize /\ netdataIdx \in Nat
      /\ netdata \in Seq(Octet) /\ Len(netdata) \in Nat
  BY SenderTypes DEF PlacesInv, SenderInv, SizesInv
<1>70. Joins(g.data \o e, g.data, e)
  <2>1. g.data \in Seq(Octet) /\ e \in Seq(Octet)
    BY <1>4, <1>5
  <2>2. /\ g.data \o e \in Seq(Octet) /\ Len(g.data \o e) = Len(g.data) + Len(e)
        /\ (\A j \in 1..Len(g.data) : (g.data \o e)[j] = g.data[j])
        /\ (\A j \in 1..Len(e) : (g.data \o e)[Len(g.data) + j] = e[j])
    BY <2>1, Concat
  <2> QED
    BY <2>2 DEF Joins
<1>7. PICK c : c = g.data \o e
  OBVIOUS
<1>8. Joins(c, g.data, e)
  BY <1>7, <1>70
<1>9. PICK f : f = FirstHeaderIndex(g, set)
  OBVIOUS
<1>10. /\ c \in Seq(Octet) /\ Len(c) = Len(g.data) + n
       /\ Laid(sent, multi, c) /\ f \in Pointer
       /\ netdataIdx + n = Len(netdata) => Closed(c)
       /\ Len(c) = frameSize =>
             IF f = NoPacketStart THEN NoStart(c, Len(c)) ELSE Points(c, f)
       /\ Len(c) < frameSize =>
             IF set \/ netdataIdx = 0 THEN Points(c, f) ELSE NoStart(c, Len(c))
       /\ From(c, 1) = Filling \cup From(e, 1) /\ c[1] # FillOctet
  BY <1>3, <1>8, <1>9, CopyFills
<1>11. PICK h : h = [g EXCEPT !.fhi = f, !.data = c]
  OBVIOUS
<1>12. h \in Pdu /\ h.cap = frameSize /\ h.fhi = f /\ h.data = c
  <2>1. [g EXCEPT !.fhi = f, !.data = c] \in Pdu
    BY <1>5, <1>10, PduExcept
  <2> QED
    BY <1>5, <1>11, <2>1 DEF Pdu
<1>13. Len(c) \in Nat /\ Len(c) <= frameSize
  BY <1>4, <1>5, <1>10
<1>14. /\ IF Len(c) = zone THEN SendOrKeep(h) ELSE UNCHANGED <<mpdus, mpdu_list>>
       /\ mpdu' = IF Len(c) = zone THEN NoPdu ELSE h
       /\ firstHeaderIndexSet' = (set \/ netdataIdx = 0)
       /\ netdata' = IF netdataIdx + n = Len(netdata) THEN <<>> ELSE netdata
       /\ netdataIdx' = IF netdataIdx + n = Len(netdata) THEN 0 ELSE netdataIdx + n
       /\ phase' = IF ~(netdataIdx + n = Len(netdata)) THEN "copy"
                   ELSE IF Len(c) = zone THEN "send" ELSE "last"
  <2>1. CopyLen(g) = n /\ SubSeq(netdata, netdataIdx + 1, netdataIdx + n) = e
    BY <1>3 DEF Pass
  <2>2. h = [g EXCEPT !.fhi = FirstHeaderIndex(g, set),
                      !.data = @ \o SubSeq(netdata, netdataIdx + 1, netdataIdx + CopyLen(g))]
    BY <1>7, <1>9, <1>11, <2>1
  <2>3. ~(Len(g.data) + CopyLen(g) > g.cap) /\ ~(Len(h.data) > zone)
    BY <1>4, <1>5, <1>6, <1>12, <1>13, <2>1
  <2> QED
    BY <1>12, <2>1, <2>2, <2>3 DEF CopyInto
<1>15. /\ Places[8] = Filling /\ Places[9] = From(netdata, netdataIdx + 1)
       /\ Places[10] = Places'[10]
       /\ Places[6] = OfAll(Datas(mpdus)) /\ Places[7] = OfAll(Datas(mpdu_list))
       /\ Places'[6] = OfAll(Datas(mpdus)') /\ Places'[7] = OfAll(Datas(mpdu_list)')
       /\ Places'[8] = Filling'
  BY PlaceIs, PlaceIsNext
<1>16. Places'[9] = From(netdata, netdataIdx + n + 1)
  <2>1. Places'[9] = From(netdata', netdataIdx' + 1)
    BY PlaceIsNext
  <2>2. CASE netdataIdx + n = Len(netdata)
    <3>1. netdata' = <<>> /\ netdataIdx' = 0 /\ 0 + 1 = 1
      BY <1>14, <2>2
    <3>2. Len(netdata) + 1..Len(netdata) = {}
      BY <1>6
    <3>3. From(netdata, netdataIdx + n + 1) = {}
      BY <2>2, <3>2 DEF From
    <3>4. From(<<>>, 1) = {}
      BY FromNothing
    <3> QED
      BY <2>1, <3>1, <3>3, <3>4
  <2>3. CASE ~(netdataIdx + n = Len(netdata))
    BY <1>14, <2>1, <2>3
  <2> QED
    BY <2>2, <2>3
<1> DEFINE P == [s \in 1..10 |-> IF s = 8 THEN From(c, 1)
                                 ELSE IF s = 9 THEN From(netdata, netdataIdx + n + 1)
                                 ELSE Places[s]]
<1>17. /\ P[8] = From(c, 1) /\ P[9] = From(netdata, netdataIdx + n + 1)
       /\ \A s \in 1..10 : s # 8 /\ s # 9 => P[s] = Places[s]
       /\ P[6] = Places[6] /\ P[7] = Places[7]
  OBVIOUS
<1> HIDE DEF P
<1>18. InOrder(P)
  <2>1. InOrder(Places)
    BY DEF PlacesInv, OrderInv
  <2>2. \A s \in 1..10 : s # 8 => P[s] \subseteq Places[s]
    BY <1>4, <1>15, <1>17
  <2>3. \A s \in 1..10 : ~(8 < s /\ s < 9)
    OBVIOUS
  <2>4. /\ \A x \in P[8] : x \in Places[8] \/ x \in From(e, 1)
        /\ \A x \in From(e, 1) : x \in Places[9] /\ \A y \in P[9] : Before(x, y)
    BY <1>4, <1>10, <1>15, <1>17 DEF AllBefore
  <2>5. 8 \in 1..10 /\ 9 \in 1..10 /\ 8 < 9
    OBVIOUS
  <2> QED
    BY <2>1, <2>2, <2>3, <2>4, <2>5, MovesDown
<1>19. ASSUME NEW x, x \in InHand(Places) PROVE x \in InHand(P)
  <2>1. PICK s \in 2..10 : x \in Places[s]
    BY <1>19, InHandIs
  <2>2. s \in 1..10 /\ 8 \in 2..10 /\ 9 \in 2..10
    OBVIOUS
  <2>3. x \in P[s] \/ x \in P[8] \/ x \in P[9]
    <3>1. Places[8] \subseteq P[8]
      BY <1>10, <1>15, <1>17
    <3>2. Places[9] \subseteq P[8] \cup P[9]
      BY <1>4, <1>10, <1>15, <1>17
    <3>3. s # 8 /\ s # 9 => P[s] = Places[s]
      BY <1>17, <2>2
    <3>4. CASE s = 8
      BY <2>1, <3>1, <3>4
    <3>5. CASE s = 9
      BY <2>1, <3>2, <3>5
    <3> QED
      BY <2>1, <3>3, <3>4, <3>5
  <2> QED
    BY <2>2, <2>3, InHandIs
<1>20. \A s \in 1..10 : s \notin {6, 7, 8} => Places'[s] = P[s]
  <2>1. \A s \in 1..10 : s \in 1..5 \/ s \in {6, 7, 8} \/ s = 9 \/ s = 10
    OBVIOUS
  <2>2. P[10] = Places[10]
    BY <1>17
  <2>3. \A s \in 1..5 : s \in 1..10 /\ s # 8 /\ s # 9
    OBVIOUS
  <2>4. \A s \in 1..5 : P[s] = Places[s]
    BY <1>17, <2>3
  <2> QED
    BY <1>2, <1>15, <1>16, <1>17, <2>1, <2>2, <2>4
<1>21. SizesInv' /\ QueueInv' /\ Ascends(msg_queue)'
  BY <1>1, <1>2 DEF SizesInv, QueueInv, PlacesInv, SenderInv, OrderInv, QueuesInOrder
<1>22. UnitInv'
  <2>1. CASE netdataIdx + n = Len(netdata)
    <3>1. netdata' = <<>> /\ phase' # "copy"
      BY <1>14, <2>1
    <3> QED
      BY <3>1 DEF UnitInv
  <2>2. CASE ~(netdataIdx + n = Len(netdata))
    <3>1. netdata' = netdata /\ phase' = "copy" /\ netdataIdx' = netdataIdx + n
      BY <1>14, <2>2
    <3>2. netdataIdx' < Len(netdata)
      BY <1>4, <1>6, <2>2, <3>1
    <3>3. APacket(sent, netdata)
      BY DEF UnitInv, PlacesInv, SenderInv
    <3> QED
      BY <1>1, <3>1, <3>2, <3>3 DEF UnitInv
  <2> QED
    BY <2>1, <2>2
<1>23. CASE Len(c) = frameSize
  <2>1. SendOrKeep(h) /\ mpdu' = NoPdu
    BY <1>6, <1>14, <1>23
  <2>2. FillingInv'
    BY <2>1 DEF FillingInv
  <2>3. Places'[8] = {}
    BY <1>15, <2>1 DEF Filling
  <2>4. Whole(sent, multi, frameSize, h)
    BY <1>10, <1>12, <1>23 DEF Whole
  <2>5. P[8] = From(h.data, 1) /\ P[6] = OfAll(Datas(mpdus)) /\ P[7] = OfAll(Datas(mpdu_list))
    BY <1>12, <1>15, <1>17
  <2>6. /\ ListInv' /\ MpdusWhole' /\ ListWhole'
        /\ Ascends(Datas(mpdus))' /\ Ascends(Datas(mpdu_list))'
        /\ InOrder(Places') /\ \A x \in InHand(P) : x \in InHand(Places')
    BY <1>1, <1>18, <1>20, <2>1, <2>3, <2>4, <2>5, HandOn
  <2> QED
    BY <1>1, <1>19, <1>21, <1>22, <2>2, <2>6, SenderStep
<1>24. CASE Len(c) # frameSize
  <2>1. mpdus' = mpdus /\ mpdu_list' = mpdu_list /\ mpdu' = h /\ Len(c) < frameSize
    BY <1>6, <1>13, <1>14, <1>24
  <2>2. netdataIdx + n = Len(netdata) /\ phase' = "last"
    BY <1>4, <1>6, <1>10, <1>14, <1>24
  <2>3. h # NoPdu
    BY <1>12, AddAssumption
  <2>4. FillingInv'
    <3>1. Len(c) \in 1..frameSize - 1
      BY <1>4, <1>5, <1>6, <1>10, <2>1
    <3>2. Closed(c) /\ IF firstHeaderIndexSet' THEN Points(c, f) ELSE NoStart(c, Len(c))
      BY <1>10, <1>14, <2>1, <2>2
    <3> QED
      BY <1>1, <1>2, <1>10, <1>12, <2>1, <2>2, <3>1, <3>2 DEF FillingInv
  <2>5. ListInv' /\ ListWhole' /\ MpdusWhole'
    BY <1>1, <1>2, <2>1, <2>2 DEF ListInv, ListWhole, MpdusWhole, PlacesInv, SenderInv, ZonesInv
  <2>6. Datas(mpdus)' = Datas(mpdus) /\ Datas(mpdu_list)' = Datas(mpdu_list)
    BY <2>1
  <2>7. Ascends(Datas(mpdus))' /\ Ascends(Datas(mpdu_list))'
    BY <2>6 DEF PlacesInv, OrderInv, QueuesInOrder
  <2>8. \A s \in 1..10 : Places'[s] = P[s]
    <3>1. Places'[8] = From(c, 1)
      BY <1>12, <1>15, <2>1, <2>3 DEF Filling
    <3> QED
      BY <1>15, <1>17, <1>20, <2>6, <3>1
  <2>9. InOrder(Places')
    BY <1>18, <2>8, FewerInOrder
  <2>10. \A x \in InHand(P) : x \in InHand(Places')
    <3>1. \A s \in 2..10 : Places'[s] = P[s]
      BY <2>8
    <3> QED
      BY <3>1, InHandIs
  <2> QED
    BY <1>1, <1>19, <1>21, <1>22, <2>4, <2>5, <2>7, <2>9, <2>10, SenderStep
<1> QED
  BY <1>23, <1>24

LEMMA CopyPlaces ==
    ASSUME TypeInv, PlacesInv, Copy, Beyond
    PROVE  PlacesInv'
<1>1. phase = "copy" /\ Settled /\ msg_queue' = msg_queue /\ zone' = zone
  BY DEF Copy, settings, Settled
<1>2. CASE mpdu = NoPdu
  <2>1. Ready([cap |-> length, fhi |-> 0, data |-> <<>>], FALSE)
    BY <1>1, <1>2, CopyReady
  <2>2. CopyInto([cap |-> length, fhi |-> 0, data |-> <<>>], FALSE)
    BY <1>2 DEF Copy
  <2> QED
    BY <1>1, <2>1, <2>2, CopyIntoPlaces
<1>3. CASE mpdu # NoPdu
  <2>1. Ready(mpdu, firstHeaderIndexSet)
    BY <1>1, <1>3, CopyReady
  <2>2. CopyInto(mpdu, firstHeaderIndexSet)
    BY <1>3 DEF Copy
  <2> QED
    BY <1>1, <2>1, <2>2, CopyIntoPlaces
<1> QED
  BY <1>2, <1>3

-----------------------------------------------------------------------------
\* What the virtual channel modules and the channel leave as it was.
Ends == UNCHANGED <<addonly, frameSize, removeonly>>

LEMMA EndsStay ==
    ASSUME PlacesInv, Ends, hurt \subseteq hurt'
    PROVE  /\ SenderInv' /\ ListWhole' /\ AtHandInv' /\ EncapInv' /\ OutInv'
           /\ \A s \in 1..10 : s \notin {4, 5, 6} => Places'[s] = Places[s]
           /\ Ascends(Datas(mpdu_list))' /\ Ascends(msg_queue)'
           /\ sent' = sent /\ multi' = multi /\ frameSize' = frameSize
           /\ delivered' = delivered
<1>1. /\ UNCHANGED <<multi, immediate, length, msg_queue, sent, phase, zone, netdata,
                     netdataIdx, mpdu, firstHeaderIndexSet, mpdu_list>>
      /\ UNCHANGED <<frameSize, m_pdu, idx, encap, delivered>>
  BY DEF Ends, addonly, removeonly
<1>2. SentInv' /\ SizesInv' /\ QueueInv' /\ UnitInv'
  BY <1>1 DEF PlacesInv, SenderInv, SentInv, SizesInv, QueueInv, UnitInv
<1>3. ListInv' /\ FillingInv'
  BY <1>1 DEF PlacesInv, SenderInv, ListInv, FillingInv
<1>4. ListWhole' /\ AtHandInv'
  BY <1>1 DEF PlacesInv, ZonesInv, ListWhole, AtHandInv
<1>5. EncapInv' /\ OutInv'
  <2>1. \A d : AllHurt(hurt, d) => AllHurt(hurt', d)
    BY DEF AllHurt
  <2>2. EncapInv'
    BY <1>1, <2>1 DEF PlacesInv, EncapInv
  <2>3. OutInv'
    BY <1>1, <2>1 DEF PlacesInv, OutInv
  <2> QED
    BY <2>2, <2>3
<1>6. \A s \in 1..10 : s \notin {4, 5, 6} => Places'[s] = Places[s]
  <2>1. \A s \in 1..10 : s \in {1, 2, 3, 4, 5, 6, 7, 8, 9, 10}
    OBVIOUS
  <2>2. /\ Places'[1] = Places[1] /\ Places'[2] = Places[2] /\ Places'[3] = Places[3]
        /\ Places'[7] = Places[7]
    BY <1>1, PlaceIs, PlaceIsNext DEF PartsHeld, Ahead
  <2>3. /\ Places'[8] = Places[8] /\ Places'[9] = Places[9] /\ Places'[10] = Places[10]
    BY <1>1, PlaceIs, PlaceIsNext DEF Filling
  <2> QED
    BY <2>1, <2>2, <2>3
<1>7. Ascends(Datas(mpdu_list))' /\ Ascends(msg_queue)'
  <2>1. Datas(mpdu_list)' = Datas(mpdu_list)
    BY <1>1
  <2> QED
    BY <1>1, <2>1 DEF PlacesInv, OrderInv, QueuesInOrder
<1> QED
  BY <1>1, <1>2, <1>3, <1>4, <1>5, <1>6, <1>7 DEF SenderInv

LEMMA ChannelStep ==
    ASSUME PlacesInv, Ends, hurt \subseteq hurt', MpdusWhole', WireWhole', UnitsWhole',
           InOrder(Places'), Ascends(Datas(mpdus))', Ascends(Datas(Pdus(wire)))',
           Ascends(Datas(units))',
           \A x \in InHand(Places) : x \in InHand(Places') \/ x.pkt.id \in hurt'
    PROVE  PlacesInv'
<1>1. /\ SenderInv' /\ ListWhole' /\ AtHandInv' /\ EncapInv' /\ OutInv'
      /\ Ascends(Datas(mpdu_list))' /\ Ascends(msg_queue)'
      /\ sent' = sent /\ delivered' = delivered
  BY EndsStay
<1>2. Kept'
  BY <1>1, KeptStays DEF PlacesInv, SenderInv
<1>3. OrderInv'
  BY <1>1 DEF OrderInv, QueuesInOrder
<1> QED
  BY <1>1, <1>2, <1>3 DEF PlacesInv, ZonesInv

LEMMA ChannelTypes ==
    ASSUME TypeInv
    PROVE  /\ mpdus \in Seq(Pdu) /\ wire \in Seq(TF) /\ units \in Seq(Pdu)
           /\ Len(mpdus) \in Nat /\ Len(wire) \in Nat /\ Len(units) \in Nat
           /\ sndFrameCount \in 0..MaxVCFrameCount /\ frameSize \in Lengths
<1>1. /\ mpdus \in Seq(Pdu) /\ wire \in Seq(TF) /\ units \in Seq(Pdu)
      /\ sndFrameCount \in 0..MaxVCFrameCount /\ frameSize \in Lengths
  BY DEF TypeInv, AddTypes, AddTypeOK, LinkTypes
<1> QED
  BY <1>1

\* A frame that is lost, rejected or idle takes with it what it held.
LEMMA FrameGone ==
    ASSUME TypeInv, PlacesInv, Ends, mpdus' = mpdus, units' = units,
           wire # <<>>, wire' = Tail(wire), hurt' = hurt \cup Contents(Head(wire))
    PROVE  PlacesInv'
<1>1. /\ wire \in Seq(TF) /\ Head(wire) = wire[1] /\ Len(wire) \in Nat \ {0}
      /\ wire' \in Seq(TF) /\ Len(wire') = Len(wire) - 1
      /\ \A i \in 1..Len(wire') : wire'[i] = wire[i + 1]
  BY ChannelTypes, QueueTail
<1>2. sent' = sent /\ multi' = multi /\ frameSize' = frameSize /\ hurt \subseteq hurt'
  BY EndsStay
<1>3. WireWhole'
  <2>1. \A i \in 1..Len(wire') : i + 1 \in 1..Len(wire)
    BY <1>1
  <2> QED
    BY <1>1, <1>2, <2>1 DEF WireWhole, PlacesInv, ZonesInv
<1>4. MpdusWhole' /\ UnitsWhole'
  BY <1>2 DEF MpdusWhole, UnitsWhole, PlacesInv, ZonesInv
<1>5. /\ OfAll(Datas(Pdus(wire))) = From(wire[1].pdu.data, 1) \cup OfAll(Datas(Pdus(wire)))'
      /\ Ascends(Datas(Pdus(wire)))'
  <2>1. Datas(Pdus(wire))' = Datas(Pdus(Tail(wire)))
    OBVIOUS
  <2>2. Ascends(Datas(Pdus(wire)))
    BY DEF PlacesInv, OrderInv, QueuesInOrder
  <2> QED
    BY <1>1, <2>1, <2>2, WireDatasTail
<1>6. Ascends(Datas(mpdus))' /\ Ascends(Datas(units))' /\ InOrder(Places)
  <2>1. Datas(mpdus)' = Datas(mpdus) /\ Datas(units)' = Datas(units)
    OBVIOUS
  <2> QED
    BY <2>1 DEF PlacesInv, OrderInv, QueuesInOrder
<1>7. /\ \A s \in 1..10 : s # 5 => Places'[s] = Places[s]
      /\ Places[5] = From(wire[1].pdu.data, 1) \cup Places'[5]
  <2>1. Places'[4] = Places[4] /\ Places'[6] = Places[6]
    BY PlaceIs, PlaceIsNext
  <2> QED
    BY <1>2, <1>5, <2>1, PlaceIs, PlaceIsNext, EndsStay
<1>8. \A s \in 1..10 : Places'[s] \subseteq Places[s]
  BY <1>7
<1>9. InOrder(Places')
  BY <1>6, <1>8, FewerInOrder
<1>10. ASSUME NEW x \in From(wire[1].pdu.data, 1) PROVE x.pkt.id \in hurt'
  <2>1. PICK i \in 1..Len(wire[1].pdu.data) : x = wire[1].pdu.data[i]
    BY DEF From
  <2>2. x \in Places[5] /\ 5 \in 1..10
    BY <1>7
  <2>3. x.pkt.id # 0
    BY <2>2, PlacesOwn, OwnParts
  <2>4. wire[1].pdu.data \in Seq(Octet)
    <3>1. 1 \in 1..Len(wire)
      BY <1>1
    <3>2. wire[1] \in TF
      BY <1>1, <3>1
    <3> QED
      BY <3>2 DEF TF, Pdu
  <2>5. i \in DOMAIN wire[1].pdu.data
    BY <2>4
  <2>6. x.pkt.id \in Contents(wire[1])
    BY <2>1, <2>3, <2>5 DEF Contents
  <2> QED
    BY <1>1, <2>6
<1>11. ASSUME NEW x, x \in InHand(Places) PROVE x \in InHand(Places') \/ x.pkt.id \in hurt'
  <2>1. PICK s \in 2..10 : x \in Places[s]
    BY <1>11, InHandIs
  <2>2. s \in 1..10 /\ 5 \in 2..10
    OBVIOUS
  <2>3. x \in Places'[s] \/ x \in Places'[5] \/ x \in From(wire[1].pdu.data, 1)
    BY <1>7, <2>1, <2>2
  <2> QED
    BY <1>10, <2>2, <2>3, InHandIs
<1> QED
  BY <1>2, <1>3, <1>4, <1>5, <1>6, <1>9, <1>11, ChannelStep

\* modAOS_VC_Gen sends every M_PDU on: all are of the frame's size.
LEMMA FrameUpPlaces ==
    ASSUME TypeInv, PlacesInv, FrameUp
    PROVE  PlacesInv'
<1>1. Ends /\ hurt' = hurt /\ units' = units /\ mpdus # <<>> /\ mpdus' = Tail(mpdus)
  BY DEF FrameUp, Ends, addonly, removeonly, history
<1>2. sent' = sent /\ multi' = multi /\ frameSize' = frameSize
  BY <1>1, EndsStay
<1>3. /\ mpdus \in Seq(Pdu) /\ Head(mpdus) = mpdus[1] /\ Len(mpdus) \in Nat \ {0}
      /\ mpdus' \in Seq(Pdu) /\ Len(mpdus') = Len(mpdus) - 1 /\ mpdus[1] \in Pdu
      /\ \A i \in 1..Len(mpdus') : mpdus'[i] = mpdus[i + 1]
  BY <1>1, ChannelTypes, QueueTail
<1>4. PICK f : f = [num |-> sndFrameCount, ok |-> TRUE, idle |-> FALSE, pdu |-> mpdus[1]]
  OBVIOUS
<1>5. Whole(sent, multi, frameSize, mpdus[1])
  <2>1. 1 \in 1..Len(mpdus)
    BY <1>3
  <2> QED
    BY <2>1 DEF MpdusWhole, PlacesInv, ZonesInv
<1>6. wire' = Append(wire, f)
  <2>1. Head(mpdus).cap = frameSize
    BY <1>3, <1>5 DEF Whole
  <2> QED
    BY <1>3, <1>4, <2>1 DEF FrameUp
<1>7. f \in TF /\ f.pdu = mpdus[1] /\ f.idle = FALSE
  BY <1>3, <1>4, ChannelTypes DEF TF
<1>8. /\ wire \in Seq(TF) /\ Len(wire) \in Nat /\ Len(wire') = Len(wire) + 1
      /\ \A i \in 1..Len(wire) : wire'[i] = wire[i]
      /\ wire'[Len(wire) + 1] = f
  BY <1>6, <1>7, ChannelTypes, QueueAppend
<1>9. /\ OfAll(Datas(mpdus)) = From(f.pdu.data, 1) \cup OfAll(Datas(mpdus)')
      /\ Ascends(Datas(mpdus)')
      /\ AllBefore(From(f.pdu.data, 1), OfAll(Datas(mpdus)'))
  <2>1. Ascends(Datas(mpdus)) /\ Datas(mpdus)' = Datas(Tail(mpdus))
    BY <1>1 DEF PlacesInv, OrderInv, QueuesInOrder
  <2> QED
    BY <1>1, <1>3, <1>7, <2>1, DatasTail
<1>10. InOrder(Places) /\ Places[6] = OfAll(Datas(mpdus)) /\ Places[5] = OfAll(Datas(Pdus(wire)))
       /\ Places'[6] = OfAll(Datas(mpdus)') /\ Places'[5] = OfAll(Datas(Pdus(wire))')
  BY PlaceIs, PlaceIsNext DEF PlacesInv, OrderInv
<1>11. /\ OfAll(Datas(Pdus(wire))') = OfAll(Datas(Pdus(wire))) \cup From(f.pdu.data, 1)
       /\ Ascends(Datas(Pdus(wire)))'
  <2>1. 5 \in 1..10 /\ 6 \in 1..10 /\ 5 < 6
    OBVIOUS
  <2>2. AllBefore(Places[5], Places[6])
    BY <1>10, <2>1 DEF InOrder
  <2>3. AllBefore(OfAll(Datas(Pdus(wire))), From(f.pdu.data, 1))
    BY <1>9, <1>10, <2>2 DEF AllBefore
  <2>4. Ascends(Datas(Pdus(wire))) /\ Datas(Pdus(wire))' = Datas(Pdus(Append(wire, f)))
    BY <1>6 DEF PlacesInv, OrderInv, QueuesInOrder
  <2> QED
    BY <1>7, <1>8, <2>3, <2>4, WireDatasAppend
<1>12. MpdusWhole' /\ UnitsWhole' /\ WireWhole'
  <2>1. MpdusWhole'
    <3>1. \A i \in 1..Len(mpdus') : i + 1 \in 1..Len(mpdus)
      BY <1>3
    <3> QED
      BY <1>2, <1>3, <3>1 DEF MpdusWhole, PlacesInv, ZonesInv
  <2>2. UnitsWhole'
    BY <1>1, <1>2 DEF UnitsWhole, PlacesInv, ZonesInv
  <2>3. WireWhole'
    <3>1. \A i \in 1..Len(wire') : i \in 1..Len(wire) \/ i = Len(wire) + 1
      BY <1>8
    <3> QED
      BY <1>2, <1>5, <1>7, <1>8, <3>1 DEF WireWhole, PlacesInv, ZonesInv
  <2> QED
    BY <2>1, <2>2, <2>3
<1>13. \A s \in 1..10 : s # 5 /\ s # 6 => Places'[s] = Places[s]
  <2>1. Places'[4] = Places[4]
    BY <1>1, PlaceIs, PlaceIsNext
  <2> QED
    BY <1>1, <2>1, EndsStay
<1>14. InOrder(Places')
  <2>1. \A s \in 1..10 : s # 5 => Places'[s] \subseteq Places[s]
    BY <1>9, <1>10, <1>13
  <2>2. \A s \in 1..10 : ~(5 < s /\ s < 6)
    OBVIOUS
  <2>6. PICK A : A = From(f.pdu.data, 1)
    OBVIOUS
  <2>3. \A x \in Places'[5] : x \in Places[5] \/ x \in A
    BY <1>10, <1>11, <2>6
  <2>5. 5 \in 1..10 /\ 6 \in 1..10 /\ 5 < 6
    OBVIOUS
  <2>4. \A x \in A : x \in Places[6] /\ \A y \in Places'[6] : Before(x, y)
    BY <1>9, <1>10, <2>6 DEF AllBefore
  <2> QED
    <3>1. InOrder(Places)
      BY <1>10
    <3> QED
      BY <2>1, <2>2, <2>3, <2>4, <2>5, <3>1, MovesDown
<1>15. ASSUME NEW x, x \in InHand(Places) PROVE x \in InHand(Places')
  <2>1. PICK s \in 2..10 : x \in Places[s]
    BY <1>15, InHandIs
  <2>2. s \in 1..10 /\ 5 \in 2..10 /\ 6 \in 2..10
    OBVIOUS
  <2>3. x \in Places'[s] \/ x \in Places'[5] \/ x \in Places'[6]
    BY <1>9, <1>10, <1>11, <1>13, <2>1, <2>2
  <2> QED
    BY <2>2, <2>3, InHandIs
<1>16. Ascends(Datas(units))'
  BY <1>1 DEF PlacesInv, OrderInv, QueuesInOrder
<1> QED
  BY <1>1, <1>9, <1>11, <1>12, <1>14, <1>15, <1>16, ChannelStep

LEMMA WireToUnits ==
    ASSUME NEW P, NEW Q, NEW A, InOrder(P),
           \A s \in 1..10 : s # 4 => Q[s] \subseteq P[s],
           \A x \in Q[4] : x \in P[4] \/ x \in A,
           \A x \in A : x \in P[5] /\ \A y \in Q[5] : Before(x, y)
    PROVE  InOrder(Q)
<1>1. 4 \in 1..10 /\ 5 \in 1..10 /\ 4 < 5
  OBVIOUS
<1>2. \A s \in 1..10 : 4 < s /\ s < 5 => Q[s] = {}
  OBVIOUS
<1> QED
  BY <1>1, <1>2, MovesDown

\* modAOS_VC_Rcv hands the M_PDU of a good frame on.
LEMMA UnwrapPlaces ==
    ASSUME TypeInv, PlacesInv, Ends, hurt' = hurt, mpdus' = mpdus, wire # <<>>,
           wire' = Tail(wire), ~Head(wire).idle, units' = Append(units, Head(wire).pdu)
    PROVE  PlacesInv'
<1>2. sent' = sent /\ multi' = multi /\ frameSize' = frameSize
  BY EndsStay
<1>3. /\ wire \in Seq(TF) /\ Head(wire) = wire[1] /\ Len(wire) \in Nat \ {0}
      /\ wire' \in Seq(TF) /\ Len(wire') = Len(wire) - 1 /\ wire[1] \in TF
      /\ \A i \in 1..Len(wire') : wire'[i] = wire[i + 1]
  BY ChannelTypes, QueueTail
<1>4. PICK g : g = wire[1].pdu
  OBVIOUS
<1>5. Whole(sent, multi, frameSize, g) /\ g \in Pdu
  <2>1. 1 \in 1..Len(wire)
    BY <1>3
  <2> QED
    BY <1>3, <1>4, <2>1 DEF WireWhole, PlacesInv, ZonesInv, Whole
<1>6. units' = Append(units, g) /\ units \in Seq(Pdu)
  BY <1>3, <1>4, ChannelTypes
<1>7. InOrder(Places) /\ Places[5] = OfAll(Datas(Pdus(wire))) /\ Places[4] = OfAll(Datas(units))
       /\ Places'[5] = OfAll(Datas(Pdus(wire))') /\ Places'[4] = OfAll(Datas(units)')
  BY PlaceIs, PlaceIsNext DEF PlacesInv, OrderInv
<1>8. /\ OfAll(Datas(Pdus(wire))) = From(g.data, 1) \cup OfAll(Datas(Pdus(wire))')
      /\ Ascends(Datas(Pdus(wire)))'
      /\ AllBefore(From(g.data, 1), OfAll(Datas(Pdus(wire))'))
  <2>1. Ascends(Datas(Pdus(wire))) /\ Datas(Pdus(wire))' = Datas(Pdus(Tail(wire)))
    BY DEF PlacesInv, OrderInv, QueuesInOrder
  <2> QED
    BY <1>3, <1>4, <2>1, WireDatasTail
<1>9. /\ OfAll(Datas(units)') = OfAll(Datas(units)) \cup From(g.data, 1)
      /\ Ascends(Datas(units))'
  <2>1. 4 \in 1..10 /\ 5 \in 1..10 /\ 4 < 5
    OBVIOUS
  <2>2. AllBefore(Places[4], Places[5])
    BY <1>7, <2>1 DEF InOrder
  <2>3. AllBefore(OfAll(Datas(units)), From(g.data, 1))
    BY <1>7, <1>8, <2>2 DEF AllBefore
  <2>4. Ascends(Datas(units)) /\ Datas(units)' = Datas(Append(units, g))
    BY <1>6 DEF PlacesInv, OrderInv, QueuesInOrder
  <2> QED
    BY <1>5, <1>6, <2>3, <2>4, DatasAppend
<1>10. MpdusWhole' /\ WireWhole' /\ UnitsWhole'
  <2>1. WireWhole'
    <3>1. \A i \in 1..Len(wire') : i + 1 \in 1..Len(wire)
      BY <1>3
    <3> QED
      BY <1>2, <1>3, <3>1 DEF WireWhole, PlacesInv, ZonesInv
  <2>2. MpdusWhole'
    BY <1>2 DEF MpdusWhole, PlacesInv, ZonesInv
  <2>3. UnitsWhole'
    BY <1>2, <1>5, <1>6, QueueGrows DEF UnitsWhole, PlacesInv, ZonesInv
  <2> QED
    BY <2>1, <2>2, <2>3
<1>11. \A s \in 1..10 : s # 4 /\ s # 5 => Places'[s] = Places[s]
  <2>1. Places'[6] = Places[6]
    BY PlaceIs, PlaceIsNext
  <2> QED
    BY <2>1, EndsStay
<1>12. InOrder(Places')
  <2>1. \A s \in 1..10 : s # 4 => Places'[s] \subseteq Places[s]
    BY <1>7, <1>8, <1>11
  <2>6. PICK A : A = From(g.data, 1)
    OBVIOUS
  <2>3. \A x \in Places'[4] : x \in Places[4] \/ x \in A
    BY <1>7, <1>9, <2>6
  <2>4. \A x \in A : x \in Places[5] /\ \A y \in Places'[5] : Before(x, y)
    BY <1>7, <1>8, <2>6 DEF AllBefore
  <2> QED
    <3>1. InOrder(Places)
      BY <1>7
    <3> QED
      BY <2>1, <2>3, <2>4, <3>1, WireToUnits
<1>13. ASSUME NEW x, x \in InHand(Places) PROVE x \in InHand(Places')
  <2>1. PICK s \in 2..10 : x \in Places[s]
    BY <1>13, InHandIs
  <2>2. s \in 1..10 /\ 4 \in 2..10 /\ 5 \in 2..10
    OBVIOUS
  <2>3. x \in Places'[s] \/ x \in Places'[4] \/ x \in Places'[5]
    BY <1>7, <1>8, <1>9, <1>11, <2>1, <2>2
  <2> QED
    BY <2>2, <2>3, InHandIs
<1>14. Ascends(Datas(mpdus))'
  BY DEF PlacesInv, OrderInv, QueuesInOrder
<1> QED
  BY <1>8, <1>9, <1>10, <1>12, <1>13, <1>14, ChannelStep

LEMMA UnframePlaces ==
    ASSUME TypeInv, PlacesInv, Unframe
    PROVE  PlacesInv'
<1>1. Ends /\ mpdus' = mpdus /\ wire # <<>> /\ wire' = Tail(wire)
  BY DEF Unframe, Ends, addonly, addvars, removeonly
<1>2. CASE Rejected(Head(wire)) /\ ~Head(wire).idle
  <2>1. hurt' = hurt \cup Contents(Head(wire)) /\ units' = units
    BY <1>2 DEF Unframe
  <2> QED
    BY <1>1, <2>1, FrameGone
<1>3. CASE Head(wire).idle
  <2>1. hurt' = hurt /\ units' = units
    BY <1>3 DEF Unframe, history
  <2>2. Contents(Head(wire)) = {}
    <3>1. wire \in Seq(TF) /\ Head(wire) = wire[1] /\ 1 \in 1..Len(wire)
      BY <1>1, ChannelTypes, QueueTail
    <3>2. Head(wire).pdu.data = <<>>
      BY <1>3, <3>1 DEF WireWhole, PlacesInv, ZonesInv
    <3>3. DOMAIN <<>> = {}
      OBVIOUS
    <3> QED
      BY <3>2, <3>3 DEF Contents
  <2> QED
    BY <1>1, <2>1, <2>2, FrameGone
<1>4. CASE ~Rejected(Head(wire)) /\ ~Head(wire).idle
  <2>1. hurt' = hurt /\ units' = Append(units, Head(wire).pdu)
    BY <1>4 DEF Unframe
  <2> QED
    BY <1>1, <1>4, <2>1, UnwrapPlaces
<1> QED
  BY <1>2, <1>3, <1>4

LEMMA LosePlaces ==
    ASSUME TypeInv, PlacesInv, Lose
    PROVE  PlacesInv'
<1>1. /\ Ends /\ mpdus' = mpdus /\ units' = units /\ wire # <<>> /\ wire' = Tail(wire)
      /\ hurt' = hurt \cup Contents(Head(wire))
  BY DEF Lose, Unhurt, Ends, addonly, addvars, removeonly
<1> QED
  BY <1>1, FrameGone

\* What neither takes octets off the wire nor puts any there.
LEMMA SameOnWire ==
    ASSUME TypeInv, PlacesInv, Ends, UNCHANGED <<mpdus, units, hurt>>, WireWhole',
           OfAll(Datas(Pdus(wire))') = OfAll(Datas(Pdus(wire))), Ascends(Datas(Pdus(wire)))'
    PROVE  PlacesInv'
<1>1. sent' = sent /\ multi' = multi /\ frameSize' = frameSize
  BY EndsStay
<1>2. MpdusWhole' /\ UnitsWhole'
  BY <1>1 DEF MpdusWhole, UnitsWhole, PlacesInv, ZonesInv
<1>3. Ascends(Datas(mpdus))' /\ Ascends(Datas(units))' /\ InOrder(Places)
  <2>1. Datas(mpdus)' = Datas(mpdus) /\ Datas(units)' = Datas(units)
    OBVIOUS
  <2> QED
    BY <2>1 DEF PlacesInv, OrderInv, QueuesInOrder
<1>4. \A s \in 1..10 : Places'[s] = Places[s]
  <2>1. Places'[4] = Places[4] /\ Places'[5] = Places[5] /\ Places'[6] = Places[6]
    BY PlaceIs, PlaceIsNext
  <2> QED
    BY <2>1, EndsStay
<1>5. InOrder(Places')
  BY <1>3, <1>4, FewerInOrder
<1>6. \A x \in InHand(Places) : x \in InHand(Places')
  <2>1. \A s \in 2..10 : Places'[s] = Places[s]
    BY <1>4
  <2> QED
    BY <2>1, InHandIs
<1> QED
  BY <1>2, <1>3, <1>5, <1>6, ChannelStep

LEMMA SpoilPlaces ==
    ASSUME TypeInv, PlacesInv, Spoil
    PROVE  PlacesInv'
<1>1. /\ Ends /\ UNCHANGED <<mpdus, units, hurt>> /\ wire # <<>>
      /\ wire' = [wire EXCEPT ![1].ok = FALSE]
  BY DEF Spoil, Unhurt, Ends, addonly, addvars, removeonly
<1>2. sent' = sent /\ multi' = multi /\ frameSize' = frameSize
  BY <1>1, EndsStay
<1>3. wire \in Seq(TF) /\ Len(wire) \in Nat
  BY ChannelTypes
<1>4. /\ wire' \in Seq(TF) /\ Len(wire') = Len(wire)
      /\ \A i \in 1..Len(wire') : wire'[i].pdu = wire[i].pdu /\ wire'[i].idle = wire[i].idle
  <2>1. 1 \in 1..Len(wire) /\ wire[1] \in TF
    BY <1>1, <1>3
  <2> DEFINE g == [wire[1] EXCEPT !.ok = FALSE]
  <2>2. g \in TF /\ g.idle = wire[1].idle /\ g.pdu = wire[1].pdu
    BY <2>1 DEF TF
  <2> HIDE DEF g
  <2>3. wire' = [wire EXCEPT ![1] = g]
    BY <1>1 DEF g
  <2>4. [wire EXCEPT ![1] = g] \in Seq(TF) /\ Len([wire EXCEPT ![1] = g]) = Len(wire)
    BY <1>3, <2>1, <2>2
  <2>5. \A i \in 1..Len(wire) : [wire EXCEPT ![1] = g][i] = IF i = 1 THEN g ELSE wire[i]
    BY <1>3, <2>1
  <2> QED
    BY <2>2, <2>3, <2>4, <2>5
<1>5. WireWhole'
  BY <1>2, <1>4 DEF WireWhole, PlacesInv, ZonesInv
<1>6. /\ OfAll(Datas(Pdus(wire))') = OfAll(Datas(Pdus(wire)))
      /\ Ascends(Datas(Pdus(wire)))'
  <2>1. Datas(Pdus(wire))' = Datas(Pdus(wire')) /\ Ascends(Datas(Pdus(wire)))
    BY DEF PlacesInv, OrderInv, QueuesInOrder
  <2>2. /\ OfAll(Datas(Pdus(wire'))) = OfAll(Datas(Pdus(wire)))
        /\ Ascends(Datas(Pdus(wire'))) <=> Ascends(Datas(Pdus(wire)))
    BY <1>3, <1>4, SameDatas
  <2> QED
    BY <2>1, <2>2
<1> QED
  BY <1>1, <1>5, <1>6, SameOnWire

LEMMA InsertIdlePlaces ==
    ASSUME TypeInv, PlacesInv, InsertIdle
    PROVE  PlacesInv'
<1>1. PICK f : f = [num |-> 0, ok |-> TRUE, idle |-> TRUE,
                    pdu |-> [cap |-> frameSize, fhi |-> 0, data |-> <<>>]]
  OBVIOUS
<1>2. /\ Ends /\ UNCHANGED <<mpdus, units, hurt>> /\ wire' = Append(wire, f)
  BY <1>1 DEF InsertIdle, Unhurt, Ends, addonly, addvars, removeonly
<1>3. sent' = sent /\ multi' = multi /\ frameSize' = frameSize
  BY <1>2, EndsStay
<1>4. f \in TF /\ f.idle = TRUE /\ f.pdu.data = <<>>
  <2>1. f.pdu \in Pdu
    <3>1. <<>> \in Seq(Octet) /\ 0 \in Pointer
      BY DEF Pointer
    <3> QED
      BY <1>1, <3>1, ChannelTypes DEF Pdu
  <2>2. 0 \in 0..MaxVCFrameCount
    BY FrameAssumption
  <2> QED
    BY <1>1, <2>1, <2>2 DEF TF
<1>5. /\ wire \in Seq(TF) /\ Len(wire) \in Nat /\ Len(wire') = Len(wire) + 1
      /\ \A i \in 1..Len(wire) : wire'[i] = wire[i]
      /\ wire'[Len(wire) + 1] = f
  BY <1>2, <1>4, ChannelTypes, QueueAppend
<1>6. WireWhole'
  <2>1. \A i \in 1..Len(wire') : i \in 1..Len(wire) \/ i = Len(wire) + 1
    BY <1>5
  <2> QED
    BY <1>3, <1>4, <1>5, <2>1 DEF WireWhole, PlacesInv, ZonesInv
<1>7. /\ OfAll(Datas(Pdus(wire))') = OfAll(Datas(Pdus(wire)))
      /\ Ascends(Datas(Pdus(wire)))'
  <2>1. From(f.pdu.data, 1) = {}
    BY <1>4, FromNothing
  <2>2. Ascends(Datas(Pdus(wire))) /\ Datas(Pdus(wire))' = Datas(Pdus(Append(wire, f)))
    BY <1>2 DEF PlacesInv, OrderInv, QueuesInOrder
  <2>3. AllBefore(OfAll(Datas(Pdus(wire))), From(f.pdu.data, 1))
    BY <2>1 DEF AllBefore
  <2>4. /\ OfAll(Datas(Pdus(Append(wire, f)))) =
               OfAll(Datas(Pdus(wire))) \cup From(f.pdu.data, 1)
        /\ Ascends(Datas(Pdus(wire))) /\ AllBefore(OfAll(Datas(Pdus(wire))), From(f.pdu.data, 1))
              => Ascends(Datas(Pdus(Append(wire, f))))
    <3>1. wire \in Seq(TF) /\ f \in TF
      BY <1>4, <1>5
    <3> QED
      BY <3>1, WireDatasAppend
  <2> QED
    BY <2>1, <2>2, <2>3, <2>4
<1> QED
  BY <1>2, <1>6, <1>7, SameOnWire

-----------------------------------------------------------------------------
\* The receiver.  What it leaves as it was.
Senders == UNCHANGED <<addvars, channelvars, hits, history>>

LEMMA SendersStay ==
    ASSUME PlacesInv, Senders
    PROVE  /\ SenderInv' /\ ListWhole' /\ MpdusWhole' /\ WireWhole'
           /\ \A s \in 1..10 : s \notin 1..4 => Places'[s] = Places[s]
           /\ Ascends(Datas(mpdu_list))' /\ Ascends(Datas(mpdus))' /\ Ascends(msg_queue)'
           /\ Ascends(Datas(Pdus(wire)))'
           /\ sent' = sent /\ multi' = multi /\ frameSize' = frameSize /\ hurt' = hurt
<1>1. /\ UNCHANGED <<multi, immediate, length, msg_queue, sent, phase, zone, netdata,
                     netdataIdx, mpdu, firstHeaderIndexSet, mpdu_list, mpdus>>
      /\ UNCHANGED <<frameSize, wire, hurt>>
  BY DEF Senders, addvars, channelvars, history
<1>2. SentInv' /\ SizesInv' /\ QueueInv' /\ UnitInv'
  BY <1>1 DEF PlacesInv, SenderInv, SentInv, SizesInv, QueueInv, UnitInv
<1>3. ListInv' /\ FillingInv'
  BY <1>1 DEF PlacesInv, SenderInv, ListInv, FillingInv
<1>4. ListWhole' /\ MpdusWhole' /\ WireWhole'
  BY <1>1 DEF PlacesInv, ZonesInv, ListWhole, MpdusWhole, WireWhole
<1>5. \A s \in 1..10 : s \notin 1..4 => Places'[s] = Places[s]
  <2>1. \A s \in 1..10 : s \in 1..4 \/ s \in {5, 6, 7, 8, 9, 10}
    OBVIOUS
  <2>2. /\ Places'[5] = Places[5] /\ Places'[6] = Places[6] /\ Places'[7] = Places[7]
    BY <1>1, PlaceIs, PlaceIsNext
  <2>3. /\ Places'[8] = Places[8] /\ Places'[9] = Places[9] /\ Places'[10] = Places[10]
    BY <1>1, PlaceIs, PlaceIsNext DEF Filling
  <2> QED
    BY <2>1, <2>2, <2>3
<1>6. /\ Ascends(Datas(mpdu_list))' /\ Ascends(Datas(mpdus))' /\ Ascends(msg_queue)'
      /\ Ascends(Datas(Pdus(wire)))'
  BY <1>1 DEF PlacesInv, OrderInv, QueuesInOrder
<1> QED
  BY <1>1, <1>2, <1>3, <1>4, <1>5, <1>6 DEF SenderInv

LEMMA ReceiverStep ==
    ASSUME PlacesInv, Senders, units' = units, AtHandInv', EncapInv', OutInv',
           InOrder(Places'), Kept'
    PROVE  PlacesInv'
<1>1. /\ SenderInv' /\ ListWhole' /\ MpdusWhole' /\ WireWhole'
      /\ Ascends(Datas(mpdu_list))' /\ Ascends(Datas(mpdus))' /\ Ascends(msg_queue)'
      /\ Ascends(Datas(Pdus(wire)))'
      /\ sent' = sent /\ multi' = multi /\ frameSize' = frameSize
  BY SendersStay
<1>2. UnitsWhole'
  BY <1>1 DEF UnitsWhole, PlacesInv, ZonesInv
<1>3. Ascends(Datas(units))'
  BY DEF PlacesInv, OrderInv, QueuesInOrder
<1> QED
  BY <1>1, <1>2, <1>3 DEF PlacesInv, ZonesInv, OrderInv, QueuesInOrder

LEMMA KeptMoves ==
    ASSUME Kept, SentInv, sent' = sent, hurt' = hurt,
           \A i \in 1..Len(delivered) : i \in 1..Len(delivered') /\ delivered'[i] = delivered[i],
           \A x \in InHand(Places) : \/ x \in InHand(Places') \/ x.pkt.id \in hurt
                                     \/ \E i \in 1..Len(delivered') : delivered'[i] = OctetsOf(x.pkt)
    PROVE  Kept'
<1> SUFFICES ASSUME NEW p \in 1..Len(sent) PROVE KeptFor(sent, Places', delivered', hurt, p)
  BY DEF Kept
<1>1. KeptFor(sent, Places, delivered, hurt, p) /\ sent[p].id = p
  BY DEF Kept, SentInv
<1> QED
  BY <1>1, KeptForStays

-----------------------------------------------------------------------------
\* An octet that should be in hand and is not: its packet was hit.
LEMMA RemoverTypes ==
    ASSUME TypeInv
    PROVE  /\ delivered \in Seq(Seq(Octet)) /\ Len(delivered) \in Nat /\ idx \in Nat
           /\ m_pdu # NoPdu => /\ m_pdu \in Pdu /\ m_pdu.data \in Seq(Octet)
                               /\ Len(m_pdu.data) \in Nat /\ idx < Len(m_pdu.data)
                               /\ m_pdu.fhi \in Nat
           /\ encap # NoPacket => encap \in Seq(Octet) /\ Len(encap) \in Nat
<1>1. /\ delivered \in Seq(Seq(Octet)) /\ idx \in 0..DataFieldLen - 1
      /\ m_pdu \in Pdu \cup {NoPdu} /\ encap \in Seq(Octet) \cup {NoPacket}
      /\ m_pdu # NoPdu => idx < Len(m_pdu.data)
  BY DEF TypeInv, RemoveTypes
<1>2. idx \in Nat
  BY <1>1, FieldLen
<1>3. m_pdu # NoPdu => /\ m_pdu \in Pdu /\ m_pdu.data \in Seq(Octet)
                       /\ Len(m_pdu.data) \in Nat /\ m_pdu.fhi \in Nat
  BY <1>1, PduFields
<1>4. encap # NoPacket => encap \in Seq(Octet) /\ Len(encap) \in Nat
  BY <1>1
<1> QED
  BY <1>1, <1>2, <1>3, <1>4

LEMMA NotOut ==
    ASSUME TypeInv, PlacesInv, NEW y \in InHand(Places), NEW i \in 1..Len(delivered)
    PROVE  delivered[i] # OctetsOf(y.pkt)
<1> SUFFICES ASSUME delivered[i] = OctetsOf(y.pkt) PROVE FALSE
  OBVIOUS
<1>1. PICK s \in 2..10 : y \in Places[s]
  BY InHandIs
<1>2. s \in 1..10 /\ 1 \in 1..10 /\ 1 < s
  OBVIOUS
<1>3. Own(sent, y) /\ y \in Octet /\ y.k < y.pkt.len /\ y.pkt # FillPacket
  BY <1>1, <1>2, PlacesOwn, OwnParts
<1>4. y.pkt \in Packet /\ y.k \in Nat /\ y.pkt.len \in Nat \ {0}
  BY <1>3, OctetParts
<1> DEFINE x == [pkt |-> y.pkt, k |-> y.pkt.len - 1]
<1>5. y.pkt.len \in 1..y.pkt.len
  BY <1>4
<1>6. Len(OctetsOf(y.pkt)) = y.pkt.len
  BY <1>4, PacketsAreOctets
<1>7. OctetsOf(y.pkt)[y.pkt.len] = x
  BY <1>5 DEF OctetsOf
<1>8. x \in Places[1]
  <2>1. x.pkt # FillOctet.pkt
    BY <1>3, FillFields
  <2>2. x # FillOctet
    BY <2>1
  <2>3. x \in From(OctetsOf(y.pkt), 1)
    BY <1>5, <1>6, <1>7, <2>2 DEF From
  <2>4. x \in From(delivered[i], 1)
    BY <2>3
  <2> QED
    BY <2>4, OfMember, PlaceIs
<1>9. Before(x, y)
  BY <1>1, <1>2, <1>8 DEF PlacesInv, OrderInv, InOrder, AllBefore
<1> QED
  <2>1. x.pkt.id = y.pkt.id /\ x.k = y.pkt.len - 1
    OBVIOUS
  <2>2. y.pkt.id \in Nat
    BY <1>3, OctetParts
  <2> HIDE DEF x
  <2>3. x.k < y.k
    BY <1>9, <2>1, <2>2 DEF Before
  <2> QED
    BY <1>3, <1>4, <2>1, <2>3

LEMMA MissingHurts ==
    ASSUME TypeInv, PlacesInv, NEW y \in InHand(Places), NEW k \in 0..y.pkt.len - 1,
           [pkt |-> y.pkt, k |-> k] \notin InHand(Places)
    PROVE  y.pkt.id \in hurt
<1>1. PICK s \in 2..10 : y \in Places[s]
  BY InHandIs
<1>2. s \in 1..10
  OBVIOUS
<1>3. y.pkt.id \in 1..Len(sent) /\ sent[y.pkt.id] = y.pkt
  BY <1>1, <1>2, PlacesOwn DEF Own
<1>4. KeptFor(sent, Places, delivered, hurt, y.pkt.id)
  BY <1>3 DEF PlacesInv, Kept
<1>5. \A i \in 1..Len(delivered) : delivered[i] # OctetsOf(y.pkt)
  BY NotOut
<1> QED
  BY <1>3, <1>4, <1>5 DEF KeptFor

LEMMA ZoneAtHand ==
    ASSUME TypeInv, PlacesInv, m_pdu # NoPdu
    PROVE  /\ Laid(sent, multi, m_pdu.data) /\ Len(m_pdu.data) = frameSize
           /\ m_pdu.data \in Seq(Octet) /\ Len(m_pdu.data) \in Nat \ {0}
           /\ 1 \in 1..Len(m_pdu.data) /\ m_pdu.data[1] # FillOctet
           /\ Own(sent, m_pdu.data[1]) /\ m_pdu.data[1].k \in Nat
           /\ Places[3] = From(m_pdu.data, idx + 1)
           /\ idx = 0 => m_pdu.data[1] \in Places[3]
<1>1. Whole(sent, multi, frameSize, m_pdu)
  BY DEF PlacesInv, ZonesInv, AtHandInv
<1>2. Laid(sent, multi, m_pdu.data) /\ m_pdu.data[1] # FillOctet /\ Len(m_pdu.data) = frameSize
  BY <1>1 DEF Whole
<1>3. m_pdu.data \in Seq(Octet) /\ Len(m_pdu.data) \in Nat \ {0} /\ 1 \in 1..Len(m_pdu.data)
  BY <1>2, RemoverTypes, SenderTypes
<1>4. Own(sent, m_pdu.data[1]) /\ m_pdu.data[1].k \in Nat
  BY <1>2, <1>3, LaidAt
<1>5. Places[3] = From(m_pdu.data, idx + 1)
  BY PlaceIs DEF Ahead
<1>6. ASSUME idx = 0 PROVE m_pdu.data[1] \in Places[3]
  <2>1. idx + 1 = 1
    BY <1>6
  <2> QED
    BY <1>2, <1>3, <1>5, <2>1 DEF From
<1> QED
  BY <1>2, <1>3, <1>4, <1>5, <1>6

\* What is to come, comes after the first octet of the zone.
LEMMA AfterHead ==
    ASSUME TypeInv, PlacesInv, m_pdu # NoPdu, idx = 0, NEW s \in 3..10, NEW x \in Places[s]
    PROVE  x = m_pdu.data[1] \/ Before(m_pdu.data[1], x)
<1>1. /\ Laid(sent, multi, m_pdu.data) /\ 1 \in 1..Len(m_pdu.data)
      /\ m_pdu.data[1] \in Places[3] /\ Len(m_pdu.data) \in Nat
      /\ Places[3] = From(m_pdu.data, idx + 1)
  BY ZoneAtHand
<1>2. CASE s = 3
  <2>1. idx + 1 = 1
    OBVIOUS
  <2>2. PICK j \in 1..Len(m_pdu.data) : x = m_pdu.data[j] /\ x # FillOctet
    BY <1>1, <1>2, <2>1 DEF From
  <2>3. CASE j = 1
    BY <2>2, <2>3
  <2>4. CASE j # 1
    <3>1. j \in 1 + 1..Len(m_pdu.data)
      BY <1>1, <2>4
    <3> QED
      BY <1>1, <2>2, <3>1 DEF Laid, Rises
  <2> QED
    BY <2>3, <2>4
<1>3. CASE s # 3
  <2>1. s \in 1..10 /\ 3 \in 1..10 /\ 3 < s
    BY <1>3
  <2> QED
    BY <1>1, <2>1 DEF PlacesInv, OrderInv, InOrder, AllBefore
<1> QED
  BY <1>2, <1>3

LEMMA HeadOfZone ==
    ASSUME TypeInv, PlacesInv, m_pdu # NoPdu, idx = 0, NEW k \in Nat, k < m_pdu.data[1].k,
           [pkt |-> m_pdu.data[1].pkt, k |-> k] \notin Places[2]
    PROVE  m_pdu.data[1].pkt.id \in hurt
<1> DEFINE y == m_pdu.data[1]
           x == [pkt |-> y.pkt, k |-> k]
<1>1. y \in Places[3] /\ Own(sent, y) /\ y.k \in Nat
  BY ZoneAtHand
<1>2. y.k < y.pkt.len /\ y.pkt.len \in Nat /\ y.pkt.id \in Nat /\ k \in Nat /\ k < y.k
  BY <1>1, OwnParts, OctetParts
<1>3. y \in InHand(Places)
  <2>1. 3 \in 2..10
    OBVIOUS
  <2> QED
    BY <1>1, <2>1, InHandIs
<1>4. x.pkt = y.pkt /\ x.k = k /\ x \notin Places[2]
  OBVIOUS
<1>5. \A s \in 3..10 : \A z \in Places[s] : z = y \/ Before(y, z)
  BY AfterHead
<1> HIDE DEF y, x
<1>6. k \in 0..y.pkt.len - 1
  <2>1. \A a, c, e \in Nat : a < c /\ c < e => a \in 0..e - 1
    OBVIOUS
  <2> QED
    BY <1>1, <1>2, <2>1
<1>7. x \notin InHand(Places)
  <2> SUFFICES ASSUME x \in InHand(Places) PROVE FALSE
    OBVIOUS
  <2>1. PICK s \in 2..10 : x \in Places[s]
    BY InHandIs
  <2>2. s \in 3..10
    BY <1>4, <2>1
  <2>3. x # y
    BY <1>1, <1>2, <1>4
  <2>4. Before(y, x)
    BY <1>5, <2>1, <2>2, <2>3
  <2>5. y.pkt.id < y.pkt.id \/ y.k < k
    BY <1>4, <2>4 DEF Before
  <2> QED
    BY <1>1, <1>2, <2>5
<1>8. y.pkt.id \in hurt
  BY <1>3, <1>6, <1>7, MissingHurts DEF x
<1> QED
  BY <1>8 DEF y

LEMMA PartsAre ==
    ASSUME TypeInv, PlacesInv, encap # NoPacket
    PROVE  /\ encap \in Seq(Octet) /\ Len(encap) \in Nat \ {0}
           /\ Places[2] = From(encap, 1) /\ \A j \in 1..Len(encap) : encap[j] \in Places[2]
           /\ \A x \in Places[2] : \E j \in 1..Len(encap) : x = encap[j]
           /\ 1 \in 1..Len(encap) /\ encap[1].k = 0 /\ Own(sent, encap[1])
<1>1. Begun(sent, encap)
  BY DEF PlacesInv, EncapInv
<1>2. encap \in Seq(Octet) /\ Len(encap) \in Nat \ {0} /\ encap[1].k = 0
  BY <1>1 DEF Begun
<1>3. Places[2] = From(encap, 1)
  BY PlaceIs DEF PartsHeld
<1>4. \A j \in 1..Len(encap) : Own(sent, encap[j]) /\ encap[j] # FillOctet
  BY <1>1, OwnParts DEF Begun
<1>5. /\ \A j \in 1..Len(encap) : encap[j] \in Places[2]
      /\ \A x \in Places[2] : \E j \in 1..Len(encap) : x = encap[j]
  BY <1>3, <1>4 DEF From
<1>6. 1 \in 1..Len(encap)
  BY <1>2
<1> QED
  BY <1>2, <1>3, <1>4, <1>5, <1>6

\* The parts of a packet that do not go on at the head of the zone: the packet was hit.
LEMMA TailOfParts ==
    ASSUME TypeInv, PlacesInv, m_pdu # NoPdu, idx = 0, encap # NoPacket, Prefix(encap),
           Len(encap) < encap[1].pkt.len,
           m_pdu.data[1] # [pkt |-> encap[1].pkt, k |-> Len(encap)]
    PROVE  AllHurt(hurt, encap)
<1> DEFINE q == encap[1].pkt
           n == Len(encap)
           y == m_pdu.data[1]
           x == [pkt |-> q, k |-> n]
<1>1. /\ n \in Nat \ {0} /\ 1 \in 1..n /\ n \in 1..n /\ encap[1] \in Places[2]
      /\ encap[n] \in Places[2] /\ encap[n] = [pkt |-> q, k |-> n - 1]
      /\ \A z \in Places[2] : \E j \in 1..n : z = [pkt |-> q, k |-> j - 1]
      /\ Own(sent, encap[1])
  <2>1. /\ n \in Nat \ {0} /\ 1 \in 1..n /\ \A j \in 1..n : encap[j] \in Places[2]
        /\ \A x1 \in Places[2] : \E j \in 1..n : x1 = encap[j]
        /\ Own(sent, encap[1])
    BY PartsAre
  <2>2. \A j \in 1..n : encap[j] = [pkt |-> q, k |-> j - 1]
    BY DEF Prefix
  <2>3. n \in 1..n
    BY <2>1
  <2> QED
    BY <2>1, <2>2, <2>3
<1>2. y \in Places[3] /\ Own(sent, y) /\ y.k \in Nat /\ y.pkt.id \in Nat /\ y # x
      /\ y.pkt \in Packet /\ y = [pkt |-> y.pkt, k |-> y.k]
  BY ZoneAtHand, OwnParts, OctetParts
<1>3. q.id \in Nat /\ q.len \in Nat /\ n < q.len /\ q.id \in 1..Len(sent) /\ sent[q.id] = q
  <2>1. q.id \in Nat /\ q.len \in Nat
    BY <1>1, OwnParts, OctetParts
  <2> QED
    BY <1>1, <2>1 DEF Own
<1>4. \A s \in 3..10 : \A z \in Places[s] : z = y \/ Before(y, z)
  BY AfterHead
<1>5. Before(encap[n], y)
  <2>1. 2 \in 1..10 /\ 3 \in 1..10 /\ 2 < 3
    OBVIOUS
  <2> QED
    BY <1>1, <1>2, <2>1 DEF PlacesInv, OrderInv, InOrder, AllBefore
<1>6. encap[1] \in InHand(Places)
  <2>1. 2 \in 2..10
    OBVIOUS
  <2> QED
    BY <1>1, <2>1, InHandIs
<1>7. sent[y.pkt.id] = y.pkt
  BY <1>2 DEF Own
<1>8. x.pkt = q /\ x.k = n
  OBVIOUS
<1>9. ASSUME NEW j \in 1..Len(encap) PROVE encap[j].pkt = q
  <2>1. encap[j] = [pkt |-> q, k |-> j - 1]
    BY DEF Prefix
  <2> QED
    BY <2>1
<1> HIDE DEF y, q, x
<1>10. x \notin InHand(Places)
  <2> SUFFICES ASSUME x \in InHand(Places) PROVE FALSE
    OBVIOUS
  <2>1. PICK s \in 2..10 : x \in Places[s]
    BY InHandIs
  <2>2. CASE s = 2
    <3>1. PICK j \in 1..n : x = [pkt |-> q, k |-> j - 1]
      BY <1>1, <2>1, <2>2
    <3>2. x.k = j - 1
      BY <3>1
    <3> QED
      BY <1>1, <1>8, <3>2
  <2>3. CASE s # 2
    <3>1. s \in 3..10
      BY <2>3
    <3>2. Before(y, x)
      BY <1>2, <1>4, <2>1, <3>1
    <3>3. encap[n].pkt = q /\ encap[n].k = n - 1
      BY <1>1
    <3>4. y.pkt.id = q.id /\ n - 1 < y.k /\ y.k < n
      BY <1>2, <1>3, <1>5, <1>8, <3>2, <3>3 DEF Before
    <3> QED
      BY <1>1, <1>2, <3>4
  <2> QED
    BY <2>2, <2>3
<1>11. q.id \in hurt
  <2>1. n \in 0..encap[1].pkt.len - 1 /\ [pkt |-> encap[1].pkt, k |-> n] \notin InHand(Places)
    BY <1>1, <1>3, <1>10 DEF q, x
  <2>2. encap[1].pkt.id \in hurt
    BY <1>6, <2>1, MissingHurts
  <2> QED
    BY <2>2 DEF q
<1> QED
  BY <1>9, <1>11 DEF AllHurt

\* What the zone begins with goes on where the parts end, or packets of both were hit.
LEMMA NextPiece ==
    ASSUME TypeInv, PlacesInv, m_pdu # NoPdu, idx = 0, encap # NoPacket, m_pdu.data[1].k # 0
    PROVE  \/ AllHurt(hurt, encap) /\ m_pdu.data[1].pkt.id \in hurt
           \/ /\ Prefix(encap) /\ Len(encap) < encap[1].pkt.len
              /\ m_pdu.data[1] = [pkt |-> encap[1].pkt, k |-> Len(encap)]
<1>1. ASSUME AllHurt(hurt, encap) PROVE m_pdu.data[1].pkt.id \in hurt
  <2> DEFINE x == [pkt |-> m_pdu.data[1].pkt, k |-> 0]
  <2>1. CASE x \in Places[2]
    <3>1. PICK j \in 1..Len(encap) : x = encap[j]
      BY <2>1, PartsAre
    <3>2. x.pkt = m_pdu.data[1].pkt
      OBVIOUS
    <3> QED
      BY <1>1, <3>1, <3>2 DEF AllHurt
  <2>2. CASE x \notin Places[2]
    <3>1. 0 \in Nat /\ 0 < m_pdu.data[1].k
      BY ZoneAtHand
    <3> QED
      BY <2>2, <3>1, HeadOfZone
  <2> QED
    BY <2>1, <2>2
<1>2. AllHurt(hurt, encap) \/ (Prefix(encap) /\ Len(encap) < encap[1].pkt.len)
  BY DEF PlacesInv, EncapInv
<1>3. CASE m_pdu.data[1] = [pkt |-> encap[1].pkt, k |-> Len(encap)]
  BY <1>1, <1>2, <1>3
<1>4. CASE m_pdu.data[1] # [pkt |-> encap[1].pkt, k |-> Len(encap)]
  <2>1. AllHurt(hurt, encap)
    BY <1>2, <1>4, TailOfParts
  <2> QED
    BY <1>1, <2>1
<1> QED
  BY <1>3, <1>4

LEMMA LostParts ==
    ASSUME TypeInv, PlacesInv, m_pdu # NoPdu, idx = 0, encap # NoPacket, m_pdu.data[1].k = 0
    PROVE  AllHurt(hurt, encap)
<1>1. AllHurt(hurt, encap) \/ (Prefix(encap) /\ Len(encap) < encap[1].pkt.len)
  BY DEF PlacesInv, EncapInv
<1>2. [pkt |-> encap[1].pkt, k |-> Len(encap)].k # 0
  BY PartsAre
<1>3. m_pdu.data[1] # [pkt |-> encap[1].pkt, k |-> Len(encap)]
  BY <1>2
<1> QED
  BY <1>1, <1>3, TailOfParts

\* The zone is read on from its octet n, or there is nothing more in it.
LEMMA GoOnAhead ==
    ASSUME TypeInv, PlacesInv, m_pdu # NoPdu, sent' = sent, multi' = multi,
           frameSize' = frameSize,
           NEW n \in Nat, n <= Len(m_pdu.data), NEW more \in BOOLEAN, R!GoOn(n, more),
           more = FALSE => From(m_pdu.data, n + 1) = {},
           n < Len(m_pdu.data) => m_pdu.data[n + 1].k = 0,
           more = TRUE /\ n < Len(m_pdu.data) => encap' = NoPacket
    PROVE  AtHandInv' /\ Places'[3] = From(m_pdu.data, n + 1)
<1>1. Whole(sent, multi, frameSize, m_pdu) /\ Len(m_pdu.data) \in Nat
  BY RemoverTypes DEF PlacesInv, ZonesInv, AtHandInv
<1>2. CASE more = TRUE /\ n < Len(m_pdu.data)
  <2>1. idx' = n /\ m_pdu' = m_pdu
    BY <1>2 DEF R!GoOn
  <2>2. AtHandInv'
    BY <1>1, <1>2, <2>1 DEF AtHandInv
  <2> QED
    BY <2>1, <2>2, PlaceIsNext DEF Ahead
<1>3. CASE ~(more = TRUE /\ n < Len(m_pdu.data))
  <2>1. m_pdu' = NoPdu
    BY <1>3 DEF R!GoOn
  <2>2. From(m_pdu.data, n + 1) = {}
    <3>1. CASE more = FALSE
      BY <3>1
    <3>2. CASE n = Len(m_pdu.data)
      <4>1. n + 1..Len(m_pdu.data) = {}
        BY <3>2
      <4> QED
        BY <4>1 DEF From
    <3> QED
      BY <1>1, <1>3, <3>1, <3>2
  <2> QED
    BY <2>1, <2>2, PlaceIsNext DEF Ahead, AtHandInv
<1> QED
  BY <1>2, <1>3

\* svc() takes up an M_PDU; none is all idle data.
LEMMA UnitsToZone ==
    ASSUME NEW P, NEW Q, NEW A, InOrder(P),
           \A s \in 1..10 : s # 3 => Q[s] \subseteq P[s],
           \A x \in Q[3] : x \in P[3] \/ x \in A,
           \A x \in A : x \in P[4] /\ \A y \in Q[4] : Before(x, y)
    PROVE  InOrder(Q)
<1>1. 3 \in 1..10 /\ 4 \in 1..10 /\ 3 < 4
  OBVIOUS
<1>2. \A s \in 1..10 : 3 < s /\ s < 4 => Q[s] = {}
  OBVIOUS
<1> QED
  BY <1>1, <1>2, MovesDown

LEMMA TakePlaces ==
    ASSUME TypeInv, PlacesInv, R!Take, Senders
    PROVE  PlacesInv'
<1>1. /\ m_pdu = NoPdu /\ units # <<>> /\ idx' = 0 /\ units' = Tail(units)
      /\ m_pdu' = IF Head(units).fhi = R!OnlyIdleData THEN NoPdu ELSE Head(units)
      /\ encap' = encap /\ delivered' = delivered
  BY DEF R!Take
<1>2. /\ SenderInv' /\ ListWhole' /\ MpdusWhole' /\ WireWhole'
      /\ \A s \in 1..10 : s \notin 1..4 => Places'[s] = Places[s]
      /\ Ascends(Datas(mpdu_list))' /\ Ascends(Datas(mpdus))' /\ Ascends(msg_queue)'
      /\ Ascends(Datas(Pdus(wire)))'
      /\ sent' = sent /\ multi' = multi /\ frameSize' = frameSize /\ hurt' = hurt
  BY SendersStay
<1>3. /\ units \in Seq(Pdu) /\ Head(units) = units[1] /\ Len(units) \in Nat \ {0}
      /\ units' \in Seq(Pdu) /\ Len(units') = Len(units) - 1 /\ 1 \in 1..Len(units)
      /\ \A i \in 1..Len(units') : units'[i] = units[i + 1]
  BY <1>1, ChannelTypes, QueueTail
<1>4. PICK g : g = units[1]
  OBVIOUS
<1>5. Whole(sent, multi, frameSize, g) /\ g \in Pdu
  BY <1>3, <1>4 DEF UnitsWhole, PlacesInv, ZonesInv, Whole
<1>6. m_pdu' = g
  <2>1. frameSize <= DataFieldLen /\ frameSize \in Nat /\ DataFieldLen \in 1..2045
    BY SenderTypes, FrameAssumption
  <2>2. g.fhi = NoPacketStart \/ (g.fhi < frameSize /\ g.fhi \in Nat)
    BY <1>5, PduFields DEF Whole, Points
  <2>3. g.fhi # OnlyIdleData
    BY <2>1, <2>2 DEF NoPacketStart, OnlyIdleData
  <2> QED
    BY <1>1, <1>3, <1>4, <2>3, SameReserved
<1>7. g # NoPdu
  BY <1>5, AddAssumption
<1>8. AtHandInv'
  BY <1>1, <1>2, <1>5, <1>6 DEF AtHandInv
<1>9. EncapInv' /\ OutInv'
  BY <1>1, <1>2 DEF EncapInv, OutInv, PlacesInv
<1>10. UnitsWhole'
  <2>1. \A i \in 1..Len(units') : i + 1 \in 1..Len(units)
    BY <1>3
  <2> QED
    BY <1>2, <1>3, <2>1 DEF UnitsWhole, PlacesInv, ZonesInv
<1>11. /\ InOrder(Places) /\ Places[3] = {} /\ Places'[3] = From(g.data, 1)
       /\ Places[4] = OfAll(Datas(units)) /\ Places'[4] = OfAll(Datas(units)')
       /\ Places'[1] = Places[1] /\ Places'[2] = Places[2]
  <2>1. Ahead = {}
    BY <1>1 DEF Ahead
  <2>2. Ahead' = From(g.data, 0 + 1) /\ 0 + 1 = 1
    BY <1>1, <1>6, <1>7 DEF Ahead
  <2>3. Ahead' = From(g.data, 1)
    BY <2>2
  <2> QED
    BY <1>1, <2>1, <2>3, PlaceIs, PlaceIsNext DEF PlacesInv, OrderInv, PartsHeld
<1>12. /\ OfAll(Datas(units)) = From(g.data, 1) \cup OfAll(Datas(units)')
       /\ Ascends(Datas(units)')
       /\ AllBefore(From(g.data, 1), OfAll(Datas(units)'))
  <2>1. Ascends(Datas(units)) /\ Datas(units)' = Datas(Tail(units))
    BY <1>1 DEF PlacesInv, OrderInv, QueuesInOrder
  <2> QED
    BY <1>1, <1>3, <1>4, <2>1, DatasTail
<1>13. \A s \in 1..10 : s # 3 => Places'[s] \subseteq Places[s]
  <2>1. \A s \in 1..10 : s \in {1, 2, 3, 4} \/ s \notin 1..4
    OBVIOUS
  <2> QED
    BY <1>2, <1>11, <1>12, <2>1
<1>14. InOrder(Places')
  <2>1. PICK A : A = From(g.data, 1)
    OBVIOUS
  <2>2. \A x \in Places'[3] : x \in Places[3] \/ x \in A
    BY <1>11, <2>1
  <2>3. \A x \in A : x \in Places[4] /\ \A y \in Places'[4] : Before(x, y)
    BY <1>11, <1>12, <2>1 DEF AllBefore
  <2>4. InOrder(Places)
    BY <1>11
  <2> QED
    BY <1>13, <2>2, <2>3, <2>4, UnitsToZone
<1>15. ASSUME NEW x, x \in InHand(Places) PROVE x \in InHand(Places')
  <2>1. PICK s \in 2..10 : x \in Places[s]
    BY <1>15, InHandIs
  <2>2. s \in 1..10 /\ 3 \in 2..10 /\ 4 \in 2..10 /\ (s \in {2, 3, 4} \/ s \notin 1..4)
    OBVIOUS
  <2>3. x \in Places'[s] \/ x \in Places'[3] \/ x \in Places'[4]
    BY <1>2, <1>11, <1>12, <2>1, <2>2
  <2> QED
    BY <2>2, <2>3, InHandIs
<1>16. Kept'
  BY <1>1, <1>2, <1>15, KeptStays DEF PlacesInv, SenderInv
<1> QED
  BY <1>2, <1>8, <1>9, <1>10, <1>12, <1>14, <1>16 DEF PlacesInv, ZonesInv, OrderInv, QueuesInOrder

-----------------------------------------------------------------------------
\* Octets of the zone that are passed over: of packets that were hit, or fill.
LEMMA PassedOver ==
    ASSUME TypeInv, PlacesInv, Senders, units' = units, delivered' = delivered, AtHandInv',
           encap' = NoPacket, encap # NoPacket => AllHurt(hurt, encap),
           Places'[3] \subseteq Places[3],
           \A x \in Places[3] : x \in Places'[3] \/ x.pkt.id \in hurt
    PROVE  PlacesInv'
<1>1. /\ \A s \in 1..10 : s \notin 1..4 => Places'[s] = Places[s]
      /\ sent' = sent /\ hurt' = hurt
  BY SendersStay
<1>2. EncapInv' /\ OutInv'
  BY <1>1 DEF EncapInv, OutInv, PlacesInv
<1>3. Places'[2] = {} /\ Places'[1] = Places[1] /\ Places'[4] = Places[4]
  BY PlaceIs, PlaceIsNext DEF PartsHeld
<1>4. ASSUME NEW x \in Places[2] PROVE x.pkt.id \in hurt
  <2>1. encap # NoPacket
    BY PlaceIs DEF PartsHeld
  <2>2. PICK j \in 1..Len(encap) : x = encap[j]
    BY <2>1, PartsAre
  <2> QED
    BY <2>1, <2>2 DEF AllHurt
<1>5. \A s \in 1..10 : Places'[s] \subseteq Places[s]
  <2>1. \A s \in 1..10 : s \in {1, 2, 3, 4} \/ s \notin 1..4
    OBVIOUS
  <2> QED
    BY <1>1, <1>3, <2>1
<1>6. InOrder(Places')
  BY <1>5, FewerInOrder DEF PlacesInv, OrderInv
<1>7. ASSUME NEW x, x \in InHand(Places) PROVE x \in InHand(Places') \/ x.pkt.id \in hurt'
  <2>1. PICK s \in 2..10 : x \in Places[s]
    BY <1>7, InHandIs
  <2>2. s \in 1..10 /\ (s \in {2, 3, 4} \/ s \notin 1..4)
    OBVIOUS
  <2>3. x \in Places'[s] \/ x.pkt.id \in hurt
    BY <1>1, <1>3, <1>4, <2>1, <2>2
  <2> QED
    BY <1>1, <2>1, <2>3, InHandIs
<1>8. Kept'
  BY <1>1, <1>7, KeptStays DEF PlacesInv, SenderInv
<1> QED
  BY <1>2, <1>6, <1>8, ReceiverStep

\* A zone without the start it goes on from is of a packet that was hit.
LEMMA SkipPlaces ==
    ASSUME TypeInv, PlacesInv, R!Skip, Senders
    PROVE  PlacesInv'
<1> DEFINE d == m_pdu.data
           foundTail == m_pdu.fhi # NoPacketStart
           n == IF foundTail THEN m_pdu.fhi ELSE Len(d)
<1>1. /\ m_pdu # NoPdu /\ encap = NoPacket /\ idx = 0 /\ m_pdu.fhi > 0
      /\ R!GoOn(m_pdu.fhi, foundTail) /\ encap' = NoPacket /\ delivered' = delivered
      /\ units' = units
  BY SameReserved DEF R!Skip, R!Continued, R!assemblevars
<1>2. /\ Laid(sent, multi, d) /\ d \in Seq(Octet) /\ Len(d) \in Nat \ {0} /\ Own(sent, d[1])
      /\ d[1].k \in Nat /\ Places[3] = From(d, idx + 1) /\ Len(d) = frameSize
  BY <1>1, ZoneAtHand
<1>3. /\ n \in Nat \ {0} /\ n <= Len(d) /\ NoStart(d, n)
      /\ foundTail => n < Len(d) /\ d[n + 1].k = 0
  <2>1. Whole(sent, multi, frameSize, m_pdu) /\ m_pdu.fhi \in Nat
    BY <1>1, RemoverTypes DEF PlacesInv, ZonesInv, AtHandInv
  <2>2. CASE foundTail
    BY <1>1, <1>2, <2>1, <2>2 DEF Whole, Points
  <2>3. CASE ~foundTail
    BY <1>1, <1>2, <2>1, <2>3 DEF Whole
  <2> QED
    BY <2>2, <2>3
<1>4. \A j \in 1..n : d[j].pkt = d[1].pkt
  <2>1. \A j \in 1..n : d[j] = [pkt |-> d[1].pkt, k |-> d[1].k + (j - 1)]
    BY <1>2, <1>3, UpToStart
  <2> SUFFICES ASSUME NEW j \in 1..n PROVE d[j].pkt = d[1].pkt
    OBVIOUS
  <2>2. d[j] = [pkt |-> d[1].pkt, k |-> d[1].k + (j - 1)]
    BY <2>1
  <2> HIDE DEF d
  <2> QED
    BY <2>2
<1>5. d[1].pkt.id \in hurt
  <2>1. d[1].k # 0
    <3>1. 1 \in 1..n
      BY <1>3
    <3> QED
      BY <1>3, <3>1 DEF NoStart
  <2>2. Places[2] = {}
    BY <1>1, PlaceIs DEF PartsHeld
  <2>3. 0 \in Nat /\ 0 < d[1].k
    BY <1>2, <2>1
  <2> QED
    BY <1>1, <2>2, <2>3, HeadOfZone
<1>6. R!GoOn(n, foundTail)
  <2>1. CASE foundTail
    BY <1>1, <2>1
  <2>2. CASE ~foundTail
    BY <1>1, <2>2 DEF R!GoOn
  <2> QED
    BY <2>1, <2>2
<1>7. foundTail = FALSE => From(d, n + 1) = {}
  <2> SUFFICES ASSUME foundTail = FALSE PROVE From(d, n + 1) = {}
    OBVIOUS
  <2>1. n + 1..Len(d) = {}
    BY <1>2
  <2> QED
    BY <2>1 DEF From
<1>8. sent' = sent /\ multi' = multi /\ frameSize' = frameSize
  BY SendersStay
<1>9. n < Len(d) => d[n + 1].k = 0
  BY <1>2, <1>3
<1>10. n \in Nat /\ foundTail \in BOOLEAN
  BY <1>3
<1>11. AtHandInv' /\ Places'[3] = From(d, n + 1)
  <2> HIDE DEF n, foundTail
  <2> QED
    BY <1>1, <1>3, <1>6, <1>7, <1>8, <1>9, <1>10, GoOnAhead
<1> HIDE DEF n, foundTail
<1>12. Places'[3] \subseteq Places[3] /\ \A x \in Places[3] : x \in Places'[3] \/ x.pkt.id \in hurt
  <2>1. idx + 1 = 1
    BY <1>1
  <2>2. \A j \in n + 1..Len(d) : j \in 1..Len(d)
    BY <1>2, <1>3
  <2>3. \A j \in 1..Len(d) : j \in 1..n \/ j \in n + 1..Len(d)
    BY <1>2, <1>3
  <2>4. \A j \in 1..n : d[j].pkt.id \in hurt
    BY <1>4, <1>5
  <2> QED
    BY <1>2, <1>11, <2>1, <2>2, <2>3, <2>4 DEF From
<1> QED
  BY <1>1, <1>11, <1>12, PassedOver

\* "Lost the end of the packet!": it was.
LEMMA LostEndPlaces ==
    ASSUME TypeInv, PlacesInv, R!LostEnd, Senders
    PROVE  PlacesInv'
<1>1. /\ m_pdu # NoPdu /\ encap # NoPacket /\ ~(idx = 0 /\ m_pdu.fhi > 0)
      /\ R!GoOn(idx, TRUE) /\ encap' = NoPacket /\ delivered' = delivered /\ units' = units
  BY DEF R!LostEnd, R!Continued, R!assemblevars
<1>2. /\ Whole(sent, multi, frameSize, m_pdu) /\ m_pdu.fhi \in Nat /\ idx \in Nat
      /\ idx > 0 => m_pdu.data[idx + 1].k = 0 /\ encap = NoPacket
      /\ idx < Len(m_pdu.data)
  BY <1>1, RemoverTypes DEF PlacesInv, ZonesInv, AtHandInv
<1>3. idx = 0 /\ m_pdu.fhi = 0
  BY <1>1, <1>2
<1>4. m_pdu.data[0 + 1].k = 0 /\ 0 + 1 = 1
  BY <1>2, <1>3 DEF Whole, Points, NoPacketStart
<1>5. AllHurt(hurt, encap)
  BY <1>1, <1>3, <1>4, LostParts
<1>6. sent' = sent /\ multi' = multi /\ frameSize' = frameSize
  BY SendersStay
<1>7. m_pdu.data[idx + 1].k = 0 /\ idx <= Len(m_pdu.data)
  BY <1>2, <1>3, <1>4, RemoverTypes
<1>8. AtHandInv' /\ Places'[3] = From(m_pdu.data, idx + 1)
  BY <1>1, <1>2, <1>6, <1>7, GoOnAhead
<1>9. Places'[3] = Places[3]
  BY <1>1, <1>8, ZoneAtHand
<1> QED
  BY <1>1, <1>5, <1>8, <1>9, PassedOver

\* Behind fill there is only fill.
LEMMA PassFillPlaces ==
    ASSUME TypeInv, PlacesInv, R!PassFill, Senders
    PROVE  PlacesInv'
<1> DEFINE d == m_pdu.data
           more == AllowPacketsAfterFill /\ multi
<1>1. /\ m_pdu # NoPdu /\ encap = NoPacket /\ d[idx + 1].pkt = FillPacket
      /\ R!GoOn(idx + 1, more) /\ encap' = NoPacket /\ delivered' = delivered /\ units' = units
  BY SameReserved DEF R!PassFill, R!AtStart, R!First, R!assemblevars
<1>2. /\ Laid(sent, multi, d) /\ d \in Seq(Octet) /\ Len(d) \in Nat
      /\ Places[3] = From(d, idx + 1) /\ idx \in Nat /\ idx < Len(d)
  BY <1>1, ZoneAtHand, RemoverTypes
<1>3. idx + 1 \in 1..Len(d) /\ d[idx + 1] = FillOctet
  <2>1. idx + 1 \in 1..Len(d)
    BY <1>2
  <2> QED
    BY <1>1, <1>2, <2>1, LaidAt
<1>4. \A j \in idx + 1..Len(d) : d[j] = FillOctet
  <2> SUFFICES ASSUME NEW j \in idx + 1..Len(d) PROVE d[j] = FillOctet
    OBVIOUS
  <2>1. j = idx + 1 \/ j \in (idx + 1) + 1..Len(d)
    BY <1>2
  <2> QED
    BY <1>2, <1>3, <2>1 DEF Laid, Rises
<1>5. From(d, idx + 1) = {}
  BY <1>4 DEF From
<1>6. AtHandInv' /\ Places'[3] = {}
  <2>1. CASE more /\ idx + 1 < Len(d)
    <3>1. idx' = idx + 1 /\ m_pdu' = m_pdu
      BY <2>1 , <1>1 DEF R!GoOn
    <3>2. (idx + 1) + 1 \in idx + 1..Len(d)
      BY <1>2, <2>1
    <3>3. d[(idx + 1) + 1].k = 0
      BY <1>4, <3>2, FillFields
    <3>4. \A j \in (idx + 1) + 1..Len(d) : j \in idx + 1..Len(d)
      BY <1>2
    <3>5. From(d, (idx + 1) + 1) = {}
      BY <1>4, <3>4 DEF From
    <3>6. Whole(sent, multi, frameSize, m_pdu) /\ sent' = sent /\ multi' = multi
          /\ frameSize' = frameSize
      BY <1>1, SendersStay DEF PlacesInv, ZonesInv, AtHandInv
    <3>7. AtHandInv'
      BY <1>1, <3>1, <3>3, <3>6 DEF AtHandInv
    <3>8. Ahead' = {}
      BY <3>1, <3>5 DEF Ahead
    <3> QED
      BY <3>7, <3>8, PlaceIsNext
  <2>2. CASE ~(more /\ idx + 1 < Len(d))
    <3>1. m_pdu' = NoPdu
      BY <1>1, <2>2 DEF R!GoOn
    <3> QED
      BY <3>1, PlaceIsNext DEF AtHandInv, Ahead
  <2> QED
    BY <2>1, <2>2
<1> QED
  BY <1>1, <1>2, <1>5, <1>6, PassedOver

-----------------------------------------------------------------------------
\* From the zone to the parts held, and on to what is delivered.
LEMMA ZoneToParts ==
    ASSUME NEW P, NEW Q, NEW A, InOrder(P),
           \A s \in 1..10 : s # 2 => Q[s] \subseteq P[s],
           \A x \in Q[2] : x \in P[2] \/ x \in A,
           \A x \in A : x \in P[3] /\ \A y \in Q[3] : Before(x, y)
    PROVE  InOrder(Q)
<1>1. 2 \in 1..10 /\ 3 \in 1..10 /\ 2 < 3
  OBVIOUS
<1>2. \A s \in 1..10 : 2 < s /\ s < 3 => Q[s] = {}
  OBVIOUS
<1> QED
  BY <1>1, <1>2, MovesDown

LEMMA PartsToOut ==
    ASSUME NEW P, NEW Q, NEW A, InOrder(P),
           \A s \in 1..10 : s # 1 => Q[s] \subseteq P[s],
           \A x \in Q[1] : x \in P[1] \/ x \in A,
           \A x \in A : x \in P[2], Q[2] = {}
    PROVE  InOrder(Q)
<1>1. 1 \in 1..10 /\ 2 \in 1..10 /\ 1 < 2
  OBVIOUS
<1>2. \A s \in 1..10 : 1 < s /\ s < 2 => Q[s] = {}
  OBVIOUS
<1>3. \A x \in A : x \in P[2] /\ \A y \in Q[2] : Before(x, y)
  OBVIOUS
<1> QED
  BY <1>1, <1>2, <1>3, MovesDown

LEMMA ZoneToOut ==
    ASSUME NEW P, NEW Q, NEW A, InOrder(P),
           \A s \in 1..10 : s # 1 => Q[s] \subseteq P[s],
           \A x \in Q[1] : x \in P[1] \/ x \in P[2] \/ x \in A,
           \A x \in A : x \in P[3] /\ \A y \in Q[3] : Before(x, y),
           Q[2] = {}
    PROVE  InOrder(Q)
<1> DEFINE M == [s \in 1..10 |-> IF s = 1 THEN P[1] ELSE IF s = 2 THEN P[2] \cup A ELSE Q[s]]
<1>1. /\ M[1] = P[1] /\ M[2] = P[2] \cup A /\ M[3] = Q[3]
      /\ \A s \in 1..10 : s # 1 /\ s # 2 => M[s] = Q[s]
  OBVIOUS
<1> HIDE DEF M
<1>2. \A s \in 1..10 : s # 2 => M[s] \subseteq P[s]
  BY <1>1
<1>3. \A x \in M[2] : x \in P[2] \/ x \in A
  BY <1>1
<1>4. \A x \in A : x \in P[3] /\ \A y \in M[3] : Before(x, y)
  BY <1>1
<1>5. InOrder(M)
  BY <1>2, <1>3, <1>4, ZoneToParts
<1>6. \A s \in 1..10 : s # 1 => Q[s] \subseteq M[s]
  BY <1>1
<1>7. \A x \in Q[1] : x \in M[1] \/ x \in M[2]
  BY <1>1
<1>8. \A x \in M[2] : x \in M[2]
  OBVIOUS
<1> QED
  BY <1>5, <1>6, <1>7, <1>8, PartsToOut

\* More of the zone is kept with the parts.
LEMMA HoldPlaces ==
    ASSUME TypeInv, PlacesInv, Senders, units' = units, delivered' = delivered,
           AtHandInv', EncapInv', NEW A, Places[3] = A \cup Places'[3],
           AllBefore(A, Places'[3]), Places'[2] = Places[2] \cup A
    PROVE  PlacesInv'
<1>1. /\ \A s \in 1..10 : s \notin 1..4 => Places'[s] = Places[s]
      /\ sent' = sent /\ hurt' = hurt
  BY SendersStay
<1>2. OutInv'
  BY <1>1 DEF OutInv, PlacesInv
<1>3. Places'[1] = Places[1] /\ Places'[4] = Places[4]
  BY PlaceIs, PlaceIsNext
<1>4. \A s \in 1..10 : s # 2 => Places'[s] \subseteq Places[s]
  <2>1. \A s \in 1..10 : s \in {1, 2, 3, 4} \/ s \notin 1..4
    OBVIOUS
  <2> QED
    BY <1>1, <1>3, <2>1
<1>5. InOrder(Places')
  <2>1. \A x \in Places'[2] : x \in Places[2] \/ x \in A
    OBVIOUS
  <2>2. \A x \in A : x \in Places[3] /\ \A y \in Places'[3] : Before(x, y)
    BY DEF AllBefore
  <2>3. InOrder(Places)
    BY DEF PlacesInv, OrderInv
  <2> QED
    BY <1>4, <2>1, <2>2, <2>3, ZoneToParts
<1>6. ASSUME NEW x, x \in InHand(Places) PROVE x \in InHand(Places')
  <2>1. PICK s \in 2..10 : x \in Places[s]
    BY <1>6, InHandIs
  <2>2. s \in 1..10 /\ 2 \in 2..10 /\ 3 \in 2..10 /\ (s \in {2, 3, 4} \/ s \notin 1..4)
    OBVIOUS
  <2>3. x \in Places'[s] \/ x \in Places'[2] \/ x \in Places'[3]
    BY <1>1, <1>3, <2>1, <2>2
  <2> QED
    BY <2>2, <2>3, InHandIs
<1>7. Kept'
  BY <1>1, <1>6, KeptStays DEF PlacesInv, SenderInv
<1> QED
  BY <1>2, <1>5, <1>7, ReceiverStep

\* The parts and what is taken from the zone go out.
LEMMA OutPlaces ==
    ASSUME TypeInv, PlacesInv, Senders, units' = units, NEW e,
           delivered' = Append(delivered, e), encap' = NoPacket, AtHandInv',
           NEW A, Places[3] = A \cup Places'[3], AllBefore(A, Places'[3]),
           From(e, 1) = Places[2] \cup A, Begun(sent, e),
           AllHurt(hurt, e) \/ e = OctetsOf(e[1].pkt)
    PROVE  PlacesInv'
<1>1. /\ \A s \in 1..10 : s \notin 1..4 => Places'[s] = Places[s]
      /\ sent' = sent /\ hurt' = hurt
  BY SendersStay
<1> DEFINE n == Len(delivered)
<1>2. /\ n \in Nat /\ Len(delivered') = n + 1 /\ delivered'[n + 1] = e
      /\ \A i \in 1..n : i \in 1..Len(delivered') /\ delivered'[i] = delivered[i]
  <2>1. delivered \in Seq(Seq(Octet)) /\ e \in Seq(Octet) /\ n \in Nat
    BY RemoverTypes DEF Begun
  <2>2. /\ Len(delivered') = n + 1 /\ delivered'[n + 1] = e
        /\ \A i \in 1..n : delivered'[i] = delivered[i]
    BY <2>1, QueueAppend
  <2> QED
    BY <2>1, <2>2
<1>3. e \in Seq(Octet) /\ 1 \in 1..Len(e) /\ Own(sent, e[1]) /\ e[1].k = 0 /\ e[1] \in From(e, 1)
  <2>1. e \in Seq(Octet) /\ Len(e) > 0 /\ e[1].k = 0
    BY DEF Begun
  <2>2. 1 \in 1..Len(e)
    BY <2>1
  <2>3. Own(sent, e[1])
    BY <2>2 DEF Begun
  <2>4. e[1] # FillOctet
    BY <2>3, OwnParts
  <2>5. e[1] \in From(e, 1)
    BY <2>2, <2>4 DEF From
  <2> QED
    BY <2>1, <2>2, <2>3, <2>5
<1>4. InOrder(Places)
  BY DEF PlacesInv, OrderInv
<1>5. ASSUME n > 0 PROVE delivered[n][1].pkt.id < e[1].pkt.id
  <2>1. n \in 1..n /\ Begun(sent, delivered[n])
    BY <1>2, <1>5 DEF PlacesInv, OutInv
  <2> DEFINE c == delivered[n]
  <2>2. c \in Seq(Octet) /\ Len(c) > 0
    BY <2>1 DEF Begun
  <2>3. 1 \in 1..Len(c)
    BY <2>2
  <2>4. Own(sent, c[1])
    BY <2>1, <2>3 DEF Begun
  <2>5. c[1] # FillOctet /\ c[1].pkt.id \in Nat /\ c[1].k \in Nat
    BY <2>4, OwnParts, OctetParts
  <2>6. c[1] \in From(c, 1)
    BY <2>3, <2>5 DEF From
  <2>7. c[1] \in Places[1]
    BY <2>1, <2>6, OfMember, PlaceIs
  <2>8. e[1] \in Places[2] \/ e[1] \in Places[3]
    BY <1>3
  <2>9. 1 \in 1..10 /\ 2 \in 1..10 /\ 3 \in 1..10 /\ 1 < 2 /\ 1 < 3
    OBVIOUS
  <2>10. Before(c[1], e[1])
    BY <1>4, <2>7, <2>8, <2>9 DEF InOrder, AllBefore
  <2>11. e[1].pkt.id \in Nat
    BY <1>3, OwnParts, OctetParts
  <2>12. ~(c[1].k < 0)
    BY <2>5
  <2>13. c[1].pkt.id < e[1].pkt.id
    <3>1. c[1].pkt.id < e[1].pkt.id \/ c[1].k < e[1].k
      BY <2>10 DEF Before
    <3> QED
      BY <1>3, <2>12, <3>1
  <2> QED
    BY <2>13
<1>6. OutInv'
  <2> SUFFICES ASSUME NEW i \in 1..Len(delivered')
               PROVE  /\ Begun(sent, delivered'[i])
                      /\ \/ AllHurt(hurt, delivered'[i])
                         \/ delivered'[i] = OctetsOf(delivered'[i][1].pkt)
                      /\ i > 1 => delivered'[i - 1][1].pkt.id < delivered'[i][1].pkt.id
    BY <1>1 DEF OutInv
  <2>1. CASE i = n + 1
    <3>1. i > 1 => n > 0 /\ i - 1 = n /\ n \in 1..n
      BY <1>2, <2>1
    <3>2. i > 1 => delivered'[i - 1][1].pkt.id < e[1].pkt.id
      BY <1>2, <1>5, <3>1
    <3> QED
      BY <1>2, <2>1, <3>2
  <2>2. CASE i # n + 1
    <3>1. i \in 1..n /\ (i > 1 => i - 1 \in 1..n)
      BY <1>2, <2>2
    <3>2. delivered'[i] = delivered[i] /\ (i > 1 => delivered'[i - 1] = delivered[i - 1])
      BY <1>2, <3>1
    <3> QED
      BY <3>1, <3>2 DEF OutInv, PlacesInv
  <2> QED
    BY <2>1, <2>2
<1>7. EncapInv'
  BY DEF EncapInv
<1>8. Places'[1] = Places[1] \cup From(e, 1) /\ Places'[2] = {} /\ Places'[4] = Places[4]
  <2>1. Len(delivered') \in 1..Len(delivered') /\ delivered'[Len(delivered')] = e
    BY <1>2
  <2>2. OfAll(delivered') = OfAll(delivered) \cup From(delivered'[Len(delivered')], 1)
    BY <1>2, OfAppend
  <2> QED
    BY <2>1, <2>2, PlaceIs, PlaceIsNext DEF PartsHeld
<1>9. \A s \in 1..10 : s # 1 => Places'[s] \subseteq Places[s]
  <2>1. \A s \in 1..10 : s \in {1, 2, 3, 4} \/ s \notin 1..4
    OBVIOUS
  <2> QED
    BY <1>1, <1>8, <2>1
<1>10. InOrder(Places')
  <2>1. \A x \in Places'[1] : x \in Places[1] \/ x \in Places[2] \/ x \in A
    BY <1>8
  <2>2. \A x \in A : x \in Places[3] /\ \A y \in Places'[3] : Before(x, y)
    BY DEF AllBefore
  <2>3. Places'[2] = {}
    BY <1>8
  <2> QED
    BY <1>4, <1>9, <2>1, <2>2, <2>3, ZoneToOut
<1>11. ASSUME NEW x \in From(e, 1)
       PROVE  x.pkt.id \in hurt \/ \E i \in 1..Len(delivered') : delivered'[i] = OctetsOf(x.pkt)
  <2>1. PICK j \in 1..Len(e) : x = e[j]
    BY DEF From
  <2>2. CASE AllHurt(hurt, e)
    BY <2>1, <2>2 DEF AllHurt
  <2>3. CASE e = OctetsOf(e[1].pkt)
    <3>1. e[1].pkt \in Packet
      BY <1>3, OwnParts, OctetParts
    <3>2. Len(e) = e[1].pkt.len
      BY <2>3, <3>1, PacketsAreOctets
    <3>3. e[j] = [pkt |-> e[1].pkt, k |-> j - 1]
      BY <2>3, <3>2 DEF OctetsOf
    <3>4. x.pkt = e[1].pkt
      BY <2>1, <3>3
    <3>5. n + 1 \in 1..Len(delivered')
      BY <1>2
    <3> QED
      BY <1>2, <2>3, <3>4, <3>5
  <2> QED
    BY <2>2, <2>3
<1>12. ASSUME NEW x \in InHand(Places)
       PROVE  \/ x \in InHand(Places') \/ x.pkt.id \in hurt
              \/ \E i \in 1..Len(delivered') : delivered'[i] = OctetsOf(x.pkt)
  <2>1. PICK s \in 2..10 : x \in Places[s]
    BY <1>12, InHandIs
  <2>2. s \in 1..10 /\ 3 \in 2..10 /\ (s \in {2, 3, 4} \/ s \notin 1..4)
    OBVIOUS
  <2>3. x \in Places'[s] \/ x \in From(e, 1) \/ x \in Places'[3]
    BY <1>1, <1>8, <2>1, <2>2
  <2>4. x \in InHand(Places') \/ x \in From(e, 1)
    BY <2>2, <2>3, InHandIs
  <2> QED
    BY <1>11, <2>4
<1>13. Kept'
  BY <1>1, <1>2, <1>12, KeptMoves DEF PlacesInv, SenderInv
<1> QED
  BY <1>6, <1>7, <1>10, <1>13, ReceiverStep

-----------------------------------------------------------------------------
\* What is taken from the start of a packet on.
LEMMA StartAt ==
    ASSUME TypeInv, PlacesInv, R!AtStart, R!First # R!FillPacket
    PROVE  /\ m_pdu # NoPdu /\ encap = NoPacket /\ idx \in Nat /\ idx < Len(m_pdu.data)
           /\ Len(m_pdu.data) \in Nat /\ m_pdu.data \in Seq(Octet)
           /\ Laid(sent, multi, m_pdu.data) /\ idx + 1 \in 1..Len(m_pdu.data)
           /\ m_pdu.data[idx + 1].k = 0 /\ R!First = m_pdu.data[idx + 1].pkt
           /\ Own(sent, m_pdu.data[idx + 1]) /\ R!First \in Packet
           /\ R!First.len \in Nat \ {0} /\ R!First.hdr \in Nat /\ R!First.hdr <= R!First.len
           /\ Places[2] = {} /\ Places[3] = From(m_pdu.data, idx + 1)
<1>1. /\ m_pdu # NoPdu /\ encap = NoPacket /\ ~(idx = 0 /\ m_pdu.fhi > 0)
      /\ R!First = m_pdu.data[idx + 1].pkt /\ R!First # FillPacket
  BY SameReserved DEF R!AtStart, R!Continued, R!First
<1>2. /\ idx \in Nat /\ idx < Len(m_pdu.data) /\ Len(m_pdu.data) \in Nat
      /\ m_pdu.data \in Seq(Octet) /\ m_pdu.fhi \in Nat
  BY <1>1, RemoverTypes
<1>3. /\ Whole(sent, multi, frameSize, m_pdu)
      /\ idx > 0 => m_pdu.data[idx + 1].k = 0
  BY <1>1 DEF PlacesInv, ZonesInv, AtHandInv
<1>4. Laid(sent, multi, m_pdu.data) /\ idx + 1 \in 1..Len(m_pdu.data)
  BY <1>2, <1>3 DEF Whole
<1>5. m_pdu.data[idx + 1].k = 0
  <2>1. CASE idx > 0
    BY <1>3, <2>1
  <2>2. CASE ~(idx > 0)
    <3>1. idx = 0 /\ m_pdu.fhi = 0
      BY <1>1, <1>2, <2>2
    <3>2. m_pdu.data[0 + 1].k = 0
      BY <1>3, <3>1 DEF Whole, Points, NoPacketStart
    <3> QED
      BY <3>1, <3>2
  <2> QED
    BY <2>1, <2>2
<1>6. Own(sent, m_pdu.data[idx + 1])
  <2>1. m_pdu.data[idx + 1] # FillOctet
    BY <1>1, FillFields
  <2> QED
    BY <1>4, <2>1, LaidAt
<1>7. R!First \in Packet /\ R!First.len \in Nat \ {0} /\ R!First.hdr \in Nat
  BY <1>1, <1>6, OwnParts, OctetParts
<1>8. R!First.hdr <= R!First.len
  <2>1. R!First.id \in 1..Len(sent) /\ sent[R!First.id] = R!First
    BY <1>1, <1>6 DEF Own
  <2> QED
    BY <2>1 DEF PlacesInv, SenderInv, SentInv
<1>9. Places[2] = {} /\ Places[3] = From(m_pdu.data, idx + 1)
  BY <1>1, PlaceIs DEF PartsHeld, Ahead
<1> QED
  BY <1>1, <1>2, <1>4, <1>5, <1>6, <1>7, <1>8, <1>9

\* e is the n octets of d behind the first i; a packet starts there.
Taken(s, m, d, i, n, e) ==
    /\ Laid(s, m, d) /\ i \in Nat /\ i + 1 \in 1..Len(d) /\ d[i + 1].k = 0 /\ Own(s, d[i + 1])
    /\ n \in Nat \ {0} /\ i + n <= Len(d) /\ n <= d[i + 1].pkt.len
    /\ e \in Seq(Octet) /\ Len(e) = n /\ \A j \in 1..n : e[j] = d[i + j]

LEMMA TakenIs ==
    ASSUME NEW s, NEW m, NEW d, NEW i, NEW n, NEW e, Taken(s, m, d, i, n, e)
    PROVE  /\ Begun(s, e) /\ Prefix(e) /\ e[1] = d[i + 1]
           /\ n = d[i + 1].pkt.len => e = OctetsOf(e[1].pkt)
           /\ n = d[i + 1].pkt.len /\ i + n < Len(d) => d[i + n + 1].k = 0
           /\ From(d, i + 1) = From(e, 1) \cup From(d, i + n + 1)
           /\ AllBefore(From(e, 1), From(d, i + n + 1))
<1>a. /\ Laid(s, m, d) /\ i \in Nat /\ i + 1 \in 1..Len(d) /\ d[i + 1].k = 0 /\ Own(s, d[i + 1])
      /\ n \in Nat \ {0} /\ i + n <= Len(d) /\ n <= d[i + 1].pkt.len
      /\ e \in Seq(Octet) /\ Len(e) = n /\ \A j \in 1..n : e[j] = d[i + j]
  BY DEF Taken
<1> DEFINE p == d[i + 1].pkt
<1>0. Len(d) \in Nat /\ 1 \in 1..n /\ e[1] = d[i + 1] /\ d[i + 1] \in Octet /\ p \in Packet
  <2>1. d \in Seq(Octet)
    BY <1>a DEF Laid
  <2>2. Len(d) \in Nat /\ 1 \in 1..n
    BY <1>a, <2>1
  <2> QED
    BY <1>a, <2>2, OwnParts, OctetParts
<1> DEFINE h == i + 1
<1>h. /\ h \in 1..Len(d) /\ d[h].k = 0 /\ n \in Nat /\ n <= d[h].pkt.len /\ h + n <= Len(d) + 1
      /\ i + n < Len(d) => h + n <= Len(d)
      /\ h + n = i + n + 1 /\ \A j \in 1..n : h + j - 1 = i + j
  BY <1>a, <1>0
<1> HIDE DEF h
<1>t. /\ \A j \in 1..n : d[h + j - 1] = [pkt |-> d[h].pkt, k |-> j - 1]
      /\ n = d[h].pkt.len /\ h + n <= Len(d) => d[h + n].k = 0
  BY <1>a, <1>h, FromStart
<1>1. ASSUME NEW j \in 1..n PROVE e[j] = [pkt |-> p, k |-> j - 1]
  BY <1>a, <1>h, <1>t DEF h
<1>2. ASSUME NEW j \in 1..n PROVE Own(s, e[j])
  <2>1. i + j \in 1..Len(d) /\ e[j] = d[i + j]
    BY <1>a, <1>0
  <2>2. e[j] = [pkt |-> p, k |-> j - 1]
    BY <1>1
  <2>3. e[j].pkt = p
    BY <2>2
  <2>4. e[j].pkt # FillPacket
    BY <1>a, <2>3, OwnParts
  <2>5. e[j] # FillOctet
    BY <2>4, FillFields
  <2>6. PICK g \in 1..Len(d) : g = i + j
    BY <2>1
  <2>7. d[g] # FillOctet => Own(s, d[g])
    BY <1>a, LaidAt
  <2> QED
    BY <2>1, <2>5, <2>6, <2>7
<1>3. Begun(s, e)
  BY <1>a, <1>0, <1>2 DEF Begun
<1>4. Prefix(e)
  <2>1. e[1].pkt = p
    BY <1>a, <1>0
  <2> QED
    BY <1>a, <1>1, <2>1 DEF Prefix
<1>5. ASSUME n = p.len PROVE e = OctetsOf(e[1].pkt)
  <2>1. OctetsOf(p) \in Seq(Octet) /\ Len(OctetsOf(p)) = p.len
    BY <1>0, PacketsAreOctets
  <2>2. \A j \in 1..Len(e) : e[j] = OctetsOf(p)[j]
    BY <1>a, <1>1, <1>5 DEF OctetsOf
  <2>3. e = OctetsOf(p)
    BY <1>a, <1>5, <2>1, <2>2, SeqSame
  <2> QED
    BY <1>0, <2>3
<1>6. n = p.len /\ i + n < Len(d) => d[i + n + 1].k = 0
  BY <1>a, <1>h, <1>t DEF h
<1>7. /\ From(d, i + 1) = From(e, 1) \cup From(d, i + n + 1)
      /\ AllBefore(From(e, 1), From(d, i + n + 1))
  <2>1. /\ Laid(s, m, d) /\ i \in Nat /\ n \in Nat /\ i + n <= Len(d) /\ Len(e) = n
        /\ \A j \in 1..n : e[j] = d[i + j]
    BY <1>a
  <2> QED
    BY <2>1, Parted
<1> QED
  BY <1>0, <1>3, <1>4, <1>5, <1>6, <1>7

\* What is left of the zone has not all of the packet: it is kept.
LEMMA KeepsLeft ==
    ASSUME TypeInv, PlacesInv, R!AtStart, R!First # R!FillPacket, Senders,
           units' = units, delivered' = delivered, m_pdu' = NoPdu, NEW e \in Seq(Octet),
           encap' = e, Len(e) = Len(m_pdu.data) - idx,
           \A j \in 1..Len(e) : e[j] = m_pdu.data[idx + j], Len(e) < R!First.len
    PROVE  PlacesInv'
<1> DEFINE d == m_pdu.data
           n == Len(e)
<1>1. /\ idx \in Nat /\ idx < Len(d) /\ Len(d) \in Nat /\ Laid(sent, multi, d)
      /\ idx + 1 \in 1..Len(d) /\ d[idx + 1].k = 0 /\ R!First = d[idx + 1].pkt
      /\ Own(sent, d[idx + 1]) /\ Places[2] = {} /\ Places[3] = From(d, idx + 1)
      /\ R!First.len \in Nat
  BY StartAt
<1>2. n \in Nat \ {0} /\ idx + n = Len(d) /\ idx + n <= Len(d) /\ n <= d[idx + 1].pkt.len
  <2>1. n = Len(d) - idx /\ n < d[idx + 1].pkt.len /\ d[idx + 1].pkt.len \in Nat
    BY <1>1
  <2> HIDE DEF d, n
  <2> QED
    BY <1>1, <2>1
<1> HIDE DEF d, n
<1>3. /\ Begun(sent, e) /\ Prefix(e) /\ e[1] = d[idx + 1]
      /\ From(d, idx + 1) = From(e, 1) \cup From(d, idx + n + 1)
  <2>1. Len(e) = n /\ \A j \in 1..n : e[j] = d[idx + j]
    BY DEF n, d
  <2> QED
    <3>1. Taken(sent, multi, d, idx, n, e)
      BY <1>1, <1>2, <2>1 DEF Taken
    <3> QED
      BY <3>1, TakenIs
<1>4. From(d, idx + n + 1) = {}
  <2>1. idx + n + 1..Len(d) = {}
    BY <1>1, <1>2
  <2> QED
    BY <2>1 DEF From
<1>5. e # NoPacket
  BY LinkAssumption
<1>6. sent' = sent /\ hurt' = hurt
  BY SendersStay
<1>7. AtHandInv' /\ Places'[3] = {} /\ Places'[2] = From(e, 1)
  BY <1>5, PlaceIsNext DEF AtHandInv, Ahead, PartsHeld
<1>8. EncapInv'
  BY <1>1, <1>3, <1>6 DEF EncapInv
<1>9. PICK A : A = From(e, 1)
  OBVIOUS
<1>10. Places[3] = A \cup Places'[3] /\ AllBefore(A, Places'[3]) /\ Places'[2] = Places[2] \cup A
  BY <1>1, <1>3, <1>4, <1>7, <1>9 DEF AllBefore
<1> QED
  BY <1>7, <1>8, <1>10, HoldPlaces

\* The packet is all there.
LEMMA TakesAll ==
    ASSUME TypeInv, PlacesInv, R!AtStart, R!First # R!FillPacket, Senders,
           units' = units, NEW e \in Seq(Octet), delivered' = Append(delivered, e),
           encap' = NoPacket, NEW n, n = R!First.len, Len(e) = n, idx + n <= Len(m_pdu.data),
           \A j \in 1..n : e[j] = m_pdu.data[idx + j], R!GoOn(idx + n, multi)
    PROVE  PlacesInv'
<1> DEFINE d == m_pdu.data
<1>1. /\ idx \in Nat /\ idx < Len(d) /\ Len(d) \in Nat /\ Laid(sent, multi, d)
      /\ idx + 1 \in 1..Len(d) /\ d[idx + 1].k = 0 /\ R!First = d[idx + 1].pkt
      /\ Own(sent, d[idx + 1]) /\ Places[2] = {} /\ Places[3] = From(d, idx + 1)
      /\ R!First.len \in Nat \ {0} /\ m_pdu # NoPdu /\ m_pdu.data = d
  BY StartAt
<1>2. n \in Nat \ {0} /\ idx + n <= Len(d) /\ n = d[idx + 1].pkt.len /\ n <= d[idx + 1].pkt.len
  BY <1>1
<1>3. \A j \in 1..n : e[j] = d[idx + j]
  OBVIOUS
<1>4. R!GoOn(idx + n, multi) /\ m_pdu # NoPdu
  BY <1>1
<1> HIDE DEF d
<1>5. /\ Begun(sent, e) /\ Prefix(e) /\ e[1] = d[idx + 1] /\ e = OctetsOf(e[1].pkt)
      /\ idx + n < Len(d) => d[idx + n + 1].k = 0
      /\ From(d, idx + 1) = From(e, 1) \cup From(d, idx + n + 1)
      /\ AllBefore(From(e, 1), From(d, idx + n + 1))
  <2>1. Taken(sent, multi, d, idx, n, e)
    BY <1>1, <1>2, <1>3 DEF Taken
  <2> QED
    BY <1>2, <2>1, TakenIs
<1>6. sent' = sent /\ multi' = multi /\ frameSize' = frameSize /\ multi \in BOOLEAN
  BY SendersStay, SenderTypes
<1>7. ASSUME multi = FALSE PROVE From(d, idx + n + 1) = {}
  <2>1. Single(d)
    BY <1>1, <1>7 DEF Laid
  <2>2. idx + n \in 1..Len(d) /\ n \in 1..n
    BY <1>1, <1>2
  <2>3. d[idx + n] = e[n] /\ e[n] = [pkt |-> e[1].pkt, k |-> n - 1]
    BY <1>3, <1>5, <2>2 DEF Prefix
  <2>4. e[n].k = n - 1 /\ e[n].pkt = e[1].pkt
    BY <2>3
  <2>5. d[idx + n].k + 1 = d[idx + n].pkt.len
    BY <1>2, <1>5, <2>3, <2>4
  <2>6. \A j \in (idx + n) + 1..Len(d) : d[j] = FillOctet
    BY <2>1, <2>2, <2>5 DEF Single
  <2> QED
    BY <2>6 DEF From
<1>8. AtHandInv' /\ Places'[3] = From(d, idx + n + 1)
  <2>1. idx + n \in Nat /\ idx + n <= Len(m_pdu.data)
    BY <1>1, <1>2
  <2>2. multi = FALSE => From(m_pdu.data, (idx + n) + 1) = {}
    BY <1>1, <1>7
  <2>3. idx + n < Len(m_pdu.data) => m_pdu.data[(idx + n) + 1].k = 0
    BY <1>1, <1>5
  <2>4. AtHandInv' /\ Places'[3] = From(m_pdu.data, (idx + n) + 1)
    BY <1>4, <1>6, <2>1, <2>2, <2>3, GoOnAhead
  <2> QED
    BY <1>1, <2>4
<1>9. PICK A : A = From(e, 1)
  OBVIOUS
<1>10. /\ Places[3] = A \cup Places'[3] /\ AllBefore(A, Places'[3])
       /\ From(e, 1) = Places[2] \cup A
  BY <1>1, <1>5, <1>8, <1>9
<1> QED
  BY <1>5, <1>8, <1>10, OutPlaces

\* A packet starts: it is delivered when it is all there, and else kept.
LEMMA StartPlaces ==
    ASSUME TypeInv, PlacesInv, R!Start, ~R!Abort, Senders
    PROVE  PlacesInv'
<1> DEFINE d == m_pdu.data
           left == SubSeq(m_pdu.data, idx + 1, Len(m_pdu.data))
           take == IF R!First.len > Len(left) THEN Len(left) ELSE R!First.len
<1>1. R!AtStart /\ R!First # R!FillPacket
  BY DEF R!Start
<1>2. /\ idx \in Nat /\ idx < Len(d) /\ Len(d) \in Nat /\ d \in Seq(Octet)
      /\ R!First.len \in Nat \ {0} /\ R!First.hdr \in Nat /\ R!First.hdr <= R!First.len
  BY <1>1, StartAt
<1>3. PICK r \in Nat : r = Len(d) - idx
  BY <1>2
<1>4. idx + r = Len(d) /\ r # 0
  BY <1>2, <1>3
<1>5. /\ left \in Seq(Octet) /\ Len(left) = r /\ \A j \in 1..r : left[j] = d[idx + j]
  <2>1. idx + r <= Len(d)
    BY <1>2, <1>4
  <2>2. /\ SubSeq(d, idx + 1, idx + r) \in Seq(Octet) /\ Len(SubSeq(d, idx + 1, idx + r)) = r
        /\ \A j \in 1..r : SubSeq(d, idx + 1, idx + r)[j] = d[idx + j]
    BY <1>2, <2>1, Part
  <2> QED
    BY <1>4, <2>2
<1>6. /\ units' = units
      /\ \/ R!First.hdr > Len(left) /\ encap' = left /\ R!GoOn(idx, FALSE) /\ delivered' = delivered
         \/ /\ take = R!First.len /\ encap' = NoPacket
            /\ delivered' = Append(delivered, SubSeq(left, 1, take)) /\ R!GoOn(idx + take, multi)
         \/ /\ take # R!First.len /\ encap' = SubSeq(left, 1, take)
            /\ R!GoOn(idx + take, TRUE) /\ delivered' = delivered
  BY DEF R!Start, R!assemblevars
<1> HIDE DEF left
<1>7. take \in Nat /\ take <= r
  BY <1>2, <1>5
<1>8. PICK e : e = SubSeq(left, 1, take)
  OBVIOUS
<1>9. e \in Seq(Octet) /\ Len(e) = take /\ \A j \in 1..take : e[j] = d[idx + j]
  <2>1. 0 \in Nat /\ 0 + take <= Len(left)
    BY <1>5, <1>7
  <2>2. /\ SubSeq(left, 0 + 1, 0 + take) \in Seq(Octet) /\ Len(SubSeq(left, 0 + 1, 0 + take)) = take
        /\ \A j \in 1..take : SubSeq(left, 0 + 1, 0 + take)[j] = left[0 + j]
    BY <1>5, <1>7, <2>1, Part
  <2>3. 0 + 1 = 1 /\ 0 + take = take /\ \A j \in 1..take : 0 + j = j /\ j \in 1..r
    BY <1>7
  <2>4. \A j \in 1..take : SubSeq(left, 1, take)[j] = left[j]
    BY <2>2, <2>3
  <2> QED
    BY <1>5, <1>8, <2>2, <2>3, <2>4
<1>10. CASE R!First.hdr > Len(left) /\ encap' = left /\ R!GoOn(idx, FALSE) /\ delivered' = delivered
  <2>1. m_pdu' = NoPdu
    BY <1>10 DEF R!GoOn
  <2>2. Len(left) = Len(m_pdu.data) - idx /\ Len(left) < R!First.len
    BY <1>2, <1>3, <1>5, <1>10
  <2>3. \A j \in 1..Len(left) : left[j] = m_pdu.data[idx + j]
    BY <1>5
  <2> QED
    BY <1>1, <1>5, <1>6, <1>10, <2>1, <2>2, <2>3, KeepsLeft
<1>11. CASE /\ take # R!First.len /\ encap' = SubSeq(left, 1, take)
            /\ R!GoOn(idx + take, TRUE) /\ delivered' = delivered
  <2>1. take = r /\ take < R!First.len
    BY <1>2, <1>5, <1>11
  <2>2. m_pdu' = NoPdu
    BY <1>2, <1>4, <1>11, <2>1 DEF R!GoOn
  <2>3. Len(e) = Len(m_pdu.data) - idx /\ Len(e) < R!First.len
    BY <1>3, <1>9, <2>1
  <2>4. \A j \in 1..Len(e) : e[j] = m_pdu.data[idx + j]
    BY <1>9
  <2>5. encap' = e
    BY <1>8, <1>11
  <2> HIDE DEF take
  <2> QED
    BY <1>1, <1>6, <1>9, <1>11, <2>2, <2>3, <2>4, <2>5, KeepsLeft
<1>12. CASE /\ take = R!First.len /\ encap' = NoPacket
            /\ delivered' = Append(delivered, SubSeq(left, 1, take)) /\ R!GoOn(idx + take, multi)
  <2>1. idx + take <= Len(m_pdu.data)
    BY <1>2, <1>4, <1>7
  <2>2. delivered' = Append(delivered, e)
    BY <1>8, <1>12
  <2>3. \A j \in 1..take : e[j] = m_pdu.data[idx + j]
    BY <1>9
  <2> HIDE DEF take
  <2> QED
    BY <1>1, <1>6, <1>9, <1>12, <2>1, <2>2, <2>3, TakesAll
<1> QED
  BY <1>6, <1>10, <1>11, <1>12

-----------------------------------------------------------------------------
\* A zone goes on with a packet: e is its first h octets, up to the first start or its end.
GoesOn(d, h, tail, e) ==
    /\ h \in Nat \ {0} /\ h <= Len(d) /\ NoStart(d, h)
    /\ IF tail THEN h < Len(d) /\ d[h + 1].k = 0 ELSE h = Len(d)
    /\ e \in Seq(Octet) /\ Len(e) = h /\ \A j \in 1..h : e[j] = d[j]

LEMMA GoesOnAt ==
    ASSUME TypeInv, PlacesInv, m_pdu # NoPdu, encap # NoPacket, R!Continued,
           NEW h, h = IF m_pdu.fhi # NoPacketStart THEN m_pdu.fhi ELSE Len(m_pdu.data)
    PROVE  /\ GoesOn(m_pdu.data, h, m_pdu.fhi # NoPacketStart, SubSeq(m_pdu.data, 1, h))
           /\ idx = 0 /\ m_pdu.data[1].k # 0
<1> DEFINE d == m_pdu.data
           foundTail == m_pdu.fhi # NoPacketStart
<1>1. idx = 0 /\ m_pdu.fhi > 0
  BY DEF R!Continued
<1>2. d \in Seq(Octet) /\ Len(d) \in Nat \ {0} /\ Len(d) = frameSize /\ m_pdu.fhi \in Nat
  BY <1>1, ZoneAtHand, RemoverTypes
<1>3. Whole(sent, multi, frameSize, m_pdu)
  BY DEF PlacesInv, ZonesInv, AtHandInv
<1>4. /\ h \in Nat \ {0} /\ h <= Len(d) /\ NoStart(d, h)
      /\ IF foundTail THEN h < Len(d) /\ d[h + 1].k = 0 ELSE h = Len(d)
  <2>1. CASE foundTail
    BY <1>1, <1>2, <1>3, <2>1 DEF Whole, Points
  <2>2. CASE ~foundTail
    BY <1>1, <1>2, <1>3, <2>2 DEF Whole
  <2> QED
    BY <2>1, <2>2
<1>5. d[1].k # 0
  <2>1. 1 \in 1..h
    BY <1>4
  <2> QED
    BY <1>4, <2>1 DEF NoStart
<1>6. /\ SubSeq(d, 1, h) \in Seq(Octet) /\ Len(SubSeq(d, 1, h)) = h
      /\ \A j \in 1..h : SubSeq(d, 1, h)[j] = d[j]
  <2>1. 0 \in Nat /\ 0 + h <= Len(d) /\ h \in Nat
    BY <1>4
  <2>2. /\ SubSeq(d, 0 + 1, 0 + h) \in Seq(Octet) /\ Len(SubSeq(d, 0 + 1, 0 + h)) = h
        /\ \A j \in 1..h : SubSeq(d, 0 + 1, 0 + h)[j] = d[0 + j]
    BY <1>2, <2>1, Part
  <2>3. 0 + 1 = 1 /\ 0 + h = h /\ \A j \in 1..h : 0 + j = j
    BY <1>4
  <2> QED
    BY <2>2, <2>3
<1> QED
  BY <1>1, <1>4, <1>5, <1>6 DEF GoesOn

\* It is all of one packet, and ends it when the next one starts.
OnePacket(s, m, d, h, tail, e) ==
    /\ \A j \in 1..h : e[j] = [pkt |-> d[1].pkt, k |-> d[1].k + (j - 1)]
    /\ \A j \in 1..h : Own(s, e[j]) /\ e[j].pkt = d[1].pkt
    /\ d[1].k \in Nat /\ d[1].pkt.len \in Nat /\ d[1].k + h <= d[1].pkt.len
    /\ tail = TRUE => d[1].k + h = d[1].pkt.len
    /\ From(d, 1) = From(e, 1) \cup From(d, h + 1) /\ AllBefore(From(e, 1), From(d, h + 1))
    /\ h \in Nat /\ h <= Len(d) /\ (h < Len(d) => d[h + 1].k = 0)
    /\ m = FALSE \/ tail = FALSE => From(d, h + 1) = {}

LEMMA GoesOnIs ==
    ASSUME NEW s, NEW m, NEW d, Laid(s, m, d), NEW h, NEW tail \in BOOLEAN, NEW e,
           GoesOn(d, h, tail, e)
    PROVE  OnePacket(s, m, d, h, tail, e)
<1>1. /\ h \in Nat \ {0} /\ h <= Len(d) /\ NoStart(d, h) /\ Len(d) \in Nat
      /\ IF tail THEN h < Len(d) /\ d[h + 1].k = 0 ELSE h = Len(d)
      /\ e \in Seq(Octet) /\ Len(e) = h /\ \A j \in 1..h : e[j] = d[j]
  <2>1. d \in Seq(Octet)
    BY DEF Laid
  <2> QED
    BY <2>1 DEF GoesOn
<1>2. /\ d[1].k + h <= d[1].pkt.len /\ Own(s, d[1])
      /\ \A j \in 1..h : d[j] = [pkt |-> d[1].pkt, k |-> d[1].k + (j - 1)]
      /\ h < Len(d) /\ d[h + 1].k = 0 => d[1].k + h = d[1].pkt.len
  BY <1>1, UpToStart
<1>3. d[1].k \in Nat /\ d[1].pkt.len \in Nat
  BY <1>2, OwnParts, OctetParts
<1>4. \A j \in 1..h : e[j] = [pkt |-> d[1].pkt, k |-> d[1].k + (j - 1)]
  BY <1>1, <1>2
<1>5. ASSUME NEW j \in 1..h PROVE Own(s, e[j]) /\ e[j].pkt = d[1].pkt
  <2>1. j \in 1..Len(d)
    BY <1>1
  <2>2. e[j].pkt = d[1].pkt
    <3>1. e[j] = [pkt |-> d[1].pkt, k |-> d[1].k + (j - 1)]
      BY <1>4
    <3> QED
      BY <3>1
  <2>3. e[j] # FillOctet
    BY <1>2, <2>2, OwnParts, FillFields
  <2>4. d[j] # FillOctet => Own(s, d[j])
    BY <2>1, LaidAt
  <2> QED
    BY <1>1, <2>2, <2>3, <2>4
<1>6. From(d, 1) = From(e, 1) \cup From(d, h + 1) /\ AllBefore(From(e, 1), From(d, h + 1))
  <2>0. PICK z \in Nat : z = 0
    OBVIOUS
  <2>1. h \in Nat /\ z + h <= Len(d) /\ Len(e) = h
    BY <1>1, <2>0
  <2>4. z + 1 = 1 /\ z + h + 1 = h + 1
    BY <1>1, <2>0
  <2>2. \A j \in 1..h : e[j] = d[z + j]
    <3>1. \A j \in 1..h : z + j = j
      BY <1>1, <2>0
    <3> QED
      BY <1>1, <3>1
  <2>3. /\ From(d, z + 1) = From(e, 1) \cup From(d, z + h + 1)
        /\ AllBefore(From(e, 1), From(d, z + h + 1))
    BY <2>1, <2>2, Parted
  <2> QED
    BY <2>3, <2>4
<1>7. ASSUME m = FALSE \/ tail = FALSE PROVE From(d, h + 1) = {}
  <2>1. CASE tail = FALSE
    <3>1. h + 1..Len(d) = {}
      BY <1>1, <2>1
    <3> QED
      BY <3>1 DEF From
  <2>2. CASE tail = TRUE
    <3>1. Single(d)
      BY <1>7, <2>2 DEF Laid
    <3>2. h \in 1..h /\ h \in 1..Len(d)
      BY <1>1
    <3>3. d[h] = [pkt |-> d[1].pkt, k |-> d[1].k + (h - 1)]
      BY <1>2, <3>2
    <3>4. d[h].pkt = d[1].pkt /\ d[h].k = d[1].k + (h - 1)
      BY <3>3
    <3>5. d[1].k + h = d[1].pkt.len
      BY <1>1, <1>2, <2>2
    <3>6. d[h].k + 1 = d[h].pkt.len
      BY <1>1, <1>3, <3>4, <3>5
    <3>7. \A j \in h + 1..Len(d) : d[j] = FillOctet
      BY <3>1, <3>2, <3>6 DEF Single
    <3> QED
      BY <3>7 DEF From
  <2> QED
    BY <2>1, <2>2
<1>8. tail = TRUE => d[1].k + h = d[1].pkt.len
  BY <1>1, <1>2
<1>9. h \in Nat /\ (h < Len(d) => d[h + 1].k = 0)
  BY <1>1
<1> QED
  BY <1>1, <1>2, <1>3, <1>4, <1>5, <1>6, <1>7, <1>8, <1>9 DEF OnePacket

\* The parts with what goes on: of packets that were hit, or the packet as far as it goes.
Grown(c, e, tail) ==
    /\ Begun(sent, c) /\ From(c, 1) = Places[2] \cup From(e, 1)
    /\ \/ AllHurt(hurt, c)
       \/ /\ Prefix(c) /\ Len(c) <= c[1].pkt.len /\ c[1].pkt.hdr <= Len(c)
          /\ tail = TRUE => Len(c) = c[1].pkt.len

LEMMA MoreIs ==
    ASSUME TypeInv, PlacesInv, m_pdu # NoPdu, encap # NoPacket, idx = 0,
           m_pdu.data[1].k # 0, NEW h, NEW tail \in BOOLEAN, NEW e,
           GoesOn(m_pdu.data, h, tail, e), NEW c, Joins(c, encap, e)
    PROVE  Grown(c, e, tail)
<1> DEFINE d == m_pdu.data
           n == Len(encap)
<1>1. /\ Laid(sent, multi, d) /\ Len(d) = frameSize /\ Len(d) \in Nat
  BY ZoneAtHand
<1>2. /\ \A j \in 1..h : e[j] = [pkt |-> d[1].pkt, k |-> d[1].k + (j - 1)]
      /\ \A j \in 1..h : Own(sent, e[j]) /\ e[j].pkt = d[1].pkt
      /\ d[1].k \in Nat /\ d[1].pkt.len \in Nat /\ d[1].k + h <= d[1].pkt.len
      /\ tail = TRUE => d[1].k + h = d[1].pkt.len
  <2>1. OnePacket(sent, multi, d, h, tail, e)
    BY <1>1, GoesOnIs
  <2> QED
    BY <2>1 DEF OnePacket
<1>3. /\ h \in Nat \ {0} /\ e \in Seq(Octet) /\ Len(e) = h /\ (tail = FALSE => h = frameSize)
  BY <1>1 DEF GoesOn
<1>4. /\ encap \in Seq(Octet) /\ n \in Nat \ {0} /\ Places[2] = From(encap, 1)
      /\ 1 \in 1..n /\ encap[1].k = 0 /\ Own(sent, encap[1])
      /\ \A j \in 1..n : Own(sent, encap[j])
  <2>1. Begun(sent, encap)
    BY DEF PlacesInv, EncapInv
  <2> QED
    BY <2>1, PartsAre DEF Begun
<1>5. /\ c \in Seq(Octet) /\ Len(c) = n + h /\ c[1] = encap[1] /\ Len(c) \in Nat
  BY <1>3, <1>4 DEF Joins
<1>6. ASSUME NEW i \in 1..Len(c)
      PROVE  \/ i \in 1..n /\ c[i] = encap[i]
             \/ \E j \in 1..h : i = n + j /\ c[i] = e[j]
  BY <1>3, <1>4, JoinAt
<1>7. Begun(sent, c)
  <2>1. ASSUME NEW i \in 1..Len(c) PROVE Own(sent, c[i])
    BY <1>2, <1>4, <1>6
  <2>2. Len(c) > 0
    BY <1>3, <1>4, <1>5
  <2> QED
    BY <1>4, <1>5, <2>1, <2>2 DEF Begun
<1>8. From(c, 1) = Places[2] \cup From(e, 1)
  BY <1>3, <1>4, JoinFrom
<1>9. CASE AllHurt(hurt, encap) /\ d[1].pkt.id \in hurt
  <2>1. ASSUME NEW i \in 1..Len(c) PROVE c[i].pkt.id \in hurt
    <3>1. CASE i \in 1..n /\ c[i] = encap[i]
      BY <1>9, <3>1 DEF AllHurt
    <3>2. ASSUME NEW j \in 1..h, c[i] = e[j] PROVE c[i].pkt.id \in hurt
      BY <1>2, <1>9, <3>2
    <3> QED
      BY <1>6, <3>1, <3>2
  <2>2. AllHurt(hurt, c)
    BY <2>1 DEF AllHurt
  <2> QED
    BY <1>7, <1>8, <2>2 DEF Grown
<1>10. CASE Prefix(encap) /\ n < encap[1].pkt.len /\ d[1] = [pkt |-> encap[1].pkt, k |-> n]
  <2>1. d[1].pkt = encap[1].pkt /\ d[1].k = n
    BY <1>10
  <2>2. PICK p : p = encap[1].pkt
    OBVIOUS
  <2>3. \A j \in 1..n : encap[j] = [pkt |-> p, k |-> j - 1]
    BY <1>10, <2>2 DEF Prefix
  <2>4. \A j \in 1..h : e[j] = [pkt |-> p, k |-> n + (j - 1)]
    BY <1>2, <2>1, <2>2
  <2>5. Prefix(c)
    <3> SUFFICES ASSUME NEW i \in 1..Len(c) PROVE c[i] = [pkt |-> p, k |-> i - 1]
      BY <1>5, <2>2 DEF Prefix
    <3>1. CASE i \in 1..n /\ c[i] = encap[i]
      BY <2>3, <3>1
    <3>2. ASSUME NEW j \in 1..h, i = n + j, c[i] = e[j] PROVE c[i] = [pkt |-> p, k |-> i - 1]
      <4>1. n + (j - 1) = i - 1
        BY <1>3, <1>4, <3>2
      <4> QED
        BY <2>4, <3>2, <4>1
    <3> QED
      BY <1>6, <3>1, <3>2
  <2>6. n + h <= p.len /\ (tail = TRUE => n + h = p.len)
    BY <1>2, <2>1, <2>2
  <2>7. p.hdr <= p.len /\ p.hdr <= frameSize + 1
    <3>1. p.id \in 1..Len(sent) /\ sent[p.id] = p
      BY <1>4, <2>2 DEF Own
    <3> QED
      BY <3>1 DEF PlacesInv, SenderInv, SentInv
  <2>8. p.hdr \in Nat /\ p.len \in Nat /\ frameSize \in Nat
    BY <1>4, <2>2, OwnParts, OctetParts, SenderTypes
  <2>9. p.hdr <= n + h
    <3>1. CASE tail = TRUE
      BY <2>6, <2>7, <3>1
    <3>2. CASE tail = FALSE
      BY <1>3, <1>4, <2>7, <2>8, <3>2
    <3> QED
      BY <3>1, <3>2
  <2>10. c[1].pkt = p
    BY <1>5, <2>2
  <2> QED
    BY <1>5, <1>7, <1>8, <2>5, <2>6, <2>9, <2>10 DEF Grown
<1> QED
  BY <1>9, <1>10, NextPiece

-----------------------------------------------------------------------------
\* What may become of the parts with what goes on.
LEMMA PassMore ==
    ASSUME TypeInv, PlacesInv, m_pdu # NoPdu, encap # NoPacket, idx = 0,
           m_pdu.data[1].k # 0, Senders, NEW h, NEW tail \in BOOLEAN, NEW e,
           GoesOn(m_pdu.data, h, tail, e), NEW more \in BOOLEAN, R!GoOn(h, more),
           more = FALSE => multi = FALSE,
           more = TRUE /\ tail = TRUE => encap' = NoPacket
    PROVE  /\ AtHandInv' /\ Places'[3] = From(m_pdu.data, h + 1)
           /\ Places[3] = From(e, 1) \cup Places'[3] /\ AllBefore(From(e, 1), Places'[3])
<1> DEFINE d == m_pdu.data
<1>1. Laid(sent, multi, d) /\ Places[3] = From(d, idx + 1) /\ Len(d) \in Nat
  BY ZoneAtHand
<1>2. OnePacket(sent, multi, d, h, tail, e)
  BY <1>1, GoesOnIs
<1>3. /\ From(d, 1) = From(e, 1) \cup From(d, h + 1) /\ AllBefore(From(e, 1), From(d, h + 1))
      /\ h \in Nat /\ h <= Len(d) /\ (h < Len(d) => d[h + 1].k = 0)
      /\ multi = FALSE \/ tail = FALSE => From(d, h + 1) = {}
  BY <1>2 DEF OnePacket
<1>4. Places[3] = From(d, 1)
  <2>1. idx + 1 = 1
    OBVIOUS
  <2> QED
    BY <1>1, <2>1
<1>5. more = TRUE /\ h < Len(d) => encap' = NoPacket
  BY DEF GoesOn
<1>6. sent' = sent /\ multi' = multi /\ frameSize' = frameSize
  BY SendersStay
<1>7. AtHandInv' /\ Places'[3] = From(d, h + 1)
  BY <1>3, <1>5, <1>6, GoOnAhead
<1> QED
  BY <1>3, <1>4, <1>7

LEMMA DeliversMore ==
    ASSUME TypeInv, PlacesInv, m_pdu # NoPdu, encap # NoPacket, idx = 0,
           m_pdu.data[1].k # 0, Senders, units' = units, NEW h, NEW tail \in BOOLEAN, NEW e,
           GoesOn(m_pdu.data, h, tail, e), R!GoOn(h, multi), NEW c, Joins(c, encap, e),
           encap' = NoPacket, delivered' = Append(delivered, c),
           AllHurt(hurt, c) \/ (Prefix(c) /\ Len(c) = c[1].pkt.len)
    PROVE  PlacesInv'
<1>1. multi \in BOOLEAN
  BY SenderTypes
<1>2. PICK A : A = From(e, 1)
  OBVIOUS
<1>3. AtHandInv' /\ Places[3] = A \cup Places'[3] /\ AllBefore(A, Places'[3])
  BY <1>1, <1>2, PassMore
<1>4. Begun(sent, c) /\ From(c, 1) = Places[2] \cup A
  <2>1. Grown(c, e, tail)
    BY MoreIs
  <2> QED
    BY <1>2, <2>1 DEF Grown
<1>5. ASSUME Prefix(c), Len(c) = c[1].pkt.len PROVE c = OctetsOf(c[1].pkt)
  <2> DEFINE p == c[1].pkt
  <2>1. c \in Seq(Octet) /\ Len(c) > 0
    BY <1>4 DEF Begun
  <2>2. c[1] \in Octet
    BY <2>1
  <2>3. p \in Packet
    BY <2>2, OctetParts
  <2>4. OctetsOf(p) \in Seq(Octet) /\ Len(OctetsOf(p)) = p.len
    BY <2>3, PacketsAreOctets
  <2>5. \A j \in 1..Len(c) : c[j] = OctetsOf(p)[j]
    BY <1>5 DEF Prefix, OctetsOf
  <2> QED
    BY <1>5, <2>1, <2>4, <2>5, SeqSame
<1>6. AllHurt(hurt, c) \/ c = OctetsOf(c[1].pkt)
  BY <1>5
<1> QED
  BY <1>3, <1>4, <1>6, OutPlaces

LEMMA GivesUpMore ==
    ASSUME TypeInv, PlacesInv, m_pdu # NoPdu, encap # NoPacket, idx = 0,
           m_pdu.data[1].k # 0, Senders, units' = units, NEW h, NEW tail \in BOOLEAN, NEW e,
           GoesOn(m_pdu.data, h, tail, e), R!GoOn(h, TRUE), NEW c, Joins(c, encap, e),
           encap' = NoPacket, delivered' = delivered, AllHurt(hurt, c)
    PROVE  PlacesInv'
<1>1. AtHandInv' /\ Places[3] = From(e, 1) \cup Places'[3]
  BY PassMore
<1>2. /\ encap \in Seq(Octet) /\ Len(encap) \in Nat /\ e \in Seq(Octet) /\ Len(e) \in Nat
      /\ Len(c) = Len(encap) + Len(e)
      /\ \A i \in 1..Len(encap) : c[i] = encap[i]
      /\ \A i \in 1..Len(e) : c[Len(encap) + i] = e[i]
  BY RemoverTypes DEF Joins, GoesOn
<1>3. ASSUME NEW i \in 1..Len(encap) PROVE encap[i].pkt.id \in hurt
  <2>1. i \in 1..Len(c)
    BY <1>2
  <2> QED
    BY <1>2, <2>1 DEF AllHurt
<1>4. ASSUME NEW i \in 1..Len(e) PROVE e[i].pkt.id \in hurt
  <2>1. Len(encap) + i \in 1..Len(c)
    BY <1>2
  <2> QED
    BY <1>2, <2>1 DEF AllHurt
<1>5. \A x \in From(e, 1) : x.pkt.id \in hurt
  BY <1>4 DEF From
<1>6. AllHurt(hurt, encap)
  BY <1>3 DEF AllHurt
<1> QED
  BY <1>1, <1>5, <1>6, PassedOver

LEMMA KeepsMore ==
    ASSUME TypeInv, PlacesInv, m_pdu # NoPdu, encap # NoPacket, idx = 0,
           m_pdu.data[1].k # 0, Senders, units' = units, NEW h, NEW tail \in BOOLEAN, NEW e,
           GoesOn(m_pdu.data, h, tail, e), R!GoOn(h, TRUE), NEW c, Joins(c, encap, e),
           tail = FALSE, encap' = c, delivered' = delivered,
           AllHurt(hurt, c) \/ (Prefix(c) /\ Len(c) < c[1].pkt.len)
    PROVE  PlacesInv'
<1>1. PICK A : A = From(e, 1)
  OBVIOUS
<1>2. AtHandInv' /\ Places[3] = A \cup Places'[3] /\ AllBefore(A, Places'[3])
  BY <1>1, PassMore
<1>3. Begun(sent, c) /\ From(c, 1) = Places[2] \cup A
  <2>1. Grown(c, e, tail)
    BY MoreIs
  <2> QED
    BY <1>1, <2>1 DEF Grown
<1>4. c # NoPacket
  BY <1>3, LinkAssumption DEF Begun
<1>5. sent' = sent /\ hurt' = hurt
  BY SendersStay
<1>6. EncapInv'
  BY <1>3, <1>5 DEF EncapInv
<1>7. Places'[2] = Places[2] \cup A
  BY <1>3, <1>4, PlaceIsNext DEF PartsHeld
<1> QED
  BY <1>2, <1>6, <1>7, HoldPlaces

\* The parts go on: what is complete goes out, and what cannot be is given up.
LEMMA ContinuePlaces ==
    ASSUME TypeInv, PlacesInv, R!Continue, ~R!Abort, Senders
    PROVE  PlacesInv'
<1> DEFINE foundTail == m_pdu.fhi # NoPacketStart
           h == IF m_pdu.fhi # NoPacketStart THEN m_pdu.fhi ELSE Len(m_pdu.data)
           e == SubSeq(m_pdu.data, 1, h)
           c == encap \o e
<1>1. m_pdu # NoPdu /\ encap # NoPacket /\ R!Continued
  BY DEF R!Continue
<1>2. PICK expected \in R!ExpectedLengths(c) :
         /\ units' = units
         /\ \/ /\ Len(c) = expected /\ encap' = NoPacket /\ delivered' = Append(delivered, c)
               /\ R!GoOn(h, multi)
            \/ /\ Len(c) # expected /\ R!GoOn(h, TRUE) /\ delivered' = delivered
               /\ encap' = IF R!GivenUp(Len(c), expected, foundTail) THEN NoPacket ELSE c
  BY SameReserved DEF R!Continue, R!assemblevars
<1>3. GoesOn(m_pdu.data, h, foundTail, e) /\ idx = 0 /\ m_pdu.data[1].k # 0
  BY <1>1, GoesOnAt
<1>4. Joins(c, encap, e)
  <2>1. encap \in Seq(Octet) /\ e \in Seq(Octet)
    BY <1>1, <1>3, RemoverTypes DEF GoesOn
  <2> QED
    BY <2>1, Concat DEF Joins
<1>5. PICK tail \in BOOLEAN : tail = foundTail
  OBVIOUS
<1> HIDE DEF foundTail, h, e, c
<1>6. GoesOn(m_pdu.data, h, tail, e)
  BY <1>3, <1>5
<1>7. /\ Begun(sent, c)
      /\ \/ AllHurt(hurt, c)
         \/ /\ Prefix(c) /\ Len(c) <= c[1].pkt.len /\ c[1].pkt.hdr <= Len(c)
            /\ tail = TRUE => Len(c) = c[1].pkt.len
  <2>1. Grown(c, e, tail)
    BY <1>1, <1>3, <1>4, <1>6, MoreIs
  <2> QED
    BY <2>1 DEF Grown
<1>8. c \in Seq(Octet) /\ Len(c) \in Nat /\ c[1].pkt.len \in Nat /\ c[1].pkt.hdr \in Nat
  <2>1. c \in Seq(Octet) /\ Len(c) > 0
    BY <1>7 DEF Begun
  <2>2. c[1] \in Octet
    BY <2>1
  <2> QED
    BY <2>1, <2>2, OctetParts
<1>9. AllHurt(hurt, c) \/ (Prefix(c) /\ expected = c[1].pkt.len)
  <2>1. ASSUME Prefix(c), c[1].pkt.hdr <= Len(c) PROVE expected = c[1].pkt.len
    <3>1. \A i \in 1..c[1].pkt.hdr : i \in 1..Len(c)
      BY <1>8, <2>1
    <3>2. \A i \in 1..c[1].pkt.hdr : c[i] = [pkt |-> c[1].pkt, k |-> i - 1]
      BY <2>1, <3>1 DEF Prefix
    <3>3. Len(c) >= c[1].pkt.hdr
      BY <1>8, <2>1
    <3>4. R!ExpectedLengths(c) = {c[1].pkt.len}
      BY <3>2, <3>3 DEF R!ExpectedLengths
    <3> QED
      BY <1>2, <3>4
  <2> QED
    BY <1>7, <2>1
<1>10. CASE /\ Len(c) = expected /\ encap' = NoPacket /\ delivered' = Append(delivered, c)
            /\ R!GoOn(h, multi)
  <2>1. AllHurt(hurt, c) \/ (Prefix(c) /\ Len(c) = c[1].pkt.len)
    BY <1>9, <1>10
  <2> QED
    BY <1>1, <1>2, <1>3, <1>4, <1>6, <1>10, <2>1, DeliversMore
<1>11. CASE /\ Len(c) # expected /\ R!GoOn(h, TRUE) /\ delivered' = delivered
            /\ encap' = IF R!GivenUp(Len(c), expected, foundTail) THEN NoPacket ELSE c
  <2>1. AllHurt(hurt, c) \/ (Prefix(c) /\ Len(c) < c[1].pkt.len /\ tail = FALSE)
    BY <1>7, <1>8, <1>9, <1>11
  <2>2. CASE R!GivenUp(Len(c), expected, foundTail)
    <3>1. encap' = NoPacket
      BY <1>11, <2>2
    <3>2. AllHurt(hurt, c)
      <4>1. foundTail \/ Len(c) > expected
        BY <2>2 DEF R!GivenUp
      <4> QED
        BY <1>5, <1>8, <1>9, <2>1, <4>1
    <3> QED
      BY <1>1, <1>2, <1>3, <1>4, <1>6, <1>11, <3>1, <3>2, GivesUpMore
  <2>3. CASE ~R!GivenUp(Len(c), expected, foundTail)
    <3>1. encap' = c
      BY <1>11, <2>3
    <3>2. tail = FALSE
      BY <1>5, <2>3 DEF R!GivenUp
    <3>3. AllHurt(hurt, c) \/ (Prefix(c) /\ Len(c) < c[1].pkt.len)
      BY <2>1
    <3> QED
      BY <1>1, <1>2, <1>3, <1>4, <1>6, <1>11, <3>1, <3>2, <3>3, KeepsMore
  <2> QED
    BY <2>2, <2>3
<1> QED
  BY <1>2, <1>10, <1>11

-----------------------------------------------------------------------------
\* Between data units nothing is kept to be sent together, and an M_PDU is left unfilled
\* only while there is more to fill it with.
GetInv == phase = "get" => mpdu_list = <<>> /\ (mpdu # NoPdu => msg_queue # <<>>)

\* While the lengths are those the link began with.
LinkInv == sizings = 0 => PlacesInv /\ GetInv

LEMMA InitPlaces == Init => PlacesInv /\ GetInv
<1> SUFFICES ASSUME Init PROVE PlacesInv /\ GetInv
  OBVIOUS
<1>1. /\ msg_queue = <<>> /\ sent = <<>> /\ phase = "get" /\ netdata = <<>> /\ mpdu = NoPdu
      /\ mpdu_list = <<>> /\ mpdus = <<>> /\ zone = length /\ frameSize = length /\ wire = <<>>
      /\ units = <<>> /\ m_pdu = NoPdu /\ encap = NoPacket /\ delivered = <<>> /\ netdataIdx = 0
  BY DEF Init, AddInit, R!RemoveInit
<1>2. Len(<<>>) = 0 /\ 1..0 = {}
  OBVIOUS
<1>3. /\ 1..Len(msg_queue) = {} /\ 1..Len(sent) = {} /\ 1..Len(mpdu_list) = {}
      /\ 1..Len(mpdus) = {} /\ 1..Len(wire) = {} /\ 1..Len(units) = {} /\ 1..Len(delivered) = {}
  BY <1>1, <1>2
<1>4. SenderInv
  BY <1>1, <1>3 DEF SenderInv, SentInv, SizesInv, QueueInv, UnitInv, ListInv, FillingInv
<1>5. ZonesInv /\ EncapInv /\ OutInv /\ Kept
  BY <1>1, <1>3 DEF ZonesInv, ListWhole, MpdusWhole, WireWhole, UnitsWhole, AtHandInv, EncapInv,
                    OutInv, Kept
<1>6. /\ Len(Datas(units)) = 0 /\ Len(Datas(mpdus)) = 0 /\ Len(Datas(mpdu_list)) = 0
      /\ Len(Datas(Pdus(wire))) = 0
  <2>1. <<>> \in Seq(Pdu) /\ <<>> \in Seq(TF)
    OBVIOUS
  <2>2. Len(Datas(<<>>)) = 0
    BY <1>2, <2>1, DatasIs
  <2>3. Len(Datas(Pdus(<<>>))) = 0
    BY <1>2, <2>1, WireDatas
  <2> QED
    BY <1>1, <2>2, <2>3
<1>7. QueuesInOrder
  BY <1>1, <1>6, OfNone, OfEmpty DEF QueuesInOrder
<1>8. Places[1] = {}
  BY <1>1, PlaceIs, OfEmpty
<1>9. \A s \in 1..10 : Places[s] = {}
  <2>1. Places[2] = {} /\ Places[3] = {} /\ Places[8] = {}
    BY <1>1, PlaceIs DEF PartsHeld, Ahead, Filling
  <2>2. Places[4] = {} /\ Places[5] = {} /\ Places[6] = {} /\ Places[7] = {}
    BY <1>6, PlaceIs, OfNone
  <2>3. Places[10] = {}
    BY <1>1, PlaceIs, OfEmpty
  <2>4. Places[9] = {}
    <3>1. netdataIdx + 1 \in Nat \ {0}
      BY <1>1
    <3> QED
      BY <1>1, <3>1, PlaceIs, FromNothing
  <2> QED
    BY <1>8, <2>1, <2>2, <2>3, <2>4
<1>10. InOrder(Places)
  BY <1>9 DEF InOrder, AllBefore
<1>11. GetInv
  BY <1>1 DEF GetInv
<1> QED
  BY <1>4, <1>5, <1>7, <1>10, <1>11 DEF PlacesInv, OrderInv

\* The sender.
LEMMA AddPlaces ==
    ASSUME HeadersFit, TypeInv, PlacesInv, Add, sizings' = sizings
    PROVE  PlacesInv'
<1>1. AddNext /\ Beyond
  BY DEF Add, Beyond
<1>2. ~SetLength
  <2>1. sizings \in Nat
    BY DEF TypeInv, AddTypes, AddTypeOK
  <2> QED
    BY <2>1 DEF SetLength
<1>3. GetData \/ Copy \/ Wait \/ TopUp \/ SendList \/ Arrive
  BY <1>1, <1>2 DEF AddNext, AddStep
<1> QED
  BY <1>1, <1>3, GetDataPlaces, CopyPlaces, WaitPlaces, TopUpPlaces, SendListPlaces, ArrivePlaces

\* The receiver.
LEMMA ReceiverStill ==
    ASSUME TypeInv, PlacesInv, Senders, UNCHANGED <<units, m_pdu, idx, encap, delivered>>
    PROVE  PlacesInv'
<1>1. /\ units' = units /\ encap' = encap /\ delivered' = delivered /\ m_pdu' = m_pdu
      /\ idx' = idx
  OBVIOUS
<1>2. /\ sent' = sent /\ multi' = multi /\ frameSize' = frameSize /\ hurt' = hurt
      /\ \A s \in 1..10 : s \notin 1..4 => Places'[s] = Places[s]
  BY SendersStay
<1>3. AtHandInv' /\ EncapInv' /\ OutInv'
  BY <1>1, <1>2 DEF PlacesInv, ZonesInv, AtHandInv, EncapInv, OutInv
<1>4. \A s \in 1..10 : Places'[s] = Places[s]
  <2>1. /\ Places'[1] = Places[1] /\ Places'[2] = Places[2] /\ Places'[3] = Places[3]
        /\ Places'[4] = Places[4]
    BY <1>1, PlaceIs, PlaceIsNext DEF PartsHeld, Ahead
  <2>2. \A s \in 1..10 : s \in {1, 2, 3, 4} \/ s \notin 1..4
    OBVIOUS
  <2> QED
    BY <1>2, <2>1, <2>2
<1>5. InOrder(Places')
  BY <1>4, FewerInOrder DEF PlacesInv, OrderInv
<1>6. \A x \in InHand(Places) : x \in InHand(Places')
  <2>1. \A s \in 2..10 : s \in 1..10
    OBVIOUS
  <2> QED
    BY <1>4, <2>1, InHandIs
<1>7. Kept'
  BY <1>1, <1>2, <1>6, KeptStays DEF PlacesInv, SenderInv
<1> QED
  BY <1>1, <1>3, <1>5, <1>7, ReceiverStep

LEMMA RemovePlaces ==
    ASSUME TypeInv, PlacesInv, Remove
    PROVE  PlacesInv'
<1>1. R!Remove /\ Senders
  BY DEF Remove, Senders
<1>2. CASE R!Abort
  BY <1>1, <1>2, ReceiverStill DEF R!Abort
<1>3. CASE ~R!Abort
  <2>1. R!Take \/ R!Skip \/ R!PassFill \/ R!Start \/ R!Continue \/ R!LostEnd
    BY <1>1 DEF R!Remove
  <2> QED
    BY <1>1, <1>3, <2>1, TakePlaces, SkipPlaces, PassFillPlaces, StartPlaces, ContinuePlaces,
       LostEndPlaces
<1> QED
  BY <1>2, <1>3

LEMMA AddGets ==
    ASSUME TypeInv, PlacesInv, GetInv, AddNext
    PROVE  GetInv'
<1>1. CASE GetData
  BY <1>1 DEF GetData, GetInv
<1>2. CASE Copy
  <2>1. PICK g, set : CopyInto(g, set)
    BY <1>2 DEF Copy
  <2>2. CASE CopyOverflows
    BY <2>2 DEF CopyOverflows, GetInv
  <2>3. CASE ~CopyOverflows
    <3>1. phase' = phase \/ phase' \in {"copy", "send", "last"}
      BY <2>1, <2>3 DEF CopyInto
    <3>2. phase' # "get"
      BY <1>2, <3>1 DEF Copy
    <3> QED
      BY <3>2 DEF GetInv
  <2> QED
    BY <2>2, <2>3
<1>3. CASE Wait
  BY <1>3 DEF Wait, GetInv, PlacesInv, SenderInv, ListInv
<1>4. CASE TopUp
  BY <1>4 DEF TopUp, GetInv
<1>5. CASE SendList
  <2>1. mpdu = NoPdu
    BY <1>5 DEF SendList, PlacesInv, SenderInv, FillingInv
  <2>2. CASE mpdu_list = <<>>
    BY <1>5, <2>1, <2>2 DEF SendList, GetInv
  <2>3. CASE mpdu_list # <<>>
    BY <1>5, <2>3 DEF SendList, GetInv
  <2> QED
    BY <2>2, <2>3
<1>6. CASE Arrive
  <2>1. phase' = phase /\ mpdu_list' = mpdu_list /\ mpdu' = mpdu
    BY <1>6 DEF Arrive
  <2>2. msg_queue' # <<>>
    <3>1. PICK s \in Shapes :
            msg_queue' = Append(msg_queue, OctetsOf([id |-> Len(sent) + 1,
                           pvn |-> pvnEncapsulationPacket, hdr |-> s.hdr, len |-> s.len]))
      BY <1>6 DEF Arrive
    <3>2. PICK e : msg_queue' = Append(msg_queue, e)
      BY <3>1
    <3>3. msg_queue \in Seq(Seq(Octet))
      BY SenderTypes
    <3> HIDE <3>1
    <3>4. Len(Append(msg_queue, e)) = Len(msg_queue) + 1 /\ Len(msg_queue) \in Nat
      BY <3>3
    <3>5. Len(msg_queue') # 0
      BY <3>2, <3>4
    <3> QED
      BY <3>5
  <2> QED
    BY <2>1, <2>2 DEF GetInv
<1>7. CASE SetLength
  BY <1>7 DEF SetLength, GetInv
<1> QED
  BY <1>1, <1>2, <1>3, <1>4, <1>5, <1>6, <1>7 DEF AddNext, AddStep

LEMMA LinkStep ==
    ASSUME HeadersFit, TypeInv, LinkInv, [Next]_vars
    PROVE  LinkInv'
<1> SUFFICES ASSUME sizings' = 0 PROVE PlacesInv' /\ GetInv'
  BY DEF LinkInv
<1>0. sizings \in Nat
  BY DEF TypeInv, AddTypes, AddTypeOK
<1>1. CASE Add
  <2>1. AddNext
    BY <1>1 DEF Add
  <2>2. sizings' = sizings
    <3>1. GetData => sizings' = sizings
      BY DEF GetData
    <3>2. Copy => sizings' = sizings
      BY DEF Copy
    <3>3. Wait => sizings' = sizings
      BY DEF Wait
    <3>4. TopUp => sizings' = sizings
      BY DEF TopUp
    <3>5. SendList => sizings' = sizings
      BY DEF SendList
    <3>6. Arrive => sizings' = sizings
      BY DEF Arrive
    <3>7. SetLength => sizings' = sizings + 1
      BY DEF SetLength
    <3>8. ~SetLength
      BY <1>0, <3>7
    <3> QED
      BY <2>1, <3>1, <3>2, <3>3, <3>4, <3>5, <3>6, <3>8 DEF AddNext, AddStep
  <2>3. PlacesInv /\ GetInv
    BY <2>2 DEF LinkInv
  <2> QED
    BY <1>1, <2>1, <2>2, <2>3, AddPlaces, AddGets
<1>2. CASE SetFrameSize
  <2>1. sizings' = sizings + 1
    BY <1>2 DEF SetFrameSize
  <2> QED
    BY <1>0, <2>1
<1>3. ASSUME UNCHANGED addonly PROVE PlacesInv /\ GetInv /\ GetInv'
  <2>1. /\ sizings' = sizings /\ phase' = phase /\ mpdu_list' = mpdu_list /\ mpdu' = mpdu
        /\ msg_queue' = msg_queue
    BY <1>3 DEF addonly
  <2>2. PlacesInv /\ GetInv
    BY <2>1 DEF LinkInv
  <2> QED
    BY <2>1, <2>2 DEF GetInv
<1>4. CASE FrameUp
  BY <1>3, <1>4, FrameUpPlaces DEF FrameUp
<1>5. ASSUME UNCHANGED addvars PROVE PlacesInv /\ GetInv /\ GetInv'
  BY <1>3, <1>5 DEF addvars, addonly
<1>6. CASE Unframe
  BY <1>5, <1>6, UnframePlaces DEF Unframe
<1>7. CASE Remove
  BY <1>5, <1>7, RemovePlaces DEF Remove
<1>8. CASE Lose
  BY <1>5, <1>8, LosePlaces DEF Lose, Unhurt
<1>9. CASE Spoil
  BY <1>5, <1>9, SpoilPlaces DEF Spoil, Unhurt
<1>10. CASE InsertIdle
  BY <1>5, <1>10, InsertIdlePlaces DEF InsertIdle, Unhurt
<1>11. CASE UNCHANGED vars
  <2>1. UNCHANGED addvars /\ Senders /\ UNCHANGED <<units, m_pdu, idx, encap, delivered>>
    BY <1>11 DEF vars, Senders, removeonly
  <2> QED
    BY <1>5, <2>1, ReceiverStill
<1> QED
  BY <1>1, <1>2, <1>4, <1>6, <1>7, <1>8, <1>9, <1>10, <1>11 DEF Next

\* What is delivered is a packet, or put together of octets of packets that were hit.
LEMMA PlacesReassemble == TypeInv /\ PlacesInv => Reassembled
<1> SUFFICES ASSUME TypeInv, PlacesInv, NEW i \in DOMAIN delivered, NEW d, d = delivered[i]
             PROVE  /\ d[1].k = 0 /\ d[1].pkt.id > 0
                    /\ i > 1 => d[1].pkt.id > delivered[i - 1][1].pkt.id
                    /\ d = OctetsOf(d[1].pkt) \/ d[1].pkt.id \in hurt
                    /\ \A j \in 1..Len(d) - 1 :
                          \/ d[j + 1] = [d[j] EXCEPT !.k = @ + 1]
                          \/ {d[j].pkt.id, d[j + 1].pkt.id} \subseteq hurt
  BY DEF Reassembled
<1>1. i \in 1..Len(delivered)
  BY RemoverTypes
<1>2. /\ Begun(sent, d)
      /\ AllHurt(hurt, d) \/ d = OctetsOf(d[1].pkt)
      /\ i > 1 => delivered[i - 1][1].pkt.id < d[1].pkt.id
  BY <1>1 DEF PlacesInv, OutInv
<1>3. d \in Seq(Octet) /\ Len(d) \in Nat \ {0} /\ d[1].k = 0
  BY <1>2 DEF Begun
<1>4. 1 \in 1..Len(d) /\ \A j \in 1..Len(d) - 1 : j \in 1..Len(d) /\ j + 1 \in 1..Len(d)
  BY <1>3
<1>5. Own(sent, d[1]) /\ d[1].pkt.id \in Nat \ {0} /\ d[1].pkt \in Packet
  BY <1>2, <1>4, OwnParts, OctetParts DEF Begun
<1>6. i > 1 => d[1].pkt.id > delivered[i - 1][1].pkt.id
  <2> SUFFICES ASSUME i > 1 PROVE d[1].pkt.id > delivered[i - 1][1].pkt.id
    OBVIOUS
  <2>1. i - 1 \in 1..Len(delivered)
    BY <1>1, RemoverTypes
  <2>2. Begun(sent, delivered[i - 1])
    BY <2>1 DEF PlacesInv, OutInv
  <2>3. 1 \in 1..Len(delivered[i - 1])
    BY <2>2 DEF Begun
  <2>4. delivered[i - 1][1].pkt.id \in Nat
    BY <2>2, <2>3, OwnParts, OctetParts DEF Begun
  <2> QED
    BY <1>2, <1>5, <2>4
<1>7. CASE AllHurt(hurt, d)
  <2>1. \A j \in 1..Len(d) : d[j].pkt.id \in hurt
    BY <1>7 DEF AllHurt
  <2> QED
    BY <1>3, <1>4, <1>5, <1>6, <2>1
<1>8. CASE d = OctetsOf(d[1].pkt)
  <2>1. PICK p : p = d[1].pkt
    OBVIOUS
  <2>2. Len(d) = p.len /\ \A j \in 1..Len(d) : d[j] = [pkt |-> p, k |-> j - 1]
    <3>1. Len(d) = p.len
      BY <1>5, <1>8, <2>1, PacketsAreOctets
    <3> QED
      BY <1>8, <2>1, <3>1 DEF OctetsOf
  <2>3. ASSUME NEW j \in 1..Len(d) - 1 PROVE d[j + 1] = [d[j] EXCEPT !.k = @ + 1]
    <3>1. d[j] = [pkt |-> p, k |-> j - 1] /\ d[j + 1] = [pkt |-> p, k |-> (j + 1) - 1]
      BY <1>4, <2>2
    <3>2. (j + 1) - 1 = (j - 1) + 1
      OBVIOUS
    <3> QED
      BY <3>1, <3>2
  <2> QED
    BY <1>3, <1>5, <1>6, <1>8, <2>3
<1> QED
  BY <1>2, <1>7, <1>8

\* When all is quiet an octet is only with the parts of a packet whose end was lost.
LEMMA QuietPlaces ==
    ASSUME TypeInv, PlacesInv, GetInv, Quiet, NEW x \in InHand(Places)
    PROVE  encap # NoPacket /\ \E j \in 1..Len(encap) : x = encap[j]
<1>1. /\ msg_queue = <<>> /\ phase = "get" /\ mpdus = <<>> /\ wire = <<>> /\ units = <<>>
      /\ m_pdu = NoPdu /\ mpdu_list = <<>> /\ mpdu = NoPdu /\ netdata = <<>>
  BY DEF Quiet, GetInv, PlacesInv, SenderInv, UnitInv
<1>2. Len(<<>>) = 0
  OBVIOUS
<1>3. /\ Len(Datas(units)) = 0 /\ Len(Datas(mpdus)) = 0 /\ Len(Datas(mpdu_list)) = 0
      /\ Len(Datas(Pdus(wire))) = 0
  <2>1. <<>> \in Seq(Pdu) /\ <<>> \in Seq(TF)
    OBVIOUS
  <2>2. Len(Datas(<<>>)) = 0
    BY <1>2, <2>1, DatasIs
  <2>3. Len(Datas(Pdus(<<>>))) = 0
    BY <1>2, <2>1, WireDatas
  <2> QED
    BY <1>1, <2>2, <2>3
<1>4. /\ Places[3] = {} /\ Places[8] = {}
      /\ Places[4] = {} /\ Places[5] = {} /\ Places[6] = {} /\ Places[7] = {}
  BY <1>1, <1>3, PlaceIs, OfNone DEF Ahead, Filling
<1>5. Places[10] = {}
  BY <1>1, PlaceIs, OfEmpty
<1>6. Places[9] = {}
  <2>1. netdataIdx + 1 \in Nat \ {0}
    BY SenderTypes
  <2> QED
    BY <1>1, <2>1, PlaceIs, FromNothing
<1>7. x \in Places[2]
  <2>1. PICK s \in 2..10 : x \in Places[s]
    BY InHandIs
  <2>2. s \in {2, 3, 4, 5, 6, 7, 8, 9, 10}
    OBVIOUS
  <2> QED
    BY <1>4, <1>5, <1>6, <2>1, <2>2
<1>8. encap # NoPacket
  BY <1>7, PlaceIs DEF PartsHeld
<1> QED
  BY <1>7, <1>8, PartsAre

LEMMA QuietKept == TypeInv /\ LinkInv => NothingElseLost
<1> SUFFICES ASSUME TypeInv, LinkInv, Quiet, sizings = 0, NEW p \in 1..Len(sent)
             PROVE  p \in hurt \/ \E i \in DOMAIN delivered : delivered[i] = OctetsOf(sent[p])
  BY DEF NothingElseLost
<1>1. PlacesInv /\ GetInv
  BY DEF LinkInv
<1>2. KeptFor(sent, Places, delivered, hurt, p)
  BY <1>1 DEF PlacesInv, Kept
<1>3. sent[p].id = p /\ sent[p].len \in Nat \ {0} /\ delivered \in Seq(Seq(Octet))
  BY <1>1, PacketsSent, RemoverTypes DEF PlacesInv, SenderInv
<1>4. CASE \E i \in 1..Len(delivered) : delivered[i] = OctetsOf(sent[p])
  BY <1>3, <1>4
<1>5. CASE \A k \in 0..sent[p].len - 1 : [pkt |-> sent[p], k |-> k] \in InHand(Places)
  <2>1. ASSUME NEW k \in 0..sent[p].len - 1
        PROVE  encap # NoPacket /\ \E j \in 1..Len(encap) : [pkt |-> sent[p], k |-> k] = encap[j]
    BY <1>1, <1>5, QuietPlaces
  <2>2. 0 \in 0..sent[p].len - 1 /\ sent[p].len - 1 \in 0..sent[p].len - 1
    BY <1>3
  <2>3. encap # NoPacket
    BY <2>1, <2>2
  <2>4. PICK j \in 1..Len(encap) : [pkt |-> sent[p], k |-> sent[p].len - 1] = encap[j]
    BY <2>1, <2>2
  <2>5. encap[j].pkt = sent[p] /\ encap[j].k = sent[p].len - 1
    <3>1. /\ [pkt |-> sent[p], k |-> sent[p].len - 1].pkt = sent[p]
          /\ [pkt |-> sent[p], k |-> sent[p].len - 1].k = sent[p].len - 1
      OBVIOUS
    <3> QED
      BY <2>4, <3>1
  <2>6. CASE AllHurt(hurt, encap)
    BY <1>3, <2>5, <2>6 DEF AllHurt
  <2>7. CASE Prefix(encap) /\ Len(encap) < encap[1].pkt.len
    <3>1. encap[j] = [pkt |-> encap[1].pkt, k |-> j - 1]
      BY <2>7 DEF Prefix
    <3>2. encap[j].pkt = encap[1].pkt /\ encap[j].k = j - 1
      BY <3>1
    <3>3. j - 1 = sent[p].len - 1 /\ Len(encap) < sent[p].len /\ Len(encap) \in Nat
      BY <1>1, <2>3, <2>5, <2>7, <3>2, PartsAre
    <3> QED
      BY <1>3, <3>3
  <2> QED
    BY <1>1, <2>3, <2>6, <2>7 DEF PlacesInv, EncapInv
<1> QED
  BY <1>2, <1>4, <1>5 DEF KeptFor

LEMMA LinkKept ==
    ASSUME HeadersFit
    PROVE  Spec => [](TypeInv /\ LinkInv)
<1>1. Init => CountedInv /\ LinkInv
  BY InitCounted, InitPlaces DEF LinkInv
<1>2. CountedInv /\ LinkInv /\ [Next]_vars => (CountedInv /\ LinkInv)'
  BY CountedStep, LinkStep DEF CountedInv
<1>3. CountedInv => TypeInv
  BY DEF CountedInv
<1> QED
  BY <1>1, <1>2, <1>3, PTL DEF Spec

\* What comes out of the link is put together of what went in, in order: each unit starts as a
\* packet does, later than the last, and is that packet unless some of its octets were lost;
\* only octets of packets that were hit meet where they were not sent one after the other
\* (modAOS_M_PDU_Remove.cpp:159-233).
THEOREM PacketsReassembled == HeadersFit => (Spec => []Reassembled)
<1> SUFFICES ASSUME HeadersFit PROVE Spec => []Reassembled
  OBVIOUS
<1>1. TypeInv /\ LinkInv => Reassembled
  BY PlacesReassemble DEF LinkInv, Reassembled
<1> QED
  BY <1>1, LinkKept, PTL

\* When the link has fallen quiet every packet has come out that lost no octet, whatever was
\* spliced, skipped or given up before it (modAOS_M_PDU_Remove.cpp:118-243).
THEOREM OthersUnharmed == HeadersFit => (Spec => []NothingElseLost)
<1> SUFFICES ASSUME HeadersFit PROVE Spec => []NothingElseLost
  OBVIOUS
<1> QED
  BY QuietKept, LinkKept, PTL
=============================================================================
