-------------------------- MODULE TM_VC_LinkProofs --------------------------
(***************************************************************************)
(* Proofs about the packet service over a TM virtual channel, for every    *)
(* length of Data Field and of packet, every frame count modulus and any   *)
(* number of packets: first of modTM_VC_Gen_Packet alone, then of both     *)
(* ends and whatever the channel in between does to the frames.            *)
(***************************************************************************)
EXTENDS TM_VC_Link, TLAPS

-----------------------------------------------------------------------------
\* What is copied into frames.  A unit starts with the first octet of a packet; fill that
\* is not a packet starts one with each octet, and exactly fits the frame being filled.
StartsOnce(d) == Len(d) > 0 /\ \A i \in 1..Len(d) : d[i].k = 0 <=> i = 1
Fits(d) == /\ phase = "copy" /\ netdataIdx = 0
           /\ frame # NoFrame /\ Len(d) = DataFieldLen - Len(frame.data)
           /\ Len(d) > 0 /\ d[1].k = 0

\* A frame being filled: its First Header Pointer is settled exactly when a packet has
\* started in it.
Settled(d, h) == /\ h \in 0..Len(d) - 1
                 /\ d[h + 1].k = 0
                 /\ \A i \in 1..h : d[i].k # 0
Unsettled(d) == \A i \in 1..Len(d) : d[i].k # 0

\* What may leave.
Right(f) == /\ Len(f.data) = DataFieldLen
            /\ \/ f.fhp = NoPacketStart /\ Unsettled(f.data)
               \/ Settled(f.data, f.fhp)

InvTypes ==
    /\ msg_queue \in Seq(Seq(Octet)) /\ sent \in Seq(Packet)
    /\ netdata \in Seq(Octet) /\ netdataIdx \in Nat
    /\ frame \in Frame \cup {NoFrame}
    /\ firstHeaderIndexSet \in BOOLEAN
    /\ currentFrameNumber \in 0..MaxVCFrameCount
    /\ wire \in Seq(Frame)
    /\ phase \in {"get", "copy", "last"}
InvQueue == \A i \in 1..Len(msg_queue) : StartsOnce(msg_queue[i])
InvUnit  == phase = "copy" => /\ netdataIdx < Len(netdata)
                              /\ StartsOnce(netdata) \/ Fits(netdata)
InvFrame == /\ frame # NoFrame => /\ Len(frame.data) \in 1..DataFieldLen - 1
                                  /\ IF firstHeaderIndexSet THEN Settled(frame.data, frame.fhp)
                                                             ELSE Unsettled(frame.data)
                                  /\ netdataIdx = 0
            /\ phase = "last" => frame # NoFrame
InvWire  == \A i \in 1..Len(wire) : wire[i].fhp # OnlyIdleData => Right(wire[i])

Inv == InvTypes /\ InvQueue /\ InvUnit /\ InvFrame /\ InvWire

-----------------------------------------------------------------------------
LEMMA Concat ==
    ASSUME NEW S, NEW a \in Seq(S), NEW c \in Seq(S)
    PROVE  /\ a \o c \in Seq(S) /\ Len(a \o c) = Len(a) + Len(c)
           /\ \A j \in 1..Len(a) : (a \o c)[j] = a[j]
           /\ \A j \in 1..Len(c) : (a \o c)[Len(a) + j] = c[j]
<1>1. a \o c \in Seq(S)
  BY SMT
<1>2. Len(a \o c) = Len(a) + Len(c)
  BY SMT
<1>3. \A j \in 1..Len(a) : (a \o c)[j] = a[j]
  BY SMT
<1>4. \A j \in 1..Len(c) : (a \o c)[Len(a) + j] = c[j]
  BY SMT
<1> QED
  BY <1>1, <1>2, <1>3, <1>4

LEMMA Part ==
    ASSUME NEW S, NEW b \in Seq(S), NEW i \in Nat, NEW n \in Nat, i + n <= Len(b)
    PROVE  /\ SubSeq(b, i + 1, i + n) \in Seq(S) /\ Len(SubSeq(b, i + 1, i + n)) = n
           /\ \A j \in 1..n : SubSeq(b, i + 1, i + n)[j] = b[i + j]
  BY SMT

LEMMA ConcatPart ==
    ASSUME NEW S, NEW a \in Seq(S), NEW b \in Seq(S), NEW i \in Nat, NEW n \in Nat,
           i + n <= Len(b), NEW e, e = a \o SubSeq(b, i + 1, i + n)
    PROVE  /\ e \in Seq(S) /\ Len(e) = Len(a) + n
           /\ \A j \in 1..Len(a) : e[j] = a[j]
           /\ \A j \in 1..n : e[Len(a) + j] = b[i + j]
<1>1. PICK c : c = SubSeq(b, i + 1, i + n)
  OBVIOUS
<1>2. c \in Seq(S) /\ Len(c) = n /\ \A j \in 1..n : c[j] = b[i + j]
  BY <1>1, Part
<1>3. /\ a \o c \in Seq(S) /\ Len(a \o c) = Len(a) + Len(c)
      /\ \A j \in 1..Len(a) : (a \o c)[j] = a[j]
      /\ \A j \in 1..Len(c) : (a \o c)[Len(a) + j] = c[j]
  <2>1. c \in Seq(S)
    BY <1>2
  <2> QED
    BY ONLY a \in Seq(S), <2>1, Concat
<1>4. e = a \o c
  BY <1>1
<1> QED
  BY ONLY <1>2, <1>3, <1>4

LEMMA FunctionIsSeq ==
    ASSUME NEW S, NEW n \in Nat, NEW f \in [1..n -> S]
    PROVE  f \in Seq(S) /\ Len(f) = n
  BY SMT

LEMMA LesserOfTwo ==
    ASSUME NEW a \in Nat \ {0}, NEW b \in Nat \ {0}
    PROVE  /\ Lesser(a, b) \in Nat \ {0}
           /\ Lesser(a, b) <= a /\ Lesser(a, b) <= b
           /\ Lesser(a, b) # b => Lesser(a, b) = a
           /\ a <= b => Lesser(a, b) = a
  BY DEF Lesser

\* A packet's octets start one packet, and fill starts one with each of its octets.
LEMMA OctetsOfStarts ==
    ASSUME NEW p \in Packet
    PROVE  OctetsOf(p) \in Seq(Octet) /\ StartsOnce(OctetsOf(p)) /\ Len(OctetsOf(p)) = p.len
<1>1. p.len \in Nat \ {0}
  BY DEF Packet
<1>2. \A i \in 1..p.len : [pkt |-> p, k |-> i - 1] \in Octet
  BY <1>1 DEF Octet
<1>3. OctetsOf(p) \in [1..p.len -> Octet]
  BY <1>2 DEF OctetsOf
<1>4. OctetsOf(p) \in Seq(Octet) /\ Len(OctetsOf(p)) = p.len
  BY <1>1, <1>3, FunctionIsSeq
<1>5. \A i \in 1..p.len : OctetsOf(p)[i].k = i - 1
  BY DEF OctetsOf
<1>6. \A i \in 1..p.len : OctetsOf(p)[i].k = 0 <=> i = 1
  BY <1>1, <1>5
<1> QED
  BY <1>1, <1>4, <1>6 DEF StartsOnce

LEMMA RawFillStarts ==
    ASSUME NEW n \in Nat \ {0}
    PROVE  /\ RawFill(n) \in Seq(Octet) /\ Len(RawFill(n)) = n
           /\ RawFill(n)[1].k = 0
<1>1. [pkt |-> FillPacket, k |-> 0] \in Octet
  BY DEF FillPacket, Octet, Packet, PVNs, pvnEncapsulationPacket
<1>2. RawFill(n) \in [1..n -> Octet]
  BY <1>1 DEF RawFill
<1>3. RawFill(n)[1].k = 0
  BY DEF RawFill
<1> QED
  BY <1>2, <1>3, FunctionIsSeq

-----------------------------------------------------------------------------
\* e is d with the n octets of nd behind the first i appended.
Joins(d, nd, i, n, e) ==
    /\ e \in Seq(Octet) /\ Len(e) = Len(d) + n
    /\ \A j \in 1..Len(d) : e[j] = d[j]
    /\ \A j \in 1..n : e[Len(d) + j] = nd[i + j]

LEMMA JoinParts ==
    ASSUME NEW d \in Seq(Octet), NEW nd \in Seq(Octet), NEW i \in Nat, NEW n \in Nat,
           i + n <= Len(nd), NEW e, e = d \o SubSeq(nd, i + 1, i + n)
    PROVE  Joins(d, nd, i, n, e)
  BY ConcatPart DEF Joins

\* The rest of a packet, in a frame of its own, starts nothing.
LEMMA RestUnsettled ==
    ASSUME NEW d \in Seq(Octet), NEW nd \in Seq(Octet), NEW i \in Nat \ {0}, NEW n \in Nat,
           NEW e, i + n <= Len(nd), Joins(d, nd, i, n, e), Len(d) = 0, StartsOnce(nd)
    PROVE  Unsettled(e)
<1> SUFFICES ASSUME NEW j \in 1..Len(e) PROVE e[j].k # 0
  BY DEF Unsettled
<1>1. j \in 1..n /\ e[j] = nd[i + j]
  BY DEF Joins
<1>2. i + j \in 1..Len(nd) /\ i + j # 1
  BY <1>1
<1> QED
  BY <1>1, <1>2 DEF StartsOnce

\* The first start of a packet goes right behind what is there.
LEMMA FirstSettles ==
    ASSUME NEW d \in Seq(Octet), NEW nd \in Seq(Octet), NEW n \in Nat \ {0}, NEW e,
           Joins(d, nd, 0, n, e), Unsettled(d), nd[1].k = 0
    PROVE  Settled(e, Len(d))
<1>1. Len(d) \in Nat /\ Len(e) = Len(d) + n /\ 1 \in 1..n
  BY DEF Joins
<1>2. e[Len(d) + 1] = nd[0 + 1]
  BY <1>1 DEF Joins
<1>3. \A j \in 1..Len(d) : e[j].k # 0
  BY DEF Joins, Unsettled
<1> QED
  BY <1>1, <1>2, <1>3 DEF Settled

\* Later starts leave the first where it is.
LEMMA NextKeeps ==
    ASSUME NEW d \in Seq(Octet), NEW nd \in Seq(Octet), NEW n \in Nat, NEW e, NEW h,
           Joins(d, nd, 0, n, e), Settled(d, h)
    PROVE  Settled(e, h)
<1>1. Len(d) \in Nat /\ Len(e) = Len(d) + n /\ h \in 0..Len(d) - 1
  BY DEF Joins, Settled
<1>2. e[h + 1] = d[h + 1] /\ \A j \in 1..h : e[j] = d[j]
  BY <1>1 DEF Joins
<1> QED
  BY <1>1, <1>2 DEF Settled

-----------------------------------------------------------------------------
\* The outcome of copying n octets of nd, from position i on, into f, when g is the frame
\* after it: g is right if it is full.
Outcome(f, nd, i, n, g) ==
    /\ g \in Frame /\ g.num = f.num
    /\ Joins(f.data, nd, i, n, g.data)
    /\ Len(g.data) \in 1..DataFieldLen
    /\ Len(g.data) = DataFieldLen => Right(g)

LEMMA NewFields ==
    ASSUME NEW f \in Frame, NEW e \in Seq(Octet), NEW h \in Pointer, NEW g,
           g = [num |-> f.num, fhp |-> h, data |-> e, ok |-> f.ok]
    PROVE  g \in Frame /\ g.num = f.num /\ g.fhp = h /\ g.data = e
  BY DEF Frame

\* The three ways of copying.
LEMMA OutcomeRest ==
    ASSUME FrameAssumption,
           NEW f \in Frame, NEW nd \in Seq(Octet), NEW i \in Nat \ {0}, NEW n \in Nat \ {0},
           NEW g \in Frame, g.num = f.num, Joins(f.data, nd, i, n, g.data),
           i + n <= Len(nd), n <= DataFieldLen, Len(f.data) = 0, StartsOnce(nd),
           n = DataFieldLen => g.fhp = NoPacketStart
    PROVE  Outcome(f, nd, i, n, g) /\ Unsettled(g.data)
<1>1. f.data \in Seq(Octet) /\ g.data \in Seq(Octet)
  BY DEF Frame
<1>2. Unsettled(g.data)
  BY <1>1, RestUnsettled
<1>3. Len(g.data) = n
  BY <1>1 DEF Joins
<1> QED
  BY <1>2, <1>3 DEF Outcome, Right, FrameAssumption

LEMMA OutcomeFirst ==
    ASSUME FrameAssumption,
           NEW f \in Frame, NEW nd \in Seq(Octet), NEW i \in Nat, i = 0, NEW n \in Nat \ {0},
           NEW g \in Frame, g.num = f.num, Joins(f.data, nd, i, n, g.data),
           Len(f.data) + n <= DataFieldLen, Unsettled(f.data), nd[1].k = 0,
           g.fhp = Len(f.data)
    PROVE  Outcome(f, nd, i, n, g) /\ Settled(g.data, g.fhp)
<1>1. f.data \in Seq(Octet) /\ g.data \in Seq(Octet)
  BY DEF Frame
<1>2. Settled(g.data, g.fhp)
  BY <1>1, FirstSettles
<1>3. Len(g.data) = Len(f.data) + n /\ Len(f.data) \in Nat
  BY <1>1 DEF Joins
<1> QED
  BY <1>2, <1>3 DEF Outcome, Right, FrameAssumption

LEMMA OutcomeNext ==
    ASSUME FrameAssumption,
           NEW f \in Frame, NEW nd \in Seq(Octet), NEW i \in Nat, i = 0, NEW n \in Nat \ {0},
           NEW g \in Frame, g.num = f.num, Joins(f.data, nd, i, n, g.data),
           Len(f.data) + n <= DataFieldLen, Settled(f.data, f.fhp), g.fhp = f.fhp
    PROVE  Outcome(f, nd, i, n, g) /\ Settled(g.data, g.fhp)
<1>1. f.data \in Seq(Octet) /\ g.data \in Seq(Octet)
  BY DEF Frame
<1>2. Settled(g.data, g.fhp)
  BY <1>1, NextKeeps
<1>3. Len(g.data) = Len(f.data) + n /\ Len(f.data) \in Nat
  BY <1>1 DEF Joins
<1> QED
  BY <1>2, <1>3 DEF Outcome, Right, FrameAssumption

-----------------------------------------------------------------------------
\* n octets of nd from position i on can go into f, and fill it or end the unit.
Taken(f, nd, i, n) ==
    /\ n \in Nat \ {0} /\ i + n <= Len(nd) /\ Len(f.data) + n <= DataFieldLen
    /\ Len(f.data) + n # DataFieldLen => i + n = Len(nd)

LEMMA LenInPointer ==
    ASSUME FrameAssumption, NEW r \in Nat, r < DataFieldLen
    PROVE  r \in Pointer
  BY DEF FrameAssumption, Pointer

LEMMA CopyTaken ==
    ASSUME FrameAssumption, NEW f \in Frame, NEW nd \in Seq(Octet), NEW i \in Nat,
           i < Len(nd), Len(f.data) < DataFieldLen
    PROVE  Taken(f, nd, i, CopyLen(f, nd, i)) /\ CopyLen(f, nd, i) \in Nat \ {0}
<1> DEFINE n == CopyLen(f, nd, i)
<1>1. /\ Len(nd) \in Nat /\ Len(f.data) \in Nat /\ DataFieldLen \in Nat
  BY DEF Frame, FrameAssumption
<1>2. n = Lesser(Len(nd) - i, DataFieldLen - Len(f.data))
  BY DEF CopyLen
<1> HIDE DEF n
<1>3. /\ n \in Nat \ {0} /\ i + n <= Len(nd) /\ Len(f.data) + n <= DataFieldLen
      /\ Len(f.data) + n # DataFieldLen => i + n = Len(nd)
  <2> DEFINE a == Len(nd) - i
             b == DataFieldLen - Len(f.data)
  <2>1. a \in Nat \ {0} /\ b \in Nat \ {0}
    BY <1>1
  <2>2. n \in Nat \ {0} /\ n <= a /\ n <= b /\ (n # b => n = a)
    BY <1>2, <2>1, LesserOfTwo
  <2> QED
    BY <1>1, <2>2
<1>4. Taken(f, nd, i, n)
  BY <1>3 DEF Taken
<1> QED
  BY <1>3, <1>4 DEF n

-----------------------------------------------------------------------------
LEMMA InitInv == GenInit => Inv
<1> SUFFICES ASSUME GenInit PROVE Inv
  OBVIOUS
<1> USE DEF GenInit
<1>1. InvTypes
  <2>1. currentFrameNumber \in 0..MaxVCFrameCount
    BY FrameAssumption DEF FrameAssumption
  <2>2. /\ msg_queue \in Seq(Seq(Octet)) /\ sent \in Seq(Packet)
        /\ netdata \in Seq(Octet) /\ wire \in Seq(Frame)
    OBVIOUS
  <2>3. /\ netdataIdx \in Nat /\ frame \in Frame \cup {NoFrame}
        /\ firstHeaderIndexSet \in BOOLEAN /\ phase \in {"get", "copy", "last"}
    OBVIOUS
  <2> QED
    BY <2>1, <2>2, <2>3 DEF InvTypes
<1>2. InvQueue /\ InvUnit /\ InvFrame /\ InvWire
  BY DEF InvQueue, InvUnit, InvFrame, InvWire
<1> QED
  BY <1>1, <1>2 DEF Inv

\* A frame sent, or dropped for want of an output.
LEMMA SendKeeps ==
    ASSUME Inv, NEW g \in Frame, Right(g), Send(g)
    PROVE  /\ wire' \in Seq(Frame) /\ InvWire'
           /\ currentFrameNumber' \in 0..MaxVCFrameCount
<1>1. /\ wire \in Seq(Frame) /\ currentFrameNumber \in 0..MaxVCFrameCount
      /\ \A i \in 1..Len(wire) : wire[i].fhp # OnlyIdleData => Right(wire[i])
  BY DEF Inv, InvTypes, InvWire
<1>2. currentFrameNumber' \in 0..MaxVCFrameCount
  BY <1>1, FrameAssumption DEF Send, IncFrameNumber, FrameAssumption
<1>3. CASE wire' = wire
  BY <1>1, <1>2, <1>3 DEF InvWire
<1>4. CASE wire' = Append(wire, g)
  <2>1. /\ wire' \in Seq(Frame) /\ Len(wire') = Len(wire) + 1
        /\ \A i \in 1..Len(wire) : wire'[i] = wire[i]
        /\ wire'[Len(wire) + 1] = g
    BY <1>1, <1>4
  <2>2. \A i \in 1..Len(wire') : wire'[i].fhp # OnlyIdleData => Right(wire'[i])
    BY <1>1, <2>1
  <2> QED
    BY <1>2, <2>1, <2>2 DEF InvWire
<1> QED
  BY <1>3, <1>4 DEF Send

\* One pass of the copying loop, whatever frame it is about.
LEMMA CopyKeeps ==
    ASSUME Inv, phase = "copy", NEW f \in Frame, NEW n, NEW g, NEW next,
           Taken(f, netdata, netdataIdx, n),
           Outcome(f, netdata, netdataIdx, n, g),
           StartsOnce(netdata) \/ (netdataIdx = 0 /\ Len(netdata) = DataFieldLen - Len(f.data)),
           \/ firstHeaderIndexSet' = TRUE /\ Settled(g.data, g.fhp)
           \/ firstHeaderIndexSet' = FALSE /\ Unsettled(g.data),
           next = netdataIdx + n,
           IF Len(g.data) = DataFieldLen THEN Send(g)
                                         ELSE UNCHANGED <<wire, currentFrameNumber>>,
           frame' = IF Len(g.data) = DataFieldLen THEN NoFrame ELSE g,
           netdata' = IF next = Len(netdata) THEN <<>> ELSE netdata,
           netdataIdx' = IF next = Len(netdata) THEN 0 ELSE next,
           phase' = IF next # Len(netdata) THEN "copy"
                    ELSE IF Len(g.data) = DataFieldLen THEN "get" ELSE "last",
           UNCHANGED <<msg_queue, sent>>
    PROVE  Inv'
<1>1. /\ g \in Frame /\ Len(g.data) \in 1..DataFieldLen
      /\ Len(g.data) = DataFieldLen => Right(g)
  BY DEF Outcome
<1>2. /\ msg_queue \in Seq(Seq(Octet)) /\ sent \in Seq(Packet) /\ netdata \in Seq(Octet)
      /\ netdataIdx \in Nat /\ wire \in Seq(Frame) /\ Len(netdata) \in Nat
      /\ currentFrameNumber \in 0..MaxVCFrameCount
  BY DEF Inv, InvTypes
<1>3. /\ n \in Nat \ {0} /\ next \in Nat \ {0} /\ next <= Len(netdata)
      /\ Len(f.data) \in Nat /\ DataFieldLen \in Nat
  BY <1>2, FrameAssumption DEF Taken, Frame, FrameAssumption
<1>4. Len(g.data) = Len(f.data) + n
  BY DEF Outcome, Joins
<1>5. Len(g.data) # DataFieldLen => next = Len(netdata)
  BY <1>4 DEF Taken
<1>6. Len(g.data) = DataFieldLen /\ next # Len(netdata) => StartsOnce(netdata)
  BY <1>2, <1>3, <1>4
<1>7. /\ wire' \in Seq(Frame) /\ InvWire'
      /\ currentFrameNumber' \in 0..MaxVCFrameCount
  <2>1. CASE Len(g.data) = DataFieldLen
    BY <1>1, <2>1, SendKeeps
  <2>2. CASE Len(g.data) # DataFieldLen
    BY <1>2, <2>2 DEF Inv, InvWire
  <2> QED
    BY <2>1, <2>2
<1>8. InvTypes'
  <2>1. netdata' \in Seq(Octet) /\ netdataIdx' \in Nat
    BY <1>2, <1>3
  <2>2. frame' \in Frame \cup {NoFrame}
    BY <1>1
  <2>3. phase' \in {"get", "copy", "last"}
    OBVIOUS
  <2>4. firstHeaderIndexSet' \in BOOLEAN
    OBVIOUS
  <2> QED
    BY <1>2, <1>7, <2>1, <2>2, <2>3, <2>4 DEF InvTypes
<1>9. InvQueue'
  BY DEF Inv, InvQueue
<1>10. InvUnit'
  <2> SUFFICES ASSUME phase' = "copy" PROVE netdataIdx' < Len(netdata') /\ StartsOnce(netdata')
    BY DEF InvUnit
  <2>1. next # Len(netdata)
    OBVIOUS
  <2>2. netdata' = netdata /\ netdataIdx' = next
    BY <2>1
  <2>3. StartsOnce(netdata)
    BY <1>5, <1>6, <2>1
  <2> QED
    BY <1>2, <1>3, <2>1, <2>2, <2>3
<1>11. InvFrame'
  <2>1. CASE Len(g.data) = DataFieldLen
    BY <2>1 DEF InvFrame
  <2>2. CASE Len(g.data) # DataFieldLen
    <3>1. frame' = g /\ netdataIdx' = 0
      BY <1>5, <2>2
    <3>2. g # NoFrame
      BY <1>1, GenAssumption DEF GenAssumption
    <3>3. Len(g.data) \in 1..DataFieldLen - 1
      BY <1>1, <1>3, <2>2
    <3> QED
      BY <3>1, <3>2, <3>3 DEF InvFrame
  <2> QED
    BY <2>1, <2>2
<1> QED
  BY <1>7, <1>8, <1>9, <1>10, <1>11 DEF Inv

LEMMA NewFrameEmpty ==
    ASSUME FrameAssumption, NEW c \in 0..MaxVCFrameCount
    PROVE  /\ NewFrame(c) \in Frame /\ NewFrame(c).data = <<>>
           /\ Len(NewFrame(c).data) = 0 /\ Len(NewFrame(c).data) < DataFieldLen
           /\ Unsettled(NewFrame(c).data)
  BY DEF NewFrame, Frame, Pointer, FrameAssumption, Unsettled

\* What CopyInto does, with g for the frame after the copy and n octets taken.
Passed(f, n, g) ==
    /\ IF Len(g.data) = DataFieldLen THEN Send(g)
                                     ELSE UNCHANGED <<wire, currentFrameNumber>>
    /\ frame' = IF Len(g.data) = DataFieldLen THEN NoFrame ELSE g
    /\ netdata' = IF netdataIdx + n = Len(netdata) THEN <<>> ELSE netdata
    /\ netdataIdx' = IF netdataIdx + n = Len(netdata) THEN 0 ELSE netdataIdx + n
    /\ phase' = IF netdataIdx + n # Len(netdata) THEN "copy"
                ELSE IF Len(g.data) = DataFieldLen THEN "get" ELSE "last"
    /\ UNCHANGED <<msg_queue, sent>>

\* The frame g after n octets of the unit went into f, its First Header Pointer now h.
Made(f, n, h, e, g) ==
    /\ n = CopyLen(f, netdata, netdataIdx)
    /\ e = f.data \o SubSeq(netdata, netdataIdx + 1, netdataIdx + n)
    /\ g = [num |-> f.num, fhp |-> h, data |-> e, ok |-> f.ok]

\* Into a frame in which no packet has started.
LEMMA CopyIntoUnset ==
    ASSUME NEW f \in Frame, UNCHANGED <<msg_queue, sent>>, CopyInto(f, FALSE)
    PROVE  \E n, h, e, g :
              /\ Made(f, n, h, e, g) /\ Passed(f, n, g)
              /\ h = HeaderPointer(f, netdata, netdataIdx, FALSE)
              /\ firstHeaderIndexSet' = (netdataIdx = 0)
  BY DEF CopyInto, Copied, HeaderSet, Passed, Made

\* Into a frame in which one has.
LEMMA CopyIntoSet ==
    ASSUME NEW f \in Frame, UNCHANGED <<msg_queue, sent>>, CopyInto(f, TRUE)
    PROVE  \E n, h, e, g :
              /\ Made(f, n, h, e, g) /\ Passed(f, n, g)
              /\ h = HeaderPointer(f, netdata, netdataIdx, TRUE)
              /\ firstHeaderIndexSet' = TRUE
  BY DEF CopyInto, Copied, HeaderSet, Passed, Made

\* What the copy can rely on: there is room, octets are left, and the unit starts with a
\* packet and has no other, unless it is fill of just the right length.
Ready(f) ==
    /\ f \in Frame /\ netdata \in Seq(Octet) /\ netdataIdx \in Nat
    /\ netdataIdx < Len(netdata) /\ Len(f.data) < DataFieldLen /\ netdata[1].k = 0
    /\ StartsOnce(netdata) \/ (netdataIdx = 0 /\ Len(netdata) = DataFieldLen - Len(f.data))
    /\ netdataIdx # 0 => Len(f.data) = 0

\* One pass of the loop, and all there is to know of it.
Pass(f, n, g) ==
    /\ Ready(f) /\ Passed(f, n, g)
    /\ Taken(f, netdata, netdataIdx, n) /\ Outcome(f, netdata, netdataIdx, n, g)
    /\ \/ firstHeaderIndexSet' = TRUE /\ Settled(g.data, g.fhp)
       \/ firstHeaderIndexSet' = FALSE /\ Unsettled(g.data)

LEMMA PassedKeeps ==
    ASSUME Inv, phase = "copy", NEW f, NEW n, NEW g, Pass(f, n, g)
    PROVE  Inv'
<1>1. PICK next : next = netdataIdx + n
  OBVIOUS
<1> QED
  BY <1>1, CopyKeeps DEF Pass, Passed, Ready

LEMMA MadeFrame ==
    ASSUME NEW f, Ready(f), NEW n, NEW h \in Pointer, NEW e, NEW g, Made(f, n, h, e, g)
    PROVE  /\ Taken(f, netdata, netdataIdx, n) /\ n \in Nat \ {0}
           /\ g \in Frame /\ g.num = f.num /\ g.fhp = h
           /\ Joins(f.data, netdata, netdataIdx, n, g.data)
<1>1. /\ f \in Frame /\ netdata \in Seq(Octet) /\ netdataIdx \in Nat
      /\ netdataIdx < Len(netdata) /\ Len(f.data) < DataFieldLen
      /\ f.data \in Seq(Octet)
  BY DEF Ready, Frame
<1>2. n = CopyLen(f, netdata, netdataIdx)
  BY DEF Made
<1>3. e = f.data \o SubSeq(netdata, netdataIdx + 1, netdataIdx + n)
  BY DEF Made
<1>4. g = [num |-> f.num, fhp |-> h, data |-> e, ok |-> f.ok]
  BY DEF Made
<1>5. Taken(f, netdata, netdataIdx, n) /\ n \in Nat \ {0}
  BY ONLY <1>1, <1>2, FrameAssumption, CopyTaken
<1>6. n \in Nat /\ netdataIdx + n <= Len(netdata)
  BY <1>5 DEF Taken
<1>7. Joins(f.data, netdata, netdataIdx, n, e)
  BY ONLY <1>1, <1>3, <1>6, JoinParts
<1>8. e \in Seq(Octet)
  BY ONLY <1>7 DEF Joins
<1>9. g \in Frame /\ g.num = f.num /\ g.fhp = h /\ g.data = e
  BY ONLY <1>1, <1>4, <1>8, h \in Pointer, NewFields
<1> QED
  BY <1>5, <1>7, <1>9

LEMMA CopyUnset ==
    ASSUME Inv, phase = "copy", UNCHANGED <<msg_queue, sent>>,
           NEW f, Ready(f), Unsettled(f.data), CopyInto(f, FALSE)
    PROVE  \E n, g : Pass(f, n, g)
<1>1. /\ f \in Frame /\ netdata \in Seq(Octet) /\ netdataIdx \in Nat
      /\ netdataIdx < Len(netdata) /\ Len(f.data) < DataFieldLen /\ netdata[1].k = 0
      /\ Len(f.data) \in Nat /\ f.fhp \in Pointer
  BY DEF Ready, Frame
<1>2. PICK n, h, e, g :
         /\ Made(f, n, h, e, g) /\ Passed(f, n, g)
         /\ h = HeaderPointer(f, netdata, netdataIdx, FALSE)
         /\ firstHeaderIndexSet' = (netdataIdx = 0)
  BY <1>1, CopyIntoUnset
<1>3. n = CopyLen(f, netdata, netdataIdx) /\ Made(f, n, h, e, g)
  BY <1>2 DEF Made
<1>4. CASE netdataIdx = 0
  <2>1. h = Len(f.data)
    BY <1>2, <1>4 DEF HeaderPointer
  <2>2. h \in Pointer
    BY <1>1, <2>1, LenInPointer, FrameAssumption
  <2>3. /\ Taken(f, netdata, netdataIdx, n) /\ n \in Nat \ {0}
        /\ g \in Frame /\ g.num = f.num /\ g.fhp = h
        /\ Joins(f.data, netdata, netdataIdx, n, g.data)
    BY ONLY Ready(f), <1>3, <2>2, MadeFrame
  <2>4. Outcome(f, netdata, netdataIdx, n, g) /\ Settled(g.data, g.fhp)
    BY ONLY <1>1, <1>4, <2>1, <2>3, Unsettled(f.data), FrameAssumption, OutcomeFirst DEF Taken
  <2>5. firstHeaderIndexSet' = TRUE
    BY <1>2, <1>4
  <2> QED
    BY ONLY Ready(f), <1>2, <2>3, <2>4, <2>5 DEF Pass
<1>5. CASE netdataIdx # 0
  <2>1. StartsOnce(netdata) /\ Len(f.data) = 0 /\ netdataIdx \in Nat \ {0}
    BY <1>1, <1>5 DEF Ready
  <2>2. h = IF n = DataFieldLen THEN NoPacketStart ELSE f.fhp
    BY <1>2, <1>3, <2>1 DEF HeaderPointer
  <2>3. h \in Pointer /\ (n = DataFieldLen => h = NoPacketStart)
    BY <1>1, <2>2 DEF NoPacketStart, Pointer
  <2>4. /\ Taken(f, netdata, netdataIdx, n) /\ n \in Nat \ {0}
        /\ g \in Frame /\ g.num = f.num /\ g.fhp = h
        /\ Joins(f.data, netdata, netdataIdx, n, g.data)
    BY ONLY Ready(f), <1>3, <2>3, MadeFrame
  <2>5. netdataIdx + n <= Len(netdata) /\ n <= DataFieldLen
    BY <2>1, <2>4, FrameAssumption DEF Taken, FrameAssumption
  <2>6. Outcome(f, netdata, netdataIdx, n, g) /\ Unsettled(g.data)
    BY ONLY <1>1, <2>1, <2>3, <2>4, <2>5, FrameAssumption, OutcomeRest
  <2>7. firstHeaderIndexSet' = FALSE
    BY <1>2, <1>5
  <2> QED
    BY ONLY Ready(f), <1>2, <2>4, <2>6, <2>7 DEF Pass
<1> QED
  BY <1>4, <1>5

LEMMA CopySet ==
    ASSUME Inv, phase = "copy", UNCHANGED <<msg_queue, sent>>,
           NEW f, Ready(f), Settled(f.data, f.fhp), netdataIdx = 0, CopyInto(f, TRUE)
    PROVE  \E n, g : Pass(f, n, g)
<1>1. /\ f \in Frame /\ netdata \in Seq(Octet) /\ netdataIdx \in Nat
      /\ netdataIdx < Len(netdata) /\ Len(f.data) < DataFieldLen /\ f.fhp \in Pointer
  BY DEF Ready, Frame
<1>2. PICK n, h, e, g :
         /\ Made(f, n, h, e, g) /\ Passed(f, n, g)
         /\ h = HeaderPointer(f, netdata, netdataIdx, TRUE)
         /\ firstHeaderIndexSet' = TRUE
  BY <1>1, CopyIntoSet
<1>3. n = CopyLen(f, netdata, netdataIdx) /\ Made(f, n, h, e, g)
  BY <1>2 DEF Made
<1>4. h = f.fhp /\ h \in Pointer
  BY <1>1, <1>2 DEF HeaderPointer
<1>5. /\ Taken(f, netdata, netdataIdx, n) /\ n \in Nat \ {0}
      /\ g \in Frame /\ g.num = f.num /\ g.fhp = h
      /\ Joins(f.data, netdata, netdataIdx, n, g.data)
  BY <1>2, <1>4, MadeFrame
<1>6. Outcome(f, netdata, netdataIdx, n, g) /\ Settled(g.data, g.fhp)
  BY ONLY <1>1, <1>4, <1>5, netdataIdx = 0, Settled(f.data, f.fhp), FrameAssumption,
          OutcomeNext DEF Taken
<1> QED
  BY ONLY Ready(f), <1>2, <1>5, <1>6 DEF Pass

\* The frame copied into: the one at hand, or a new one.
AtHand(f) == f = IF frame = NoFrame THEN NewFrame(currentFrameNumber) ELSE frame

LEMMA CopyPasses ==
    ASSUME Inv, Copy
    PROVE  phase = "copy" /\ \E f, n, g : AtHand(f) /\ Pass(f, n, g)
<1>1. /\ phase = "copy" /\ UNCHANGED <<msg_queue, sent>>
      /\ IF frame = NoFrame THEN CopyInto(NewFrame(currentFrameNumber), FALSE)
                            ELSE CopyInto(frame, firstHeaderIndexSet)
  BY DEF Copy
<1>2. /\ netdata \in Seq(Octet) /\ netdataIdx \in Nat /\ netdataIdx < Len(netdata)
      /\ currentFrameNumber \in 0..MaxVCFrameCount
      /\ frame \in Frame \cup {NoFrame} /\ firstHeaderIndexSet \in BOOLEAN
      /\ StartsOnce(netdata) \/ Fits(netdata)
  BY <1>1 DEF Inv, InvTypes, InvUnit
<1>3. netdata[1].k = 0
  BY <1>2 DEF StartsOnce, Fits
<1>4. CASE frame = NoFrame
  <2>1. StartsOnce(netdata)
    BY <1>2, <1>4 DEF Fits
  <2>2. PICK f : f = NewFrame(currentFrameNumber)
    OBVIOUS
  <2>3. f \in Frame /\ Len(f.data) = 0 /\ Len(f.data) < DataFieldLen /\ Unsettled(f.data)
    BY <1>2, <2>2, NewFrameEmpty, FrameAssumption
  <2>4. Ready(f)
    BY <1>2, <1>3, <2>1, <2>3 DEF Ready
  <2> QED
    BY <1>1, <1>4, <2>2, <2>3, <2>4, CopyUnset DEF AtHand
<1>5. CASE frame # NoFrame
  <2>1. /\ frame \in Frame /\ Len(frame.data) \in 1..DataFieldLen - 1 /\ netdataIdx = 0
        /\ IF firstHeaderIndexSet THEN Settled(frame.data, frame.fhp)
                                  ELSE Unsettled(frame.data)
    BY <1>2, <1>5 DEF Inv, InvFrame
  <2>2. CopyInto(frame, firstHeaderIndexSet)
    BY <1>1, <1>5
  <2>3. /\ Len(frame.data) < DataFieldLen
        /\ StartsOnce(netdata) \/ Len(netdata) = DataFieldLen - Len(frame.data)
    <3>1. DataFieldLen \in Nat
      BY FrameAssumption DEF FrameAssumption
    <3> QED
      BY <1>2, <2>1, <3>1 DEF Fits
  <2>4. Ready(frame)
    BY <1>2, <1>3, <2>1, <2>3 DEF Ready
  <2>5. CASE firstHeaderIndexSet = FALSE
    BY <1>1, <1>5, <2>1, <2>2, <2>4, <2>5, CopyUnset DEF AtHand
  <2>6. CASE firstHeaderIndexSet = TRUE
    BY <1>1, <1>5, <2>1, <2>2, <2>4, <2>6, CopySet DEF AtHand
  <2> QED
    BY <1>2, <2>5, <2>6
<1> QED
  BY <1>1, <1>4, <1>5

LEMMA CopyInv == Inv /\ Copy => Inv'
  BY CopyPasses, PassedKeeps

-----------------------------------------------------------------------------
LEMMA ArriveInv == Inv /\ Arrive => Inv'
<1> SUFFICES ASSUME Inv, NEW s \in Shapes, Len(sent) < MaxPackets,
                    sent' = Append(sent, Numbered(s)),
                    msg_queue' = Append(msg_queue, OctetsOf(Numbered(s))),
                    UNCHANGED <<phase, netdata, netdataIdx, frame, firstHeaderIndexSet,
                                currentFrameNumber, wire>>
             PROVE  Inv'
  BY DEF Arrive
<1>1. msg_queue \in Seq(Seq(Octet)) /\ sent \in Seq(Packet)
  BY DEF Inv, InvTypes
<1>2. Numbered(s) \in Packet
  <2>1. s \in AnyShape
    BY GenAssumption DEF GenAssumption
  <2> QED
    BY <1>1, <2>1 DEF Numbered, AnyShape, Packet
<1>3. OctetsOf(Numbered(s)) \in Seq(Octet) /\ StartsOnce(OctetsOf(Numbered(s)))
  BY <1>2, OctetsOfStarts
<1>4. InvTypes'
  BY <1>1, <1>2, <1>3 DEF Inv, InvTypes
<1>5. InvQueue'
  <2>1. /\ Len(msg_queue') = Len(msg_queue) + 1
        /\ \A i \in 1..Len(msg_queue) : msg_queue'[i] = msg_queue[i]
        /\ msg_queue'[Len(msg_queue) + 1] = OctetsOf(Numbered(s))
    BY <1>1, <1>3
  <2>2. \A i \in 1..Len(msg_queue) : StartsOnce(msg_queue[i])
    BY DEF Inv, InvQueue
  <2>3. \A i \in 1..Len(msg_queue') : StartsOnce(msg_queue'[i])
    BY <1>1, <1>3, <2>1, <2>2
  <2> QED
    BY <2>3 DEF InvQueue
<1>6. InvUnit' /\ InvFrame' /\ InvWire'
  BY DEF Inv, InvUnit, InvFrame, InvWire, Fits
<1> QED
  BY <1>4, <1>5, <1>6 DEF Inv

LEMMA GetDataInv == Inv /\ GetData => Inv'
<1> SUFFICES ASSUME Inv, GetData PROVE Inv'
  OBVIOUS
<1> USE DEF GetData
<1>1. /\ msg_queue \in Seq(Seq(Octet)) /\ msg_queue # <<>>
      /\ \A i \in 1..Len(msg_queue) : StartsOnce(msg_queue[i])
  BY DEF Inv, InvTypes, InvQueue
<1>2. /\ Head(msg_queue) \in Seq(Octet) /\ StartsOnce(Head(msg_queue))
      /\ Tail(msg_queue) \in Seq(Seq(Octet))
  BY <1>1
<1>3. InvTypes'
  BY <1>2 DEF Inv, InvTypes
<1>4. InvQueue'
  BY <1>1 DEF InvQueue
<1>5. InvUnit'
  BY <1>2 DEF InvUnit, StartsOnce
<1>6. InvFrame' /\ InvWire'
  BY DEF Inv, InvFrame, InvWire
<1> QED
  BY <1>3, <1>4, <1>5, <1>6 DEF Inv

LEMMA IdleStarts ==
    ASSUME NEW n \in Nat \ {0}
    PROVE  IdlePacket(n) \in Seq(Octet) /\ StartsOnce(IdlePacket(n))
  BY OctetsOfStarts DEF IdlePacket, Packet, PVNs, pvnSpacePacket

\* The fill either is one packet, or fills the frame to its end.
LEMMA FillStarts ==
    ASSUME NEW n \in Nat \ {0}, DataFieldLen \in Nat
    PROVE  /\ Fill(n) \in Seq(Octet) /\ Len(Fill(n)) > 0
           /\ StartsOnce(Fill(n)) \/ (Len(Fill(n)) = n /\ Fill(n)[1].k = 0)
<1>1. CASE DataFieldLen < 14
  BY <1>1, RawFillStarts DEF Fill
<1>2. CASE ~(DataFieldLen < 14)
  <2>1. PICK m \in Nat \ {0} : Fill(n) = IdlePacket(m)
    BY <1>2 DEF Fill
  <2> QED
    BY <2>1, IdleStarts DEF StartsOnce
<1> QED
  BY <1>1, <1>2

LEMMA TopUpInv == Inv /\ TopUp => Inv'
<1> SUFFICES ASSUME Inv, TopUp PROVE Inv'
  OBVIOUS
<1>1. /\ phase = "last" /\ phase' = "copy" /\ netdataIdx' = 0
      /\ netdata' = Fill(DataFieldLen - Len(frame.data))
      /\ UNCHANGED <<msg_queue, sent, frame, firstHeaderIndexSet, currentFrameNumber, wire>>
  BY DEF TopUp
<1>2. /\ frame # NoFrame /\ Len(frame.data) \in 1..DataFieldLen - 1
      /\ DataFieldLen \in Nat
  BY <1>1, FrameAssumption DEF Inv, InvFrame, FrameAssumption
<1>3. DataFieldLen - Len(frame.data) \in Nat \ {0}
  BY <1>2
<1>4. /\ netdata' \in Seq(Octet) /\ Len(netdata') > 0
      /\ \/ StartsOnce(netdata')
         \/ Len(netdata') = DataFieldLen - Len(frame.data) /\ netdata'[1].k = 0
  BY <1>1, <1>2, <1>3, FillStarts
<1>5. InvTypes'
  BY <1>1, <1>4 DEF Inv, InvTypes
<1>6. InvQueue' /\ InvWire'
  BY <1>1 DEF Inv, InvQueue, InvWire
<1>7. InvUnit'
  BY <1>1, <1>2, <1>4 DEF InvUnit, Fits
<1>8. InvFrame'
  BY <1>1 DEF Inv, InvFrame
<1> QED
  BY <1>5, <1>6, <1>7, <1>8 DEF Inv

LEMMA WaitInv == Inv /\ Wait => Inv'
  BY DEF Inv, InvTypes, InvQueue, InvUnit, InvFrame, InvWire, Wait

LEMMA IdleInv == Inv /\ (SetLink \/ UNCHANGED genvars) => Inv'
  BY DEF Inv, InvTypes, InvQueue, InvUnit, InvFrame, InvWire, Fits, SetLink, genvars

LEMMA RightPoints ==
    ASSUME NEW f, f.data \in Seq(Octet), Right(f)
    PROVE  Len(f.data) = DataFieldLen /\ PointsAtFirstStart(f)
<1>1. Len(f.data) = DataFieldLen /\ DataFieldLen \in 1..2045
  BY FrameAssumption DEF Right, FrameAssumption
<1>2. CASE f.fhp = NoPacketStart /\ Unsettled(f.data)
  BY <1>1, <1>2 DEF PointsAtFirstStart, Unsettled
<1>3. CASE Settled(f.data, f.fhp)
  <2>1. f.fhp \in 0..Len(f.data) - 1
    BY <1>3 DEF Settled
  <2>2. f.fhp + 1 \in DOMAIN f.data
    BY <2>1
  <2>3. f.fhp # NoPacketStart
    <3>1. f.fhp \in Nat /\ f.fhp < 2045
      <4>1. f.fhp \in 0..DataFieldLen - 1
        BY <1>1, <2>1
      <4>2. DataFieldLen \in Nat /\ DataFieldLen <= 2045
        BY <1>1
      <4> QED
        BY ONLY <4>1, <4>2
    <3> QED
      BY ONLY <3>1 DEF NoPacketStart
  <2> QED
    BY <1>1, <1>3, <2>2, <2>3 DEF PointsAtFirstStart, Settled
<1>4. (f.fhp = NoPacketStart /\ Unsettled(f.data)) \/ Settled(f.data, f.fhp)
  BY DEF Right
<1> QED
  BY <1>1, <1>2, <1>3, <1>4

\* Every frame sent is full, and its First Header Pointer points at the first packet that
\* starts in it, or says that none does (modTM_VC_Gen_Packet::_processData).
THEOREM HeadersRight == GenSpec => []HeaderPointerRight
<1>1. GenInit => Inv
  BY InitInv
<1>2. Inv /\ [GenNext]_genvars => Inv'
  BY ArriveInv, GetDataInv, CopyInv, WaitInv, TopUpInv, IdleInv DEF GenNext, GenStep
<1>3. Inv => HeaderPointerRight
  <2> SUFFICES ASSUME Inv, NEW i \in DOMAIN wire, wire[i].fhp # OnlyIdleData
               PROVE  Len(wire[i].data) = DataFieldLen /\ PointsAtFirstStart(wire[i])
    BY DEF HeaderPointerRight
  <2>1. wire \in Seq(Frame) /\ i \in 1..Len(wire)
    BY DEF Inv, InvTypes
  <2>2. Right(wire[i]) /\ wire[i] \in Frame
    BY <2>1 DEF Inv, InvWire
  <2>3. wire[i].data \in Seq(Octet)
    BY <2>2 DEF Frame
  <2> QED
    BY <2>2, <2>3, RightPoints
<1> QED
  BY <1>1, <1>2, <1>3, PTL DEF GenSpec

-----------------------------------------------------------------------------
\* The frame at hand goes on the wire with the count it was given, and the next begins
\* with the one after it.
LEMMA SendCounts ==
    ASSUME wire \in Seq(Frame), CountsSequential, NEW g,
           g.num = currentFrameNumber, Send(g), frame' = NoFrame
    PROVE  CountsSequential'
<1>1. CASE linked
  <2>1. /\ wire' = Append(wire, g)
        /\ currentFrameNumber' = IncFrameNumber(currentFrameNumber)
    BY <1>1 DEF Send
  <2>2. /\ Len(wire) \in Nat /\ Len(wire') = Len(wire) + 1
        /\ \A i \in 1..Len(wire) : wire'[i] = wire[i]
        /\ wire'[Len(wire) + 1] = g
    BY <2>1
  <2>3. ASSUME NEW i \in 1..Len(wire') - 1
        PROVE  wire'[i + 1].num = IncFrameNumber(wire'[i].num)
    <3>1. CASE i = Len(wire)
      <4>1. wire # <<>>
        BY <2>2, <3>1
      <4>2. currentFrameNumber = IncFrameNumber(wire[Len(wire)].num)
        BY <4>1 DEF CountsSequential
      <4> QED
        BY <2>2, <3>1, <4>2
    <3>2. CASE i # Len(wire)
      <4>1. i \in 1..Len(wire) - 1
        BY <2>2, <3>2
      <4>2. wire'[i] = wire[i] /\ wire'[i + 1] = wire[i + 1]
        BY <2>2, <4>1
      <4>3. wire[i + 1].num = IncFrameNumber(wire[i].num)
        BY <4>1 DEF CountsSequential
      <4> QED
        BY <4>2, <4>3
    <3> QED
      BY <3>1, <3>2
  <2>4. currentFrameNumber' = IncFrameNumber(wire'[Len(wire')].num)
    BY <2>1, <2>2
  <2> QED
    BY <2>3, <2>4 DEF CountsSequential
<1>2. CASE ~linked
  BY <1>2 DEF Send, CountsSequential
<1> QED
  BY <1>1, <1>2

LEMMA CopyIntoCounts ==
    ASSUME Inv, CountsSequential, NEW f, NEW set, f.num = currentFrameNumber,
           CopyInto(f, set), InvTypes'
    PROVE  CountsSequential'
<1> DEFINE g == Copied(f, netdata, netdataIdx, set)
<1>1. g.num = currentFrameNumber
  BY DEF Copied
<1> HIDE DEF g
<1>2. /\ IF Len(g.data) = DataFieldLen THEN Send(g) ELSE UNCHANGED <<wire, currentFrameNumber>>
      /\ frame' = IF Len(g.data) = DataFieldLen THEN NoFrame ELSE g
  BY DEF CopyInto, g
<1>3. CASE Len(g.data) = DataFieldLen
  <2>1. wire \in Seq(Frame)
    BY DEF Inv, InvTypes
  <2> QED
    BY <1>1, <1>2, <1>3, <2>1, SendCounts
<1>4. CASE Len(g.data) # DataFieldLen
  BY <1>1, <1>2, <1>4 DEF CountsSequential
<1> QED
  BY <1>3, <1>4

\* The frame counts on the wire are sequential, however long a frame waited to be filled
\* and whatever was dropped for want of an output (modTM_VC_Gen_Packet::_send and
\* incCurrentFrameNumber).
THEOREM FramesCounted == GenSpec => []CountsSequential
<1>1. GenInit => Inv /\ CountsSequential
  <2>1. GenInit => CountsSequential
    BY DEF GenInit, CountsSequential
  <2> QED
    BY <2>1, InitInv
<1>2. Inv /\ CountsSequential /\ [GenNext]_genvars => Inv' /\ CountsSequential'
  <2> SUFFICES ASSUME Inv, CountsSequential, [GenNext]_genvars
               PROVE  Inv' /\ CountsSequential'
    OBVIOUS
  <2>1. Inv'
    BY ArriveInv, GetDataInv, CopyInv, WaitInv, TopUpInv, IdleInv DEF GenNext, GenStep
  <2>2. CASE Copy
    <3>1. IF frame = NoFrame THEN CopyInto(NewFrame(currentFrameNumber), FALSE)
                             ELSE CopyInto(frame, firstHeaderIndexSet)
      BY <2>2 DEF Copy
    <3>2. NewFrame(currentFrameNumber).num = currentFrameNumber
      BY DEF NewFrame
    <3>3. frame # NoFrame => frame.num = currentFrameNumber
      BY DEF CountsSequential
    <3> QED
      BY <2>1, <3>1, <3>2, <3>3, CopyIntoCounts DEF Inv
  <2>3. CASE Arrive \/ GetData \/ Wait \/ TopUp \/ SetLink \/ UNCHANGED genvars
    <3>1. UNCHANGED <<wire, frame, currentFrameNumber>>
      BY <2>3 DEF Arrive, GetData, Wait, TopUp, SetLink, genvars
    <3> QED
      BY <2>1, <3>1 DEF CountsSequential
  <2> QED
    BY <2>2, <2>3 DEF GenNext, GenStep
<1> QED
  BY <1>1, <1>2, PTL DEF GenSpec

-----------------------------------------------------------------------------
(* Whose octets a Data Field holds, and in which order.                    *)

Shape(p) == [pvn |-> p.pvn, hdr |-> p.hdr, len |-> p.len]

\* Fill, and the idle packets that frames of this length are topped up with.
Filler(p) == \/ p = FillPacket
             \/ p.pvn = pvnSpacePacket /\ p.hdr = 6 /\ p.len \in Nat /\ 7 <= p.len
                /\ p.len <= DataFieldLen

\* An octet of fill, or of one of the packets s.
Own(s, o) ==
    /\ o.k < o.pkt.len
    /\ IF o.pkt.id = 0 THEN Filler(o.pkt)
       ELSE o.pkt.id \in 1..Len(s) /\ s[o.pkt.id] = o.pkt /\ Shape(o.pkt) \in Shapes

\* From position i on, d goes on where the octet o left off, and then starts a packet.
GoesOn(o, d, i) == \A j \in i..Len(d) :
    /\ o.k + 1 + j - i < o.pkt.len => d[j] = [pkt |-> o.pkt, k |-> o.k + 1 + j - i]
    /\ o.k + 1 + j - i = o.pkt.len => d[j].k = 0
Runs(d) == \A i \in 1..Len(d) : GoesOn(d[i], d, i + 1)

\* Every packet in d ends in it.
Closed(d) == \A i \in 1..Len(d) : d[i].pkt.len - d[i].k - 1 <= Len(d) - i

Good(s, d) == d \in Seq(Octet) /\ Runs(d) /\ \A i \in 1..Len(d) : Own(s, d[i])
Unit(s, d) == Good(s, d) /\ Closed(d)

LEMMA OctetFields ==
    ASSUME NEW o \in Octet
    PROVE  /\ o.k \in Nat /\ o.pkt \in Packet /\ o.pkt.id \in Nat /\ o.pkt.len \in Nat \ {0}
           /\ o.pkt.hdr \in Nat \ {0} /\ o.pkt.pvn \in PVNs
  BY DEF Octet, Packet

LEMMA OctetsIn ==
    ASSUME NEW d \in Seq(Octet), NEW i \in 1..Len(d)
    PROVE  d[i] \in Octet /\ d[i].k \in Nat /\ d[i].pkt.id \in Nat /\ d[i].pkt.len \in Nat \ {0}
           /\ Len(d) \in Nat
<1>1. d[i] \in Octet /\ Len(d) \in Nat
  OBVIOUS
<1> QED
  BY <1>1, OctetFields

\* What is known of a packet of each kind.
Formed(p) ==
    /\ p.hdr <= p.len
    /\ p.pvn = pvnSpacePacket => p.hdr = 6
    /\ p.pvn = pvnEncapsulationPacket /\ p.hdr = 1 => p.len = 1

LEMMA OwnFormed ==
    ASSUME NEW s, NEW o \in Octet, Own(s, o)
    PROVE  Formed(o.pkt) /\ o.k < o.pkt.len
<1>1. o.k < o.pkt.len /\ (Filler(o.pkt) \/ Shape(o.pkt) \in Shapes)
  BY DEF Own
<1>2. CASE o.pkt = FillPacket
  BY <1>1, <1>2 DEF FillPacket, Formed, pvnSpacePacket, pvnEncapsulationPacket
<1>3. CASE o.pkt.pvn = pvnSpacePacket /\ o.pkt.hdr = 6 /\ o.pkt.len \in Nat /\ 7 <= o.pkt.len
  BY <1>1, <1>3 DEF Formed, pvnSpacePacket, pvnEncapsulationPacket
<1>4. CASE Shape(o.pkt) \in Shapes
  <2>1. PICK t \in Shapes : t = Shape(o.pkt)
    BY <1>4
  <2>2. t.hdr = o.pkt.hdr /\ t.len = o.pkt.len /\ t.pvn = o.pkt.pvn
    BY <2>1 DEF Shape
  <2> QED
    <3>1. /\ t.hdr <= t.len
          /\ t.pvn = pvnSpacePacket => t.hdr = 6
          /\ t.pvn = pvnEncapsulationPacket /\ t.hdr = 1 => t.len = 1
      BY FormatAssumption DEF FormatAssumption
    <3> QED
      BY <1>1, <2>2, <3>1 DEF Formed
<1> QED
  BY <1>1, <1>2, <1>3, <1>4 DEF Filler

LEMMA OwnGrows ==
    ASSUME NEW s \in Seq(Packet), NEW p \in Packet, NEW o, Own(s, o)
    PROVE  Own(Append(s, p), o)
<1>1. /\ Len(s) \in Nat /\ Len(Append(s, p)) = Len(s) + 1
      /\ \A i \in 1..Len(s) : Append(s, p)[i] = s[i]
  OBVIOUS
<1> QED
  BY <1>1 DEF Own

LEMMA GoodGrows ==
    ASSUME NEW s \in Seq(Packet), NEW p \in Packet, NEW d, Good(s, d)
    PROVE  Good(Append(s, p), d)
  BY OwnGrows DEF Good

\* A packet's own octets, and fill, are units.
LEMMA PacketUnit ==
    ASSUME NEW s, NEW p \in Packet,
           IF p.id = 0 THEN Filler(p)
           ELSE p.id \in 1..Len(s) /\ s[p.id] = p /\ Shape(p) \in Shapes
    PROVE  Unit(s, OctetsOf(p))
<1> DEFINE d == OctetsOf(p)
<1>1. p.len \in Nat \ {0} /\ d \in Seq(Octet) /\ Len(d) = p.len
  BY OctetsOfStarts DEF Packet
<1>2. /\ \A i \in 1..Len(d) : d[i] = [pkt |-> p, k |-> i - 1]
      /\ \A i \in 1..Len(d) : d[i].pkt = p /\ d[i].k = i - 1
  BY <1>1 DEF OctetsOf
<1> HIDE DEF d
<1>3. \A i \in 1..Len(d) : d[i].pkt = p /\ d[i].k = i - 1 /\ d[i].k < p.len
  <2> SUFFICES ASSUME NEW i \in 1..Len(d)
               PROVE  d[i].pkt = p /\ d[i].k = i - 1 /\ d[i].k < p.len
    OBVIOUS
  <2>1. d[i].pkt = p /\ d[i].k = i - 1
    BY <1>2
  <2>2. i - 1 < p.len
    BY <1>1
  <2> QED
    BY <2>1, <2>2
<1>7. \A i \in 1..Len(d) : Own(s, d[i])
  BY <1>3 DEF Own
<1>4. Runs(d)
  <2> SUFFICES ASSUME NEW i \in 1..Len(d), NEW j \in i + 1..Len(d)
               PROVE  /\ d[i].k + 1 + j - (i + 1) < d[i].pkt.len
                            => d[j] = [pkt |-> d[i].pkt, k |-> d[i].k + 1 + j - (i + 1)]
                      /\ d[i].k + 1 + j - (i + 1) = d[i].pkt.len => d[j].k = 0
    BY DEF Runs, GoesOn
  <2>0. i \in Nat /\ j \in Nat /\ j \in 1..Len(d)
    BY <1>1
  <2>1. d[i].k = i - 1 /\ d[i].pkt = p /\ d[j] = [pkt |-> p, k |-> j - 1]
    BY <1>2, <1>3, <2>0
  <2>2. d[i].k + 1 + j - (i + 1) = j - 1
    BY <2>0, <2>1
  <2>3. ~(j - 1 = p.len)
    BY <1>1, <2>0
  <2> QED
    BY <2>1, <2>2, <2>3
<1>5. Closed(d)
  BY <1>1, <1>3 DEF Closed
<1> QED
  BY <1>1, <1>7, <1>4, <1>5 DEF Unit, Good, d

LEMMA RawFillUnit ==
    ASSUME NEW s, NEW n \in Nat \ {0}
    PROVE  Unit(s, RawFill(n))
<1> DEFINE d == RawFill(n)
<1>1. d \in Seq(Octet) /\ Len(d) = n
  BY RawFillStarts
<1>2. \A i \in 1..Len(d) : d[i].pkt = FillPacket /\ d[i].k = 0
  BY <1>1 DEF RawFill
<1> HIDE DEF d
<1>3. FillPacket.id = 0 /\ FillPacket.len = 1
  BY DEF FillPacket
<1>4. \A i \in 1..Len(d) : Own(s, d[i])
  BY <1>2, <1>3 DEF Own, Filler
<1>5. Runs(d)
  BY <1>1, <1>2, <1>3 DEF Runs, GoesOn
<1>6. Closed(d)
  BY <1>1, <1>2, <1>3 DEF Closed
<1> QED
  BY <1>1, <1>4, <1>5, <1>6 DEF Unit, Good, d

LEMMA FillUnit ==
    ASSUME NEW s, FrameAssumption, NEW n \in 1..DataFieldLen
    PROVE  Unit(s, Fill(n))
<1>1. DataFieldLen \in Nat /\ n \in Nat \ {0}
  BY DEF FrameAssumption
<1>2. CASE DataFieldLen < 14
  BY <1>1, <1>2, RawFillUnit DEF Fill
<1>3. CASE ~(DataFieldLen < 14)
  <2>1. PICK m \in Nat \ {0} : Fill(n) = IdlePacket(m) /\ 7 <= m /\ m <= DataFieldLen
    BY <1>1, <1>3 DEF Fill
  <2> DEFINE p == [id |-> 0, pvn |-> pvnSpacePacket, hdr |-> 6, len |-> m]
  <2>3. p \in Packet /\ Filler(p) /\ p.id = 0 /\ Fill(n) = OctetsOf(p)
    BY <2>1 DEF Packet, PVNs, pvnSpacePacket, Filler, IdlePacket
  <2> QED
    BY <2>3, PacketUnit
<1> QED
  BY <1>2, <1>3

-----------------------------------------------------------------------------
\* Copying: the rest of a unit into an empty frame, or a whole unit, or as much of it as
\* there is room for, behind units that are complete.
Laid(d, nd, i) == IF Len(d) = 0 THEN TRUE ELSE i = 0 /\ nd[1].k = 0 /\ Closed(d)

\* Where octets of e come from.
LEMMA JoinedAt ==
    ASSUME NEW d \in Seq(Octet), NEW nd \in Seq(Octet), NEW i \in Nat, NEW n \in Nat,
           NEW e, i + n <= Len(nd), Joins(d, nd, i, n, e), NEW a \in 1..Len(e)
    PROVE  \/ a \in 1..Len(d) /\ e[a] = d[a]
           \/ /\ a > Len(d) /\ i + a - Len(d) \in 1..Len(nd)
              /\ e[a] = nd[i + a - Len(d)]
<1>1. Len(d) \in Nat /\ Len(nd) \in Nat /\ Len(e) = Len(d) + n
  BY DEF Joins
<1>2. CASE a <= Len(d)
  BY <1>1, <1>2 DEF Joins
<1>3. CASE a > Len(d)
  <2>1. a - Len(d) \in 1..n
    BY <1>1, <1>3
  <2>2. e[Len(d) + (a - Len(d))] = nd[i + (a - Len(d))]
    BY <2>1 DEF Joins
  <2>3. Len(d) + (a - Len(d)) = a /\ i + (a - Len(d)) = i + a - Len(d)
    BY <1>1
  <2> QED
    BY <1>1, <1>3, <2>1, <2>2, <2>3
<1> QED
  BY <1>1, <1>2, <1>3

LEMMA JoinedOwn ==
    ASSUME NEW s, NEW d \in Seq(Octet), NEW nd \in Seq(Octet), NEW i \in Nat, NEW n \in Nat,
           NEW e, i + n <= Len(nd), Joins(d, nd, i, n, e),
           \A a \in 1..Len(d) : Own(s, d[a]), \A a \in 1..Len(nd) : Own(s, nd[a])
    PROVE  \A a \in 1..Len(e) : Own(s, e[a])
  BY JoinedAt

\* A run of octets in the unit is one in what is laid.
LEMMA JoinedRuns ==
    ASSUME NEW s, NEW d, NEW nd, NEW i \in Nat, NEW n \in Nat \ {0}, NEW e,
           Good(s, d), Good(s, nd), i + n <= Len(nd), Joins(d, nd, i, n, e), Laid(d, nd, i)
    PROVE  Runs(e)
<1>1. /\ d \in Seq(Octet) /\ nd \in Seq(Octet) /\ Runs(d) /\ Runs(nd)
      /\ e \in Seq(Octet) /\ Len(d) \in Nat /\ Len(nd) \in Nat /\ Len(e) = Len(d) + n
  BY DEF Good, Joins
<1> SUFFICES ASSUME NEW a \in 1..Len(e), NEW j \in a + 1..Len(e)
             PROVE  /\ e[a].k + 1 + j - (a + 1) < e[a].pkt.len
                          => e[j] = [pkt |-> e[a].pkt, k |-> e[a].k + 1 + j - (a + 1)]
                    /\ e[a].k + 1 + j - (a + 1) = e[a].pkt.len => e[j].k = 0
  BY DEF Runs, GoesOn
<1>2. j \in 1..Len(e) /\ a \in Nat /\ j \in Nat /\ a < j
  BY <1>1
<1>3. /\ e[a].k \in Nat /\ e[a].pkt.len \in Nat
  BY <1>1, OctetsIn
<1>7. \A b \in 1..Len(e) : \/ b \in 1..Len(d) /\ e[b] = d[b]
                           \/ /\ b > Len(d) /\ i + b - Len(d) \in 1..Len(nd)
                              /\ e[b] = nd[i + b - Len(d)]
  <2>1. /\ d \in Seq(Octet) /\ nd \in Seq(Octet) /\ i \in Nat /\ n \in Nat
        /\ i + n <= Len(nd) /\ Joins(d, nd, i, n, e)
    BY <1>1
  <2> QED
    BY ONLY <2>1, JoinedAt
<1>8. Len(d) \in Nat
  BY <1>1
<1>4. CASE a > Len(d)
  <2> DEFINE x == i + a - Len(d)
             y == i + j - Len(d)
  <2>1. x \in 1..Len(nd) /\ e[a] = nd[x]
    BY <1>1, <1>2, <1>4, <1>7
  <2>2. y \in 1..Len(nd) /\ e[j] = nd[y]
    BY <1>1, <1>2, <1>4, <1>7
  <2>3. y \in x + 1..Len(nd) /\ y - (x + 1) = j - (a + 1)
    BY <1>1, <1>2, <2>1, <2>2
  <2> HIDE DEF x, y
  <2>4. /\ nd[x].k + 1 + y - (x + 1) < nd[x].pkt.len
                => nd[y] = [pkt |-> nd[x].pkt, k |-> nd[x].k + 1 + y - (x + 1)]
        /\ nd[x].k + 1 + y - (x + 1) = nd[x].pkt.len => nd[y].k = 0
    BY <1>1, <2>1, <2>3 DEF Runs, GoesOn
  <2>5. nd[x].k + 1 + y - (x + 1) = nd[x].k + 1 + j - (a + 1)
    BY <1>2, <1>3, <2>1, <2>2, <2>3
  <2> QED
    BY ONLY <2>1, <2>2, <2>4, <2>5
<1>5. CASE a <= Len(d) /\ j <= Len(d)
  <2>1. a \in 1..Len(d) /\ j \in a + 1..Len(d) /\ j \in 1..Len(d)
    BY <1>1, <1>2, <1>5
  <2>2. e[a] = d[a] /\ e[j] = d[j]
    BY <2>1 DEF Joins
  <2> QED
    BY <1>1, <2>1, <2>2 DEF Runs, GoesOn
<1>6. CASE a <= Len(d) /\ j > Len(d)
  <2>1. a \in 1..Len(d) /\ e[a] = d[a] /\ i = 0 /\ nd[1].k = 0 /\ Closed(d)
    BY <1>1, <1>2, <1>6 DEF Joins, Laid
  <2>2. e[a].pkt.len - e[a].k - 1 <= Len(d) - a
    BY <2>1 DEF Closed
  <2> DEFINE k == e[a].k
             m == e[a].pkt.len
             l == Len(d)
  <2>5. /\ k \in Nat /\ m \in Nat /\ l \in Nat /\ a \in Nat /\ j \in Nat
        /\ m - k - 1 <= l - a /\ j > l
    BY <1>2, <1>3, <1>6, <1>8, <2>2
  <2> HIDE DEF k, m, l
  <2>6. ~(k + 1 + j - (a + 1) < m) /\ (k + 1 + j - (a + 1) = m => j = l + 1)
    BY ONLY <2>5
  <2>3. ~(e[a].k + 1 + j - (a + 1) < e[a].pkt.len)
    BY <2>6 DEF k, m
  <2>4. ASSUME e[a].k + 1 + j - (a + 1) = e[a].pkt.len PROVE e[j].k = 0
    <3>1. j = Len(d) + 1
      BY <2>4, <2>6 DEF k, m, l
    <3>2. e[Len(d) + 1] = nd[i + 1]
      BY <1>1 DEF Joins
    <3> QED
      BY <2>1, <3>1, <3>2
  <2> QED
    BY <2>3, <2>4
<1> QED
  BY <1>1, <1>2, <1>4, <1>5, <1>6

LEMMA JoinedClosed ==
    ASSUME NEW d \in Seq(Octet), NEW nd \in Seq(Octet), NEW i \in Nat, NEW n \in Nat, NEW e,
           i + n = Len(nd), Joins(d, nd, i, n, e), Closed(d), Closed(nd)
    PROVE  Closed(e)
<1>1. Len(d) \in Nat /\ Len(nd) \in Nat /\ Len(e) = Len(d) + n /\ e \in Seq(Octet)
  BY DEF Joins
<1> SUFFICES ASSUME NEW a \in 1..Len(e)
             PROVE  e[a].pkt.len - e[a].k - 1 <= Len(e) - a
  BY DEF Closed
<1>2. e[a].k \in Nat /\ e[a].pkt.len \in Nat
  BY <1>1, OctetsIn
<1>3. CASE a \in 1..Len(d) /\ e[a] = d[a]
  <2>1. d[a].pkt.len - d[a].k - 1 <= Len(d) - a
    BY <1>3 DEF Closed
  <2> QED
    BY <1>1, <1>2, <1>3, <2>1
<1>4. CASE i + a - Len(d) \in 1..Len(nd) /\ e[a] = nd[i + a - Len(d)]
  <2> DEFINE x == i + a - Len(d)
  <2>1. nd[x].pkt.len - nd[x].k - 1 <= Len(nd) - x
    BY <1>4 DEF Closed
  <2>3. /\ Len(d) \in Nat /\ Len(nd) \in Nat /\ Len(e) \in Nat /\ a \in Nat
        /\ Len(e) = Len(d) + n /\ i + n = Len(nd)
    BY <1>1
  <2>2. Len(nd) - x = Len(e) - a
    BY ONLY <2>3, i \in Nat, n \in Nat
  <2>4. e[a] = nd[x]
    BY <1>4
  <2> HIDE DEF x
  <2> QED
    BY ONLY <2>1, <2>2, <2>4
<1>5. \/ a \in 1..Len(d) /\ e[a] = d[a]
      \/ i + a - Len(d) \in 1..Len(nd) /\ e[a] = nd[i + a - Len(d)]
  <2>1. i + n <= Len(nd)
    BY <1>1
  <2> QED
    BY ONLY d \in Seq(Octet), nd \in Seq(Octet), <2>1, i \in Nat, n \in Nat, a \in 1..Len(e),
            Joins(d, nd, i, n, e), JoinedAt
<1> QED
  BY <1>3, <1>4, <1>5

\* What holds of d and nd holds of e.
LEMMA JoinedUnits ==
    ASSUME NEW s, NEW d, NEW nd, NEW i \in Nat, NEW n \in Nat \ {0}, NEW e,
           Good(s, d), Unit(s, nd), i + n <= Len(nd), Joins(d, nd, i, n, e), Laid(d, nd, i),
           Closed(d)
    PROVE  Good(s, e) /\ (i + n = Len(nd) => Closed(e))
<1>1. d \in Seq(Octet) /\ nd \in Seq(Octet) /\ e \in Seq(Octet) /\ Good(s, nd) /\ Closed(nd)
  BY DEF Good, Unit, Joins
<1>2. Runs(e)
  BY <1>1, JoinedRuns
<1>3. \A a \in 1..Len(e) : Own(s, e[a])
  BY <1>1, JoinedOwn DEF Good
<1>4. i + n = Len(nd) => Closed(e)
  BY <1>1, JoinedClosed
<1> QED
  BY <1>1, <1>2, <1>3, <1>4 DEF Good

-----------------------------------------------------------------------------
\* The data in every part of the module.
DataQueue == \A i \in 1..Len(msg_queue) : Unit(sent, msg_queue[i])
DataUnit  == phase = "copy" => Unit(sent, netdata)
DataFrame == frame # NoFrame => Unit(sent, frame.data)
DataWire  == \A i \in 1..Len(wire) : Good(sent, wire[i].data)
DataSent  == \A i \in 1..Len(sent) : sent[i].id = i /\ Shape(sent[i]) \in Shapes

InvData == DataQueue /\ DataUnit /\ DataFrame /\ DataWire /\ DataSent

LEMMA InitData == GenInit => InvData
<1> SUFFICES ASSUME GenInit PROVE InvData
  OBVIOUS
<1>1. /\ Len(msg_queue) = 0 /\ Len(wire) = 0 /\ Len(sent) = 0
      /\ phase # "copy" /\ frame = NoFrame
  BY DEF GenInit
<1> QED
  BY <1>1 DEF InvData, DataQueue, DataUnit, DataFrame, DataWire, DataSent

LEMMA NewPacket ==
    ASSUME sent \in Seq(Packet), NEW s \in Shapes
    PROVE  /\ Numbered(s) \in Packet /\ Numbered(s).id = Len(sent) + 1
           /\ Shape(Numbered(s)) \in Shapes
<1>1. s \in AnyShape
  BY GenAssumption DEF GenAssumption
<1>2. s = [pvn |-> s.pvn, hdr |-> s.hdr, len |-> s.len]
  BY <1>1 DEF AnyShape
<1>3. Numbered(s) \in Packet /\ Numbered(s).id = Len(sent) + 1
  BY <1>1 DEF Numbered, AnyShape, Packet
<1>4. Shape(Numbered(s)) = [pvn |-> s.pvn, hdr |-> s.hdr, len |-> s.len]
  BY DEF Numbered, Shape
<1> QED
  BY <1>2, <1>3, <1>4

LEMMA Appended ==
    ASSUME NEW S, NEW q \in Seq(S), NEW x \in S
    PROVE  /\ Append(q, x) \in Seq(S) /\ Len(q) \in Nat /\ Len(Append(q, x)) = Len(q) + 1
           /\ \A i \in 1..Len(q) : Append(q, x)[i] = q[i]
           /\ Append(q, x)[Len(q) + 1] = x
  OBVIOUS

LEMMA HeadTail ==
    ASSUME NEW S, NEW q \in Seq(S), q # <<>>
    PROVE  /\ Tail(q) \in Seq(S) /\ Len(q) \in Nat \ {0} /\ Len(Tail(q)) = Len(q) - 1
           /\ Head(q) = q[1] /\ Head(q) \in S
           /\ \A i \in 1..Len(q) - 1 : Tail(q)[i] = q[i + 1]
  OBVIOUS

LEMMA ArriveData == Inv /\ InvData /\ Arrive => InvData'
<1> SUFFICES ASSUME Inv, InvData, Arrive PROVE InvData'
  OBVIOUS
<1>1. PICK s \in Shapes :
         /\ sent' = Append(sent, Numbered(s))
         /\ msg_queue' = Append(msg_queue, OctetsOf(Numbered(s)))
         /\ UNCHANGED <<phase, netdata, frame, wire>>
  BY DEF Arrive
<1>2. msg_queue \in Seq(Seq(Octet)) /\ sent \in Seq(Packet)
  BY DEF Inv, InvTypes
<1> DEFINE p == Numbered(s)
<1>3. p \in Packet /\ p.id = Len(sent) + 1 /\ Shape(p) \in Shapes
  BY <1>2, NewPacket
<1> HIDE DEF p
<1>4. /\ Len(sent) \in Nat /\ Len(sent') = Len(sent) + 1
      /\ \A i \in 1..Len(sent) : sent'[i] = sent[i]
      /\ sent'[Len(sent) + 1] = p
  BY <1>1, <1>2, <1>3, Appended DEF p
<1>5. p.id # 0 /\ p.id \in 1..Len(sent') /\ sent'[p.id] = p
  BY <1>3, <1>4
<1>6. Unit(sent', OctetsOf(p))
  BY <1>3, <1>5, PacketUnit
<1>7. ASSUME NEW d, Good(sent, d) PROVE Good(sent', d)
  BY <1>1, <1>2, <1>3, <1>7, GoodGrows DEF p
<1>8. DataQueue'
  <2>1. OctetsOf(p) \in Seq(Octet)
    BY <1>3, OctetsOfStarts
  <2>2. /\ Len(msg_queue) \in Nat /\ Len(msg_queue') = Len(msg_queue) + 1
        /\ \A i \in 1..Len(msg_queue) : msg_queue'[i] = msg_queue[i]
        /\ msg_queue'[Len(msg_queue) + 1] = OctetsOf(p)
    BY <1>1, <1>2, <2>1, Appended DEF p
  <2>3. \A i \in 1..Len(msg_queue) : Unit(sent', msg_queue[i])
    BY <1>7 DEF InvData, DataQueue, Unit
  <2>4. \A i \in 1..Len(msg_queue') : Unit(sent', msg_queue'[i])
    <3> SUFFICES ASSUME NEW i \in 1..Len(msg_queue') PROVE Unit(sent', msg_queue'[i])
      OBVIOUS
    <3>1. i \in 1..Len(msg_queue) \/ i = Len(msg_queue) + 1
      BY <2>2
    <3> QED
      BY <1>6, <2>2, <2>3, <3>1
  <2> QED
    BY <2>4 DEF DataQueue
<1>9. DataUnit' /\ DataFrame' /\ DataWire'
  BY <1>1, <1>7 DEF InvData, DataUnit, DataFrame, DataWire, Unit
<1>10. DataSent'
  <2> SUFFICES ASSUME NEW i \in 1..Len(sent')
               PROVE  sent'[i].id = i /\ Shape(sent'[i]) \in Shapes
    BY DEF DataSent
  <2>1. i \in 1..Len(sent) \/ i = Len(sent) + 1
    BY <1>4
  <2>2. \A a \in 1..Len(sent) : sent[a].id = a /\ Shape(sent[a]) \in Shapes
    BY DEF InvData, DataSent
  <2> QED
    BY <1>3, <1>4, <2>1, <2>2
<1> QED
  BY <1>8, <1>9, <1>10 DEF InvData

LEMMA GetDataData == Inv /\ InvData /\ GetData => InvData'
<1> SUFFICES ASSUME Inv, InvData, GetData PROVE InvData'
  OBVIOUS
<1>1. /\ msg_queue # <<>> /\ netdata' = Head(msg_queue) /\ msg_queue' = Tail(msg_queue)
      /\ UNCHANGED <<sent, frame, wire>>
  BY DEF GetData
<1>2. msg_queue \in Seq(Seq(Octet))
  BY DEF Inv, InvTypes
<1>3. /\ Len(msg_queue) \in Nat \ {0} /\ Len(msg_queue') = Len(msg_queue) - 1
      /\ netdata' = msg_queue[1]
      /\ \A i \in 1..Len(msg_queue) - 1 : msg_queue'[i] = msg_queue[i + 1]
  BY <1>1, <1>2, HeadTail
<1>4. \A i \in 1..Len(msg_queue) : Unit(sent, msg_queue[i])
  BY DEF InvData, DataQueue
<1>5. DataQueue'
  BY <1>1, <1>3, <1>4 DEF DataQueue
<1>6. DataUnit'
  BY <1>1, <1>3, <1>4 DEF DataUnit
<1>7. DataFrame' /\ DataWire' /\ DataSent'
  BY <1>1 DEF InvData, DataFrame, DataWire, DataSent
<1> QED
  BY <1>5, <1>6, <1>7 DEF InvData

\* What is at hand before a pass, and what the pass makes of it.
LEMMA PassData ==
    ASSUME Inv, InvData, phase = "copy", NEW f, NEW n, NEW g, AtHand(f), Pass(f, n, g)
    PROVE  /\ Good(sent, f.data) /\ Closed(f.data) /\ Laid(f.data, netdata, netdataIdx)
           /\ Unit(sent, netdata)
           /\ n \in Nat \ {0} /\ netdataIdx \in Nat /\ netdataIdx + n <= Len(netdata)
           /\ Joins(f.data, netdata, netdataIdx, n, g.data)
           /\ Good(sent, g.data)
           /\ netdataIdx + n = Len(netdata) => Closed(g.data)
           /\ Len(g.data) # DataFieldLen => netdataIdx + n = Len(netdata)
<1>1. /\ Unit(sent, netdata) /\ netdataIdx \in Nat
      /\ n \in Nat \ {0} /\ netdataIdx + n <= Len(netdata)
      /\ Joins(f.data, netdata, netdataIdx, n, g.data)
      /\ netdata[1].k = 0 /\ f \in Frame
  BY DEF InvData, DataUnit, Pass, Ready, Taken, Outcome
<1>2. f.data \in Seq(Octet) /\ Len(f.data) \in Nat /\ Len(g.data) = Len(f.data) + n
  BY <1>1 DEF Frame, Joins
<1>3. Len(g.data) # DataFieldLen => netdataIdx + n = Len(netdata)
  BY <1>2 DEF Pass, Taken
<1>4. Good(sent, f.data) /\ Closed(f.data) /\ Laid(f.data, netdata, netdataIdx)
  <2>1. CASE frame = NoFrame
    <3>1. f.data = <<>>
      BY <2>1 DEF AtHand, NewFrame
    <3>2. Len(f.data) = 0
      BY <3>1
    <3> QED
      BY <1>2, <3>2 DEF Good, Closed, Laid, Runs
  <2>2. CASE frame # NoFrame
    <3>1. f = frame /\ netdataIdx = 0
      BY <2>2 DEF AtHand, Inv, InvFrame
    <3>2. Unit(sent, f.data)
      BY <2>2, <3>1 DEF InvData, DataFrame
    <3> QED
      BY <1>1, <3>1, <3>2 DEF Unit, Laid
  <2> QED
    BY <2>1, <2>2
<1>5. Good(sent, g.data) /\ (netdataIdx + n = Len(netdata) => Closed(g.data))
  BY ONLY <1>1, <1>4, JoinedUnits
<1> QED
  BY <1>1, <1>3, <1>4, <1>5

LEMMA CopyData == Inv /\ InvData /\ Copy => InvData'
<1> SUFFICES ASSUME Inv, InvData, Copy PROVE InvData'
  OBVIOUS
<1>1. PICK f, n, g : phase = "copy" /\ AtHand(f) /\ Pass(f, n, g)
  BY CopyPasses
<1>2. /\ Unit(sent, netdata) /\ Good(sent, g.data)
      /\ netdataIdx + n = Len(netdata) => Closed(g.data)
      /\ Len(g.data) # DataFieldLen => netdataIdx + n = Len(netdata)
  BY <1>1, PassData
<1>3. /\ IF Len(g.data) = DataFieldLen THEN Send(g) ELSE UNCHANGED <<wire, currentFrameNumber>>
      /\ frame' = IF Len(g.data) = DataFieldLen THEN NoFrame ELSE g
      /\ netdata' = IF netdataIdx + n = Len(netdata) THEN <<>> ELSE netdata
      /\ phase' = IF netdataIdx + n # Len(netdata) THEN "copy"
                  ELSE IF Len(g.data) = DataFieldLen THEN "get" ELSE "last"
      /\ UNCHANGED <<msg_queue, sent>>
  BY <1>1 DEF Pass, Passed
<1>4. g \in Frame /\ wire \in Seq(Frame)
  BY <1>1 DEF Pass, Outcome, Inv, InvTypes
<1>5. DataQueue' /\ DataSent'
  BY <1>3 DEF InvData, DataQueue, DataSent
<1>6. DataUnit'
  BY <1>2, <1>3 DEF DataUnit
<1>7. DataFrame'
  BY <1>2, <1>3 DEF DataFrame, Unit
<1>8. DataWire'
  <2>1. CASE wire' = wire
    BY <1>3, <2>1 DEF InvData, DataWire
  <2>2. CASE wire' = Append(wire, g)
    <3>1. /\ Len(wire) \in Nat /\ Len(wire') = Len(wire) + 1
          /\ \A i \in 1..Len(wire) : wire'[i] = wire[i]
          /\ wire'[Len(wire) + 1] = g
      BY <1>4, <2>2, Appended
    <3>2. \A i \in 1..Len(wire) : Good(sent, wire[i].data)
      BY DEF InvData, DataWire
    <3>3. ASSUME NEW i \in 1..Len(wire') PROVE Good(sent, wire'[i].data)
      BY <1>2, <3>1, <3>2
    <3> QED
      BY <1>3, <3>3 DEF DataWire
  <2> QED
    BY <1>3, <2>1, <2>2 DEF Send
<1> QED
  BY <1>5, <1>6, <1>7, <1>8 DEF InvData

LEMMA TopUpData == Inv /\ InvData /\ TopUp => InvData'
<1> SUFFICES ASSUME Inv, InvData, TopUp PROVE InvData'
  OBVIOUS
<1>1. /\ phase = "last" /\ netdata' = Fill(DataFieldLen - Len(frame.data))
      /\ UNCHANGED <<msg_queue, sent, frame, wire>>
  BY DEF TopUp
<1>2. frame # NoFrame /\ Len(frame.data) \in 1..DataFieldLen - 1 /\ DataFieldLen \in Nat
  BY <1>1, FrameAssumption DEF Inv, InvFrame, FrameAssumption
<1>3. DataFieldLen - Len(frame.data) \in 1..DataFieldLen
  BY <1>2
<1>4. Unit(sent, netdata')
  BY <1>1, <1>3, FillUnit, FrameAssumption
<1> QED
  BY <1>1, <1>4 DEF InvData, DataQueue, DataUnit, DataFrame, DataWire, DataSent

LEMMA GenData == Inv /\ InvData /\ [GenNext]_genvars => Inv' /\ InvData'
<1> SUFFICES ASSUME Inv, InvData, [GenNext]_genvars PROVE Inv' /\ InvData'
  OBVIOUS
<1>1. Inv'
  BY ArriveInv, GetDataInv, CopyInv, WaitInv, TopUpInv, IdleInv DEF GenNext, GenStep
<1>2. CASE Wait \/ SetLink \/ UNCHANGED genvars
  <2>1. UNCHANGED <<msg_queue, sent, netdata, frame, wire>> /\ (phase' = "copy" => phase = "copy")
    BY <1>2 DEF Wait, SetLink, genvars
  <2>2. DataUnit'
    BY <2>1 DEF InvData, DataUnit
  <2>3. DataQueue' /\ DataFrame' /\ DataWire' /\ DataSent'
    BY <2>1 DEF InvData, DataQueue, DataFrame, DataWire, DataSent
  <2> QED
    BY <1>1, <2>2, <2>3 DEF InvData
<1> QED
  BY <1>1, <1>2, ArriveData, GetDataData, CopyData, TopUpData DEF GenNext, GenStep

-----------------------------------------------------------------------------
(* The receiver: types, and where the loop over a frame stands.            *)

Others ==
    /\ multi \in BOOLEAN /\ linked \in BOOLEAN /\ unplugs \in 0..MaxUnplugs
    /\ hits \in 0..MaxHits /\ idles \in 0..MaxIdles
    /\ gap \in BOOLEAN /\ doubt \in BOOLEAN /\ due \subseteq Nat

Fragment == [pvn : PVNs, octets : Seq(Octet), cut : Nat]
RcvTypes ==
    /\ rcvFrameNumber \in 0..MaxVCFrameCount /\ received \in Frame \cup {NoFrame}
    /\ headerPointer \in 0..DataFieldLen - 1 /\ leadPVN \in PVNs
    /\ packet \in Fragment \cup {NoPacket}
    /\ delivered \in Seq(Seq(Octet)) /\ aborted \in BOOLEAN

\* Both ends have the same packets and frames.
LEMMA SameData ==
    /\ R!Packet = Packet /\ R!Octet = Octet /\ R!PVNs = PVNs
    /\ R!Frame = Frame /\ R!Fragment = Fragment
<1>1. R!Packet = Packet /\ R!Octet = Octet /\ R!PVNs = PVNs
  BY DEF R!Packet, Packet, R!Octet, Octet, R!PVNs, PVNs, R!pvnSpacePacket, R!pvnSCPS_NP,
         R!pvnUnknown, R!pvnEncapsulationPacket, pvnSpacePacket, pvnSCPS_NP, pvnUnknown,
         pvnEncapsulationPacket
<1>2. R!Frame = Frame
  BY <1>1 DEF R!Frame, Frame, R!Pointer, Pointer
<1> QED
  BY <1>1, <1>2 DEF R!Fragment, Fragment

\* The position in a frame is where a packet starts, but for its beginning; the packet at
\* hand was begun in an earlier frame.
RcvFrame == received # NoFrame =>
    /\ Right(received) /\ Good(sent, received.data)
    /\ received.data[1].k = 0 => leadPVN = received.data[1].pkt.pvn
    /\ headerPointer > 0 => packet = NoPacket /\ received.data[headerPointer + 1].k = 0

LinkInv == Inv /\ InvData /\ Others /\ RcvTypes /\ RcvFrame

LEMMA LinkInit == Init => LinkInv
<1> SUFFICES ASSUME Init PROVE LinkInv
  OBVIOUS
<1>1. Inv /\ InvData
  BY InitInv, InitData DEF Init
<1>2. Others
  <2>1. unplugs = 0 /\ hits = 0 /\ idles = 0 /\ gap = FALSE /\ doubt = FALSE /\ due = {}
        /\ multi \in BOOLEAN /\ linked = TRUE
    BY DEF Init, GenInit
  <2>2. MaxUnplugs \in Nat /\ MaxHits \in Nat /\ MaxIdles \in Nat
    BY GenAssumption, LinkAssumption DEF GenAssumption, LinkAssumption
  <2>3. unplugs \in 0..MaxUnplugs /\ hits \in 0..MaxHits /\ idles \in 0..MaxIdles
    BY <2>1, <2>2
  <2>4. multi \in BOOLEAN /\ linked \in BOOLEAN /\ gap \in BOOLEAN /\ doubt \in BOOLEAN
    BY <2>1
  <2>5. due \subseteq Nat
    BY <2>1
  <2> QED
    BY <2>3, <2>4, <2>5 DEF Others
<1>3. RcvTypes
  <2>1. /\ rcvFrameNumber = 0 /\ received = NoFrame
        /\ headerPointer = 0 /\ leadPVN = pvnSpacePacket
        /\ packet = NoPacket /\ delivered = <<>> /\ aborted = FALSE
    BY DEF Init, R!RcvInit, R!pvnSpacePacket, pvnSpacePacket
  <2>2. headerPointer \in 0..DataFieldLen - 1 /\ rcvFrameNumber \in 0..MaxVCFrameCount
    BY <2>1, FrameAssumption DEF FrameAssumption
  <2>3. delivered \in Seq(Seq(Octet)) /\ leadPVN \in PVNs
    BY <2>1 DEF PVNs
  <2> QED
    BY <2>1, <2>2, <2>3 DEF RcvTypes
<1>4. RcvFrame
  BY DEF Init, R!RcvInit, RcvFrame
<1> QED
  BY <1>1, <1>2, <1>3, <1>4 DEF LinkInv

\* A step of the channel or the receiver leaves the generator as it is, but for the wire.
LEMMA WireChange ==
    ASSUME Inv, InvData, wire' \in Seq(Frame),
           UNCHANGED <<msg_queue, sent, phase, netdata, netdataIdx, frame, firstHeaderIndexSet,
                       currentFrameNumber>>,
           \A i \in 1..Len(wire') : /\ wire'[i].fhp # OnlyIdleData => Right(wire'[i])
                                    /\ Good(sent, wire'[i].data)
    PROVE  Inv' /\ InvData'
<1>1. InvTypes' /\ InvQueue' /\ InvUnit' /\ InvFrame'
  BY DEF Inv, InvTypes, InvQueue, InvUnit, InvFrame, Fits
<1>2. InvWire' /\ DataWire'
  BY DEF InvWire, DataWire
<1>3. DataQueue' /\ DataUnit' /\ DataFrame' /\ DataSent'
  BY DEF InvData, DataQueue, DataUnit, DataFrame, DataSent
<1> QED
  BY <1>1, <1>2, <1>3 DEF Inv, InvData

LEMMA WireTail ==
    ASSUME Inv, InvData, wire # <<>>, wire' = Tail(wire),
           UNCHANGED <<msg_queue, sent, phase, netdata, netdataIdx, frame, firstHeaderIndexSet,
                       currentFrameNumber>>
    PROVE  Inv' /\ InvData'
<1>1. /\ wire \in Seq(Frame)
      /\ \A i \in 1..Len(wire) : /\ wire[i].fhp # OnlyIdleData => Right(wire[i])
                                 /\ Good(sent, wire[i].data)
  BY DEF Inv, InvTypes, InvWire, InvData, DataWire
<1>2. /\ wire' \in Seq(Frame) /\ Len(wire) \in Nat \ {0} /\ Len(wire') = Len(wire) - 1
      /\ \A i \in 1..Len(wire) - 1 : wire'[i] = wire[i + 1]
  BY <1>1, HeadTail
<1>3. ASSUME NEW i \in 1..Len(wire')
      PROVE  /\ wire'[i].fhp # OnlyIdleData => Right(wire'[i])
             /\ Good(sent, wire'[i].data)
  <2>1. i + 1 \in 1..Len(wire) /\ wire'[i] = wire[i + 1]
    BY <1>2
  <2> QED
    BY <1>1, <2>1
<1> QED
  BY <1>2, <1>3, WireChange

\* What is so of the frame at the head of the wire.
LEMMA HeadFrame ==
    ASSUME Inv, InvData, wire # <<>>
    PROVE  /\ Head(wire) \in Frame /\ Head(wire) = wire[1] /\ 1 \in 1..Len(wire)
           /\ Head(wire).fhp # OnlyIdleData => Right(Head(wire))
           /\ Good(sent, Head(wire).data)
<1>1. wire \in Seq(Frame)
  BY DEF Inv, InvTypes
<1>2. Head(wire) \in Frame /\ Head(wire) = wire[1] /\ Len(wire) \in Nat \ {0}
  BY <1>1, HeadTail
<1>3. 1 \in 1..Len(wire)
  BY <1>2
<1> QED
  BY <1>2, <1>3 DEF Inv, InvWire, InvData, DataWire

LEMMA IdleFrameGood ==
    ASSUME NEW s
    PROVE  /\ IdleFrame \in Frame /\ IdleFrame.fhp = OnlyIdleData /\ IdleFrame.ok
           /\ Good(s, IdleFrame.data) /\ IdleFrame.data = RawFill(DataFieldLen)
<1>1. DataFieldLen \in Nat \ {0} /\ MaxVCFrameCount \in Nat
  BY FrameAssumption DEF FrameAssumption
<1>2. Good(s, RawFill(DataFieldLen))
  BY <1>1, RawFillUnit DEF Unit
<1>3. /\ IdleFrame.fhp = OnlyIdleData /\ IdleFrame.ok
      /\ IdleFrame.data = RawFill(DataFieldLen)
  BY DEF IdleFrame
<1>4. RawFill(DataFieldLen) \in Seq(Octet)
  BY <1>2 DEF Good
<1>5. IdleFrame \in Frame
  BY <1>1, <1>4 DEF IdleFrame, Frame, Pointer, OnlyIdleData
<1> QED
  BY <1>2, <1>3, <1>5

-----------------------------------------------------------------------------
(* The generator's steps, and the channel's.                               *)

LEMMA SentGrows ==
    ASSUME Inv, [GenNext]_genvars
    PROVE  \/ sent' = sent
           \/ \E s \in Shapes : sent' = Append(sent, Numbered(s)) /\ Arrive
  BY DEF GenNext, GenStep, Arrive, GetData, Copy, Wait, TopUp, SetLink, genvars

LEMMA GoodKept ==
    ASSUME Inv, [GenNext]_genvars, NEW d, Good(sent, d)
    PROVE  Good(sent', d)
<1>1. sent \in Seq(Packet)
  BY DEF Inv, InvTypes
<1>2. ASSUME NEW s \in Shapes, sent' = Append(sent, Numbered(s)) PROVE Good(sent', d)
  BY <1>1, <1>2, NewPacket, GoodGrows
<1> QED
  BY <1>2, SentGrows

LEMMA GenOthers ==
    ASSUME multi \in BOOLEAN, linked \in BOOLEAN, unplugs \in 0..MaxUnplugs, [GenNext]_genvars
    PROVE  multi' = multi /\ linked' \in BOOLEAN /\ unplugs' \in 0..MaxUnplugs
<1>1. CASE SetLink
  <2>1. linked' = ~linked /\ multi' = multi /\ linked' \in BOOLEAN
    BY <1>1 DEF SetLink
  <2>2. unplugs' \in 0..MaxUnplugs
    BY <1>1, GenAssumption DEF SetLink, GenAssumption
  <2> QED
    BY <2>1, <2>2
<1>2. CASE ~SetLink
  BY <1>2 DEF GenNext, GenStep, Arrive, GetData, Copy, Wait, TopUp, genvars
<1> QED
  BY <1>1, <1>2

LEMMA GenerateLink == LinkInv /\ Generate => LinkInv'
<1> SUFFICES ASSUME LinkInv, Generate PROVE LinkInv'
  OBVIOUS
<1>1. /\ Inv /\ InvData /\ [GenNext]_genvars
      /\ UNCHANGED <<rcvFrameNumber, received, headerPointer, leadPVN, packet, delivered, aborted,
                     hits, idles, gap, doubt, due>>
  BY DEF LinkInv, Generate, rcvonly, envvars, history
<1>2. Inv' /\ InvData'
  BY <1>1, GenData
<1>3. multi' = multi /\ linked' \in BOOLEAN /\ unplugs' \in 0..MaxUnplugs
  BY <1>1, GenOthers DEF LinkInv, Others
<1>4. Others'
  BY <1>1, <1>3 DEF LinkInv, Others
<1>6. RcvTypes'
  BY <1>1 DEF LinkInv, RcvTypes
<1>7. RcvFrame'
  <2>1. received # NoFrame => Good(sent', received.data)
    BY <1>1, GoodKept DEF LinkInv, RcvFrame
  <2> QED
    BY <1>1, <2>1 DEF LinkInv, RcvFrame
<1> QED
  BY <1>2, <1>4, <1>6, <1>7 DEF LinkInv

LEMMA LoseLink == LinkInv /\ (Lose \/ Spoil \/ InsertIdle) => LinkInv'
<1> SUFFICES ASSUME LinkInv, Lose \/ Spoil \/ InsertIdle PROVE LinkInv'
  OBVIOUS
<1>1. Inv /\ InvData /\ wire \in Seq(Frame)
  BY DEF LinkInv, Inv, InvTypes
<1>2. Unhurt
  BY DEF Lose, Spoil, InsertIdle
<1>3. /\ UNCHANGED <<msg_queue, sent, phase, netdata, netdataIdx, frame, firstHeaderIndexSet,
                     currentFrameNumber>>
      /\ UNCHANGED <<multi, linked, unplugs, doubt, due>>
      /\ UNCHANGED <<rcvFrameNumber, received, headerPointer, leadPVN, packet, delivered, aborted>>
  BY <1>2 DEF Unhurt, rcvonly
<1>4. Inv' /\ InvData'
  <2>1. CASE Lose
    BY <1>1, <1>3, <2>1, WireTail DEF Lose
  <2>2. CASE Spoil
    <3>1. wire # <<>> /\ wire' = [wire EXCEPT ![1].ok = FALSE]
      BY <2>2 DEF Spoil
    <3>2. 1 \in 1..Len(wire) /\ wire[1] \in Frame
      BY <1>1, <3>1, HeadFrame
    <3>3. [wire[1] EXCEPT !.ok = FALSE] \in Frame
      BY <3>2 DEF Frame
    <3>4. wire' \in Seq(Frame) /\ Len(wire') = Len(wire)
      BY <1>1, <3>1, <3>2, <3>3
    <3>5. \A i \in 1..Len(wire) : wire'[i].fhp = wire[i].fhp /\ wire'[i].data = wire[i].data
      BY <1>1, <3>1, <3>2 DEF Frame
    <3>6. ASSUME NEW i \in 1..Len(wire')
          PROVE  /\ wire'[i].fhp # OnlyIdleData => Right(wire'[i])
                 /\ Good(sent, wire'[i].data)
      BY <1>1, <3>4, <3>5 DEF Inv, InvWire, InvData, DataWire, Right
    <3> QED
      BY <1>1, <1>3, <3>4, <3>6, WireChange
  <2>3. CASE InsertIdle
    <3>1. wire' = Append(wire, IdleFrame)
      BY <2>3 DEF InsertIdle
    <3>2. /\ wire' \in Seq(Frame) /\ Len(wire) \in Nat /\ Len(wire') = Len(wire) + 1
          /\ \A i \in 1..Len(wire) : wire'[i] = wire[i]
          /\ wire'[Len(wire) + 1] = IdleFrame
      BY <1>1, <3>1, IdleFrameGood, Appended
    <3>3. ASSUME NEW i \in 1..Len(wire')
          PROVE  /\ wire'[i].fhp # OnlyIdleData => Right(wire'[i])
                 /\ Good(sent, wire'[i].data)
      <4>1. i \in 1..Len(wire) \/ i = Len(wire) + 1
        BY <3>2
      <4> QED
        BY <1>1, <3>2, <4>1, IdleFrameGood DEF Inv, InvWire, InvData, DataWire
    <3> QED
      BY <1>1, <1>3, <3>2, <3>3, WireChange
  <2> QED
    BY <2>1, <2>2, <2>3
<1>5. Others'
  <2>1. gap' \in BOOLEAN
    BY DEF Lose, Spoil, InsertIdle, LinkInv, Others
  <2>2. hits' \in 0..MaxHits
    BY LinkAssumption DEF Lose, Spoil, InsertIdle, LinkInv, Others, LinkAssumption
  <2>3. idles' \in 0..MaxIdles
    BY LinkAssumption DEF Lose, Spoil, InsertIdle, LinkInv, Others, LinkAssumption
  <2> QED
    BY <1>3, <2>1, <2>2, <2>3 DEF LinkInv, Others
<1>6. RcvTypes'
  BY <1>3 DEF LinkInv, RcvTypes
<1>7. RcvFrame'
  BY <1>3 DEF LinkInv, RcvFrame
<1> QED
  BY <1>4, <1>5, <1>6, <1>7 DEF LinkInv

-----------------------------------------------------------------------------
(* The receiver's steps, in the terms of the link.                         *)

Here == received.data[headerPointer + 1]
Left == SubSeq(received.data, headerPointer + 1, Len(received.data))
Piece(n, c) == [pvn |-> Here.pkt.pvn, octets |-> SubSeq(Left, 1, n), cut |-> c]

FrameDone == headerPointer' = 0 /\ received' = NoFrame
MoveTo(idx) == \/ FrameDone
               \/ idx < Len(received.data) /\ headerPointer' = idx /\ UNCHANGED received
Hand(p) == delivered' = IF p.octets[1].pkt.id = 0 \/ p.pvn \notin OutputPVNs
                        THEN delivered ELSE Append(delivered, p.octets)
RestSame == UNCHANGED <<wire, multi, rcvFrameNumber, leadPVN>>

LEMMA GoesOnTo ==
    ASSUME NEW idx, NEW more, R!GoOn(idx, more)
    PROVE  MoveTo(idx) /\ (~more => FrameDone)
  BY DEF R!GoOn, MoveTo, FrameDone

\* A frame is done with when it is at its end, or holds one packet.
Finishes(idx) == received' # NoFrame \/ multi = FALSE \/ ~(idx < Len(received.data))

LEMMA GoesToFinish ==
    ASSUME LinkInv, received # NoFrame, NEW idx, R!GoOn(idx, multi)
    PROVE  Finishes(idx)
<1>1. multi \in BOOLEAN
  BY DEF LinkInv, Others
<1> QED
  BY <1>1 DEF R!GoOn, Finishes

\* Where the frame at hand stands.
LEMMA AtHandFrame ==
    ASSUME LinkInv, received # NoFrame
    PROVE  /\ received \in Frame /\ received.data \in Seq(Octet)
           /\ Len(received.data) = DataFieldLen /\ DataFieldLen \in Nat /\ DataFieldLen <= 2045
           /\ headerPointer \in Nat /\ headerPointer < DataFieldLen
           /\ headerPointer + 1 \in 1..Len(received.data)
           /\ Here \in Octet /\ Own(sent, Here) /\ Formed(Here.pkt)
           /\ received.fhp \in Nat
           /\ IF received.fhp = NoPacketStart THEN Unsettled(received.data)
              ELSE Settled(received.data, received.fhp)
<1>1. received \in Frame /\ headerPointer \in 0..DataFieldLen - 1
  BY DEF LinkInv, RcvTypes
<1>2. received.data \in Seq(Octet)
  BY <1>1 DEF Frame
<1>3. Len(received.data) = DataFieldLen /\ \A i \in 1..Len(received.data) : Own(sent, received.data[i])
  BY DEF LinkInv, RcvFrame, Right, Good
<1>4. DataFieldLen \in Nat /\ DataFieldLen <= 2045
  BY FrameAssumption DEF FrameAssumption
<1>8. /\ received.fhp \in Nat
      /\ IF received.fhp = NoPacketStart THEN Unsettled(received.data)
         ELSE Settled(received.data, received.fhp)
  <2>1. \/ received.fhp = NoPacketStart /\ Unsettled(received.data)
        \/ Settled(received.data, received.fhp)
    BY DEF LinkInv, RcvFrame, Right
  <2>2. Settled(received.data, received.fhp) =>
            received.fhp \in Nat /\ received.fhp # NoPacketStart
    BY <1>3, <1>4 DEF Settled, NoPacketStart
  <2> QED
    BY <2>1, <2>2 DEF NoPacketStart
<1>5. headerPointer \in Nat /\ headerPointer < DataFieldLen /\ headerPointer + 1 \in 1..Len(received.data)
  BY <1>1, <1>3, <1>4
<1>6. Here \in Octet /\ Own(sent, Here)
  BY <1>2, <1>3, <1>5 DEF Here
<1>7. Formed(Here.pkt)
  BY <1>6, OwnFormed
<1> QED
  BY <1>1, <1>2, <1>3, <1>4, <1>5, <1>6, <1>7, <1>8

\* What is taken for a header is one.
LEMMA HeaderRead ==
    ASSUME LinkInv, R!AtStart
    PROVE  /\ received # NoFrame /\ packet = NoPacket
           /\ Here.k = 0 /\ R!CurrentPVN = Here.pkt.pvn
           /\ Here.pkt.pvn \in {pvnSpacePacket, pvnEncapsulationPacket}
<1>1. received # NoFrame /\ packet = NoPacket /\ R!Supported /\ ~R!Continued
  BY DEF R!AtStart
<1>2. headerPointer \in Nat /\ received.fhp \in Nat /\ Len(received.data) \in Nat
  BY <1>1, AtHandFrame
<1>3. Here.k = 0 /\ R!CurrentPVN = Here.pkt.pvn
  <2>1. CASE headerPointer = 0
    <3>1. received.fhp = 0
      BY <1>1, <1>2, <2>1 DEF R!Continued
    <3>2. Settled(received.data, 0)
      BY <1>1, <3>1 DEF LinkInv, RcvFrame, Right, NoPacketStart
    <3>3. received.data[1].k = 0
      BY <3>2 DEF Settled
    <3>4. leadPVN = received.data[1].pkt.pvn
      BY <1>1, <3>3 DEF LinkInv, RcvFrame
    <3> QED
      BY <1>1, <2>1, <3>3, <3>4 DEF Here, R!CurrentPVN
  <2>2. CASE headerPointer > 0
    <3>1. received.data[headerPointer + 1].k = 0
      BY <1>1, <2>2 DEF LinkInv, RcvFrame
    <3> QED
      BY <1>1, <1>2, <2>2, <3>1 DEF Here, R!CurrentPVN
  <2> QED
    BY <1>2, <2>1, <2>2
<1>4. Here.pkt.pvn \in {pvnSpacePacket, pvnEncapsulationPacket}
  BY <1>1, <1>3 DEF R!Supported, R!pvnSpacePacket, R!pvnEncapsulationPacket, pvnSpacePacket,
                    pvnEncapsulationPacket
<1> QED
  BY <1>1, <1>3, <1>4

\* Behind a packet that starts here and ends in the frame, another one starts.
LEMMA NextStart ==
    ASSUME LinkInv, received # NoFrame, Here.k = 0,
           headerPointer + Here.pkt.len < Len(received.data)
    PROVE  received.data[headerPointer + Here.pkt.len + 1].k = 0
<1>1. /\ headerPointer \in Nat /\ Len(received.data) \in Nat /\ Here \in Octet
      /\ headerPointer + 1 \in 1..Len(received.data)
  BY AtHandFrame
<1>2. Here.pkt.len \in Nat \ {0}
  BY <1>1, OctetFields
<1>3. GoesOn(Here, received.data, headerPointer + 2)
  <2>1. GoesOn(received.data[headerPointer + 1], received.data, (headerPointer + 1) + 1)
    BY <1>1 DEF LinkInv, RcvFrame, Good, Runs
  <2>2. (headerPointer + 1) + 1 = headerPointer + 2
    BY <1>1
  <2> QED
    BY <2>1, <2>2 DEF Here
<1> DEFINE j == headerPointer + Here.pkt.len + 1
<1>4. j \in headerPointer + 2..Len(received.data)
  BY <1>1, <1>2
<1>5. Here.k + 1 + j - (headerPointer + 2) = Here.pkt.len
  BY <1>1, <1>2
<1> QED
  BY <1>3, <1>4, <1>5 DEF GoesOn

LEMMA LongLength ==
    ASSUME NEW p, NEW c, p.pvn = pvnSpacePacket, c = 6
    PROVE  R!StoredLength(p, c) = 65542
<1>1. 65535 % 65536 = 65535
  BY SMT
<1>4. ((c + 65529) % 65536) + 7 = 65542
  BY <1>1
<1>2. ~(c < 5) /\ c # 5
  OBVIOUS
<1> QED
  BY <1>4, <1>2 DEF R!StoredLength, R!pvnSpacePacket, pvnSpacePacket

LEMMA OtherLength ==
    ASSUME NEW p, NEW c, p.pvn # pvnSpacePacket
    PROVE  R!StoredLength(p, c) = p.len
  BY DEF R!StoredLength, R!pvnSpacePacket, pvnSpacePacket

LEMMA LeftLen ==
    ASSUME LinkInv, received # NoFrame
    PROVE  /\ Left \in Seq(Octet) /\ Len(Left) = Len(received.data) - headerPointer
           /\ Len(Left) \in 1..DataFieldLen
           /\ \A j \in 1..Len(Left) : Left[j] = received.data[headerPointer + j]
           /\ Left[1] = Here
<1>1. /\ received.data \in Seq(Octet) /\ headerPointer \in Nat /\ DataFieldLen \in Nat
      /\ Len(received.data) = DataFieldLen /\ headerPointer < DataFieldLen
  BY AtHandFrame
<1> DEFINE n == Len(received.data) - headerPointer
<1>2. n \in Nat /\ headerPointer + n <= Len(received.data) /\ headerPointer + n = Len(received.data)
      /\ n \in 1..DataFieldLen
  BY <1>1
<1>3. Left = SubSeq(received.data, headerPointer + 1, headerPointer + n)
  BY <1>2 DEF Left
<1> HIDE DEF n
<1>4. /\ Left \in Seq(Octet) /\ Len(Left) = n
      /\ \A j \in 1..n : Left[j] = received.data[headerPointer + j]
  <2>1. /\ received.data \in Seq(Octet) /\ headerPointer \in Nat /\ n \in Nat
        /\ headerPointer + n <= Len(received.data)
    BY <1>1, <1>2
  <2> QED
    BY ONLY <2>1, <1>3, Part
<1>5. Left[1] = Here
  BY <1>2, <1>4 DEF Here
<1> QED
  BY <1>2, <1>4, <1>5 DEF n

\* _startNewSpacePkt(), _startNewEncap(): an exception, a packet whose end is not in the frame,
\* or a whole one.
LEMMA DidStart ==
    ASSUME LinkInv, R!Start
    PROVE  /\ R!AtStart
           /\ \/ R!Abort
              \/ /\ FrameDone /\ RestSame /\ UNCHANGED <<delivered, aborted>>
                 /\ \/ Here.pkt.hdr > Len(Left) /\ packet' = Piece(Len(Left), Len(Left))
                    \/ /\ Here.pkt.hdr <= Len(Left)
                       /\ packet' = Piece(Len(Left), Here.pkt.hdr)
                       /\ Here.pkt.pvn = pvnSpacePacket \/ Here.pkt.len > Len(Left)
              \/ /\ Here.pkt.pvn # pvnSpacePacket /\ Here.pkt.len <= Len(Left)
                 /\ Here.pkt.hdr <= Len(Left)
                 /\ packet' = NoPacket /\ Hand(Piece(Here.pkt.len, Here.pkt.hdr))
                 /\ MoveTo(headerPointer + Here.pkt.len) /\ Finishes(headerPointer + Here.pkt.len)
                 /\ RestSame /\ UNCHANGED aborted
<1>1. R!AtStart
  BY DEF R!Start
<1>2. /\ received # NoFrame /\ Here.k = 0 /\ R!CurrentPVN = Here.pkt.pvn
  BY <1>1, HeaderRead
<1>3. /\ R!Rest(headerPointer) = Left /\ Left[1] = Here /\ Len(Left) \in Nat /\ Len(Left) >= 1
      /\ Len(Left) = Len(received.data) - headerPointer /\ Len(Left) <= 2045
      /\ headerPointer \in Nat /\ Len(received.data) \in Nat
      /\ Here.pkt.hdr \in Nat \ {0} /\ Here.pkt.len \in Nat \ {0} /\ Formed(Here.pkt)
  <2>1. Here \in Octet /\ Formed(Here.pkt) /\ DataFieldLen \in Nat /\ DataFieldLen <= 2045
        /\ headerPointer \in Nat /\ Len(received.data) \in Nat
    BY <1>2, AtHandFrame
  <2>2. Left[1] = Here /\ Len(Left) \in 1..DataFieldLen
        /\ Len(Left) = Len(received.data) - headerPointer
    BY <1>2, LeftLen
  <2> QED
    BY <2>1, <2>2, OctetFields DEF R!Rest, Left
<1> DEFINE min == Here.pkt.hdr
           cut == IF min > Len(Left) THEN Len(Left) ELSE min
           want == R!StoredLength(Here.pkt, cut)
           take == IF want >= Len(Left) THEN Len(Left) ELSE want
<1>4. \/ /\ min > Len(Left) /\ packet' = Piece(Len(Left), cut)
         /\ R!GoOn(headerPointer, FALSE) /\ UNCHANGED <<delivered, R!assemblevars>>
      \/ R!Abort
      \/ /\ min <= Len(Left)
         /\ IF take = want THEN packet' = NoPacket /\ R!Deliver(Piece(take, cut))
                           ELSE packet' = Piece(take, cut) /\ UNCHANGED delivered
         /\ R!GoOn(headerPointer + take, multi)
         /\ UNCHANGED R!assemblevars
  <2> DEFINE l == R!Rest(headerPointer)
             m == l[1].pkt.hdr
             c == IF m > Len(l) THEN Len(l) ELSE m
             new(n) == [pvn |-> R!CurrentPVN, octets |-> SubSeq(l, 1, n), cut |-> c]
             w == R!StoredLength(l[1].pkt, c)
             t == IF w >= Len(l) THEN Len(l) ELSE w
  <2>1. \/ /\ m > Len(l) /\ packet' = new(Len(l))
           /\ R!GoOn(headerPointer, FALSE) /\ UNCHANGED <<delivered, R!assemblevars>>
        \/ R!Abort
        \/ /\ m <= Len(l)
           /\ IF t = w THEN packet' = NoPacket /\ R!Deliver(new(t))
                       ELSE packet' = new(t) /\ UNCHANGED delivered
           /\ R!GoOn(headerPointer + t, multi)
           /\ UNCHANGED R!assemblevars
    BY DEF R!Start
  <2>2. l = Left /\ m = min /\ c = cut /\ w = want /\ t = take
    BY <1>3
  <2>3. new(take) = Piece(take, cut) /\ new(Len(Left)) = Piece(Len(Left), cut)
    BY <1>2, <2>2 DEF Piece
  <2> HIDE DEF l, m, c, w, t, new, min, cut, want, take
  <2> QED
    BY <2>1, <2>2, <2>3
<1>5. CASE /\ min > Len(Left) /\ packet' = Piece(Len(Left), cut)
           /\ R!GoOn(headerPointer, FALSE) /\ UNCHANGED <<delivered, R!assemblevars>>
  <2>1. cut = Len(Left) /\ FrameDone /\ RestSame /\ UNCHANGED <<delivered, aborted>>
    BY <1>5, GoesOnTo DEF R!assemblevars, RestSame
  <2> QED
    BY <1>1, <1>5, <2>1
<1>6. CASE R!Abort
  BY <1>1, <1>6
<1>7. CASE /\ min <= Len(Left)
           /\ IF take = want THEN packet' = NoPacket /\ R!Deliver(Piece(take, cut))
                             ELSE packet' = Piece(take, cut) /\ UNCHANGED delivered
           /\ R!GoOn(headerPointer + take, multi)
           /\ UNCHANGED R!assemblevars
  <2>1. cut = min /\ RestSame /\ UNCHANGED aborted
    BY <1>3, <1>7 DEF R!assemblevars, RestSame
  <2>2. CASE Here.pkt.pvn = pvnSpacePacket
    <3>1. want = 65542
      BY <1>3, <2>1, <2>2, LongLength DEF Formed
    <3>2. take = Len(Left) /\ take # want
      BY <1>3, <3>1
    <3> HIDE DEF take, want
    <3>3. packet' = Piece(Len(Left), min) /\ UNCHANGED delivered
      BY <1>7, <2>1, <3>2
    <3>4. FrameDone
      <4>1. MoveTo(headerPointer + take)
        BY <1>7, GoesOnTo
      <4>2. ~(headerPointer + take < Len(received.data))
        BY <1>3, <3>2
      <4> QED
        BY <4>1, <4>2 DEF MoveTo
    <3> QED
      BY <1>1, <1>7, <2>1, <2>2, <3>3, <3>4
  <2>3. CASE Here.pkt.pvn # pvnSpacePacket /\ Here.pkt.len > Len(Left)
    <3>1. want = Here.pkt.len
      BY <2>3, OtherLength
    <3>2. take = Len(Left) /\ take # want
      BY <1>3, <2>3, <3>1
    <3> HIDE DEF take, want
    <3>3. packet' = Piece(Len(Left), min) /\ UNCHANGED delivered
      BY <1>7, <2>1, <3>2
    <3>4. FrameDone
      <4>1. MoveTo(headerPointer + take)
        BY <1>7, GoesOnTo
      <4>2. ~(headerPointer + take < Len(received.data))
        BY <1>3, <3>2
      <4> QED
        BY <4>1, <4>2 DEF MoveTo
    <3> QED
      BY <1>1, <1>7, <2>1, <2>3, <3>3, <3>4
  <2>4. CASE Here.pkt.pvn # pvnSpacePacket /\ Here.pkt.len <= Len(Left)
    <3>1. want = Here.pkt.len
      BY <2>4, OtherLength
    <3>2. take = want /\ take = Here.pkt.len
      BY <1>3, <2>4, <3>1
    <3> HIDE DEF take, want
    <3>3. packet' = NoPacket /\ R!Deliver(Piece(Here.pkt.len, min))
      BY <1>7, <2>1, <3>2
    <3>4. Hand(Piece(Here.pkt.len, min))
      BY <3>3 DEF R!Deliver, Hand
    <3>5. MoveTo(headerPointer + Here.pkt.len) /\ Finishes(headerPointer + Here.pkt.len)
      BY <1>2, <1>7, <3>2, GoesOnTo, GoesToFinish
    <3> QED
      BY <1>1, <1>7, <2>1, <2>4, <3>3, <3>4, <3>5
  <2> QED
    BY <1>3, <2>2, <2>3, <2>4
<1> QED
  BY <1>4, <1>5, <1>6, <1>7

-----------------------------------------------------------------------------
\* _continueSpacePkt(), _continueEncap(): how much of the Data Field is more of the packet.
MoreLen == IF received.fhp # NoPacketStart THEN received.fhp ELSE Len(received.data)
Longer  == [packet EXCEPT !.octets = @ \o SubSeq(received.data, 1, MoreLen)]

LEMMA FragmentFields ==
    ASSUME NEW p \in Fragment
    PROVE  p.octets \in Seq(Octet) /\ Len(p.octets) \in Nat /\ p.pvn \in PVNs /\ p.cut \in Nat
  BY DEF Fragment

LEMMA PacketAtHand ==
    ASSUME LinkInv, packet # NoPacket
    PROVE  packet \in Fragment /\ packet.octets \in Seq(Octet) /\ packet.pvn \in PVNs
<1>1. packet \in Fragment
  BY DEF LinkInv, RcvTypes
<1> QED
  BY <1>1, FragmentFields

LEMMA LongerIs ==
    ASSUME LinkInv, received # NoFrame, packet # NoPacket, received.fhp > 0
    PROVE  /\ MoreLen \in Nat \ {0} /\ MoreLen <= Len(received.data)
           /\ MoreLen < Len(received.data) =>
                  received.fhp # NoPacketStart /\ received.data[MoreLen + 1].k = 0
           /\ received.fhp # NoPacketStart => MoreLen < Len(received.data)
           /\ Longer \in Fragment /\ Longer.pvn = packet.pvn /\ Longer.cut = packet.cut
           /\ Longer.octets = packet.octets \o SubSeq(received.data, 1, MoreLen)
           /\ Len(Longer.octets) = Len(packet.octets) + MoreLen
           /\ \A j \in 1..Len(packet.octets) : Longer.octets[j] = packet.octets[j]
           /\ \A j \in 1..MoreLen : Longer.octets[Len(packet.octets) + j] = received.data[j]
<1>1. /\ received.data \in Seq(Octet) /\ Len(received.data) = DataFieldLen
      /\ received.fhp \in Nat /\ DataFieldLen \in Nat \ {0}
      /\ received.fhp # NoPacketStart => Settled(received.data, received.fhp)
  BY AtHandFrame
<1>2. /\ MoreLen \in Nat \ {0} /\ MoreLen <= Len(received.data)
      /\ MoreLen < Len(received.data) =>
             received.fhp # NoPacketStart /\ received.data[MoreLen + 1].k = 0
      /\ received.fhp # NoPacketStart => MoreLen < Len(received.data)
  BY <1>1 DEF MoreLen, Settled
<1>3. packet \in Fragment /\ packet.octets \in Seq(Octet) /\ packet.pvn \in PVNs
      /\ packet.cut \in Nat
  BY PacketAtHand, FragmentFields
<1> DEFINE e == packet.octets \o SubSeq(received.data, 1, MoreLen)
<1>4. /\ e \in Seq(Octet) /\ Len(e) = Len(packet.octets) + MoreLen
      /\ \A j \in 1..Len(packet.octets) : e[j] = packet.octets[j]
      /\ \A j \in 1..MoreLen : e[Len(packet.octets) + j] = received.data[j]
  <2> DEFINE z == 0
  <2>1. /\ packet.octets \in Seq(Octet) /\ received.data \in Seq(Octet)
        /\ z \in Nat /\ MoreLen \in Nat /\ z + MoreLen <= Len(received.data)
    BY <1>1, <1>2, <1>3
  <2>2. e = packet.octets \o SubSeq(received.data, z + 1, z + MoreLen)
    BY <1>2
  <2> HIDE DEF z, e
  <2>3. Joins(packet.octets, received.data, z, MoreLen, e)
    BY ONLY <2>1, <2>2, JoinParts
  <2> QED
    BY <1>1, <1>2, <2>3 DEF z, Joins
<1>5. Longer = [packet EXCEPT !.octets = e]
  BY DEF Longer
<1> HIDE DEF e
<1>6. /\ Longer \in Fragment /\ Longer.pvn = packet.pvn /\ Longer.cut = packet.cut
      /\ Longer.octets = e
  BY <1>3, <1>4, <1>5 DEF Fragment
<1> QED
  BY <1>2, <1>4, <1>6 DEF e

LEMMA DidContinue ==
    ASSUME LinkInv, R!Continue
    PROVE  /\ received # NoFrame /\ packet # NoPacket /\ headerPointer = 0 /\ received.fhp > 0
           /\ \/ R!Abort
              \/ /\ RestSame /\ UNCHANGED aborted /\ MoveTo(MoreLen)
                 /\ \E expected \in R!ExpectedLengths(Longer) :
                       \/ /\ Len(Longer.octets) = expected /\ Finishes(MoreLen)
                          /\ packet' = NoPacket /\ Hand(Longer)
                       \/ /\ Len(Longer.octets) # expected
                          /\ \/ received.fhp # NoPacketStart /\ Finishes(MoreLen)
                             \/ received.fhp = NoPacketStart /\ Len(Longer.octets) > expected
                          /\ packet' = NoPacket /\ UNCHANGED delivered
                       \/ /\ Len(Longer.octets) < expected /\ received.fhp = NoPacketStart
                          /\ packet' = Longer /\ UNCHANGED delivered
<1>1. received # NoFrame /\ packet # NoPacket /\ headerPointer = 0 /\ received.fhp > 0
  BY DEF R!Continue, R!Continued
<1>2. CASE R!Abort
  BY <1>1, <1>2
<1>3. CASE ~R!Abort
  <2>1. NoPacketStart = R!NoPacketStart
    BY DEF NoPacketStart, R!NoPacketStart
  <2> DEFINE n == IF received.fhp # R!NoPacketStart THEN received.fhp ELSE Len(received.data)
             m == [packet EXCEPT !.octets = @ \o SubSeq(received.data, 1, n)]
             t == Len(m.octets)
  <2>2. /\ UNCHANGED R!assemblevars
        /\ \E x \in R!ExpectedLengths(m) :
             \/ /\ t = x
                /\ packet' = NoPacket /\ R!Deliver(m) /\ R!GoOn(n, multi)
             \/ /\ t # x /\ received.fhp # R!NoPacketStart
                /\ packet' = NoPacket /\ R!GoOn(n, multi)
                /\ UNCHANGED delivered
             \/ /\ t > x /\ ~(received.fhp # R!NoPacketStart)
                /\ packet' = NoPacket /\ R!GoOn(n, FALSE) /\ UNCHANGED delivered
             \/ /\ t < x /\ ~(received.fhp # R!NoPacketStart)
                /\ packet' = m /\ R!GoOn(n, multi) /\ UNCHANGED delivered
    BY <1>3 DEF R!Continue
  <2>3. n = MoreLen /\ m = Longer
    BY <2>1 DEF MoreLen, Longer
  <2> HIDE DEF n, m
  <2>4. PICK x \in R!ExpectedLengths(Longer) :
             \/ /\ t = x
                /\ packet' = NoPacket /\ R!Deliver(Longer) /\ R!GoOn(MoreLen, multi)
             \/ /\ t # x /\ received.fhp # R!NoPacketStart
                /\ packet' = NoPacket /\ R!GoOn(MoreLen, multi)
                /\ UNCHANGED delivered
             \/ /\ t > x /\ ~(received.fhp # R!NoPacketStart)
                /\ packet' = NoPacket /\ R!GoOn(MoreLen, FALSE) /\ UNCHANGED delivered
             \/ /\ t < x /\ ~(received.fhp # R!NoPacketStart)
                /\ packet' = Longer /\ R!GoOn(MoreLen, multi) /\ UNCHANGED delivered
    BY <2>2, <2>3
  <2>5. MoveTo(MoreLen)
    BY <2>4, GoesOnTo
  <2>6. t = Len(Longer.octets) /\ t \in Nat
    <3>1. Longer \in Fragment
      BY <1>1, LongerIs
    <3> QED
      BY <2>3, <3>1, FragmentFields
  <2>7. RestSame /\ UNCHANGED aborted
    BY <2>2 DEF R!assemblevars, RestSame
  <2>8. t > x => t # x
    BY <2>6
  <2>9. R!Deliver(Longer) => Hand(Longer)
    BY DEF R!Deliver, Hand
  <2>11. R!GoOn(MoreLen, multi) => Finishes(MoreLen)
    BY <1>1, GoesToFinish
  <2>10. \/ /\ Len(Longer.octets) = x /\ Finishes(MoreLen)
            /\ packet' = NoPacket /\ Hand(Longer)
         \/ /\ Len(Longer.octets) # x
            /\ \/ received.fhp # NoPacketStart /\ Finishes(MoreLen)
               \/ received.fhp = NoPacketStart /\ Len(Longer.octets) > x
            /\ packet' = NoPacket /\ UNCHANGED delivered
         \/ /\ Len(Longer.octets) < x /\ received.fhp = NoPacketStart
            /\ packet' = Longer /\ UNCHANGED delivered
    BY <2>1, <2>4, <2>6, <2>8, <2>9, <2>11
  <2> QED
    BY <1>1, <2>5, <2>7, <2>10
<1> QED
  BY <1>2, <1>3

-----------------------------------------------------------------------------
\* Where a pass of the loop leaves off.
LEMMA Moved ==
    ASSUME LinkInv, received # NoFrame, RestSame, sent' = sent, NEW idx \in Nat, MoveTo(idx),
           idx < Len(received.data) =>
               \/ idx = 0
               \/ packet' = NoPacket /\ received.data[idx + 1].k = 0
    PROVE  /\ RcvFrame' /\ received' \in Frame \cup {NoFrame}
           /\ headerPointer' \in 0..DataFieldLen - 1
<1>1. /\ received \in Frame /\ Len(received.data) = DataFieldLen
      /\ DataFieldLen \in Nat \ {0}
  BY AtHandFrame
<1>2. CASE FrameDone
  BY <1>1, <1>2 DEF FrameDone, RcvFrame
<1>3. CASE idx < Len(received.data) /\ headerPointer' = idx /\ UNCHANGED received
  <2>1. headerPointer' > 0 => packet' = NoPacket /\ received'.data[headerPointer' + 1].k = 0
    BY <1>3
  <2>2. /\ Right(received') /\ Good(sent', received'.data)
        /\ received'.data[1].k = 0 => leadPVN' = received'.data[1].pkt.pvn
    BY <1>3 DEF LinkInv, RcvFrame, RestSame
  <2>3. RcvFrame'
    BY <2>1, <2>2 DEF RcvFrame
  <2> QED
    BY <1>1, <1>3, <2>3
<1> QED
  BY <1>2, <1>3 DEF MoveTo

LEMMA MovedToStart ==
    ASSUME LinkInv, received # NoFrame, RestSame, sent' = sent, MoveTo(0)
    PROVE  /\ RcvFrame' /\ received' \in Frame \cup {NoFrame}
           /\ headerPointer' \in 0..DataFieldLen - 1
<1>1. received \in Frame /\ DataFieldLen \in Nat \ {0}
  BY AtHandFrame
<1>2. CASE FrameDone
  BY <1>1, <1>2 DEF FrameDone, RcvFrame
<1>3. CASE headerPointer' = 0 /\ UNCHANGED received
  BY <1>1, <1>3 DEF LinkInv, RcvFrame, RestSame
<1> QED
  BY <1>2, <1>3 DEF MoveTo

LEMMA HandTypes ==
    ASSUME delivered \in Seq(Seq(Octet)), NEW p, p.octets \in Seq(Octet), Hand(p)
    PROVE  delivered' \in Seq(Seq(Octet))
<1>1. Append(delivered, p.octets) \in Seq(Seq(Octet))
  BY Appended
<1> QED
  BY <1>1 DEF Hand

LEMMA PieceIs ==
    ASSUME LinkInv, received # NoFrame, NEW n \in 1..Len(Left), NEW c \in Nat
    PROVE  /\ Piece(n, c) \in Fragment /\ Len(Piece(n, c).octets) = n
           /\ Piece(n, c).pvn = Here.pkt.pvn /\ Piece(n, c).cut = c
           /\ \A j \in 1..n : Piece(n, c).octets[j] = received.data[headerPointer + j]
<1>1. /\ Left \in Seq(Octet) /\ Len(Left) \in Nat
      /\ \A j \in 1..Len(Left) : Left[j] = received.data[headerPointer + j]
  BY LeftLen
<1>2. Here.pkt.pvn \in PVNs
  BY AtHandFrame, OctetFields
<1> DEFINE z == 0
           e == SubSeq(Left, 1, n)
<1>3. z \in Nat /\ n \in Nat /\ z + n <= Len(Left) /\ e = SubSeq(Left, z + 1, z + n)
  BY <1>1
<1> HIDE DEF z, e
<1>4. e \in Seq(Octet) /\ Len(e) = n /\ \A j \in 1..n : e[j] = Left[z + j]
  <2>1. Left \in Seq(Octet)
    BY <1>1
  <2> QED
    BY ONLY <1>3, <2>1, Part
<1>5. \A j \in 1..n : e[j] = received.data[headerPointer + j]
  BY <1>1, <1>3, <1>4 DEF z
<1>6. Piece(n, c) = [pvn |-> Here.pkt.pvn, octets |-> e, cut |-> c]
  BY DEF Piece, e
<1>7. /\ Piece(n, c).pvn = Here.pkt.pvn /\ Piece(n, c).octets = e /\ Piece(n, c).cut = c
      /\ Piece(n, c) \in Fragment
  BY <1>2, <1>4, <1>6 DEF Fragment
<1> QED
  BY <1>4, <1>5, <1>7

-----------------------------------------------------------------------------
\* What a step of the receiver must keep.
RcvSame == UNCHANGED <<msg_queue, sent, phase, netdata, netdataIdx, frame, firstHeaderIndexSet,
                       currentFrameNumber, linked, unplugs>>

LEMMA AssembleKeeps ==
    ASSUME LinkInv, RcvSame, RestSame, UNCHANGED <<envvars, history>>,
           received' \in Frame \cup {NoFrame}, headerPointer' \in 0..DataFieldLen - 1,
           packet' \in Fragment \cup {NoPacket}, delivered' \in Seq(Seq(Octet)),
           aborted' \in BOOLEAN, RcvFrame'
    PROVE  LinkInv'
<1>1. Inv' /\ InvData'
  <2>1. /\ wire' \in Seq(Frame)
        /\ \A i \in 1..Len(wire') : /\ wire'[i].fhp # OnlyIdleData => Right(wire'[i])
                                    /\ Good(sent, wire'[i].data)
    BY DEF LinkInv, Inv, InvTypes, InvWire, InvData, DataWire, RestSame
  <2>2. Inv /\ InvData
    BY DEF LinkInv
  <2> QED
    BY <2>1, <2>2, WireChange DEF RcvSame
<1>2. Others'
  BY DEF LinkInv, Others, RcvSame, RestSame, envvars, history
<1>3. RcvTypes'
  BY DEF LinkInv, RcvTypes, RestSame
<1> QED
  BY <1>1, <1>2, <1>3 DEF LinkInv

LEMMA AbortLink == LinkInv /\ R!Abort /\ RcvSame /\ UNCHANGED <<envvars, history>> => LinkInv'
<1> SUFFICES ASSUME LinkInv, R!Abort, RcvSame, UNCHANGED <<envvars, history>> PROVE LinkInv'
  OBVIOUS
<1>1. /\ aborted' = TRUE /\ RestSame
      /\ UNCHANGED <<received, headerPointer, packet, delivered>>
  BY DEF R!Abort, RestSame
<1>2. RcvFrame'
  BY <1>1 DEF LinkInv, RcvFrame, RcvSame, RestSame
<1>3. /\ received' \in Frame \cup {NoFrame} /\ headerPointer' \in 0..DataFieldLen - 1
      /\ packet' \in Fragment \cup {NoPacket} /\ delivered' \in Seq(Seq(Octet))
      /\ aborted' \in BOOLEAN
  BY <1>1 DEF LinkInv, RcvTypes
<1> QED
  BY <1>1, <1>2, <1>3, AssembleKeeps

\* How the loop goes over a frame: what each pass does to the packet at hand.
LEMMA DidDiscard ==
    ASSUME R!Discard
    PROVE  received # NoFrame /\ FrameDone /\ RestSame /\ UNCHANGED <<packet, delivered, aborted>>
  BY GoesOnTo DEF R!Discard, R!assemblevars, RestSame

LEMMA DidSkip ==
    ASSUME LinkInv, R!Skip
    PROVE  /\ received # NoFrame /\ packet = NoPacket /\ headerPointer = 0
           /\ RestSame /\ UNCHANGED <<packet, delivered, aborted>>
           /\ \/ MoveTo(0)
              \/ /\ received.fhp \in Nat /\ received.fhp < Len(received.data)
                 /\ MoveTo(received.fhp) /\ received.data[received.fhp + 1].k = 0
<1>1. /\ received # NoFrame /\ packet = NoPacket /\ headerPointer = 0
      /\ RestSame /\ UNCHANGED <<packet, delivered, aborted>>
      /\ R!GoOn(IF received.fhp = NoPacketStart THEN 0 ELSE received.fhp, multi)
  BY DEF R!Skip, R!Continued, R!assemblevars, RestSame, NoPacketStart, R!NoPacketStart
<1>2. CASE received.fhp = NoPacketStart
  BY <1>1, <1>2, GoesOnTo
<1>3. CASE received.fhp # NoPacketStart
  <2>1. Settled(received.data, received.fhp)
    BY <1>1, <1>3, AtHandFrame
  <2>2. Len(received.data) \in Nat
    BY <1>1, AtHandFrame
  <2>3. /\ received.fhp \in Nat /\ received.fhp < Len(received.data)
        /\ received.data[received.fhp + 1].k = 0
    BY <2>1, <2>2 DEF Settled
  <2> QED
    BY <1>1, <1>3, <2>3, GoesOnTo
<1> QED
  BY <1>2, <1>3

LEMMA DidPassFill ==
    ASSUME LinkInv, R!PassFill
    PROVE  /\ received # NoFrame /\ packet = NoPacket
           /\ RestSame /\ UNCHANGED <<packet, delivered, aborted>>
           /\ Here.k = 0 /\ Here.pkt.len = 1 /\ MoveTo(headerPointer + Here.pkt.len)
<1>1. R!AtStart /\ R!CurrentPVN = R!pvnEncapsulationPacket /\ Here.pkt.hdr = 1
  BY DEF R!PassFill, Here
<1>2. received # NoFrame /\ packet = NoPacket /\ Here.k = 0 /\ R!CurrentPVN = Here.pkt.pvn
  BY <1>1, HeaderRead
<1>3. Here.pkt.pvn = pvnEncapsulationPacket
  BY <1>1, <1>2 DEF R!pvnEncapsulationPacket, pvnEncapsulationPacket
<1>4. Here.pkt.len = 1
  BY <1>1, <1>2, <1>3, AtHandFrame DEF Formed
<1>5. MoveTo(headerPointer + 1)
  BY GoesOnTo DEF R!PassFill
<1>6. RestSame /\ UNCHANGED <<packet, delivered, aborted>>
  BY DEF R!PassFill, R!assemblevars, RestSame
<1> QED
  BY <1>2, <1>4, <1>5, <1>6

LEMMA DidLostTail ==
    ASSUME LinkInv, R!LostTail
    PROVE  /\ received # NoFrame /\ packet # NoPacket /\ headerPointer = 0 /\ received.fhp = 0
           /\ packet' = NoPacket /\ RestSame /\ UNCHANGED <<delivered, aborted>> /\ MoveTo(0)
<1>1. /\ received # NoFrame /\ packet # NoPacket /\ ~R!Continued
      /\ packet' = NoPacket /\ RestSame /\ UNCHANGED <<delivered, aborted>>
      /\ R!GoOn(headerPointer, TRUE)
  BY DEF R!LostTail, R!assemblevars, RestSame
<1>2. headerPointer \in Nat /\ received.fhp \in Nat
  BY <1>1, AtHandFrame
<1>3. headerPointer = 0
  BY <1>1, <1>2 DEF LinkInv, RcvFrame
<1>4. received.fhp = 0
  BY <1>1, <1>2, <1>3 DEF R!Continued
<1> QED
  BY <1>1, <1>3, <1>4, GoesOnTo

LEMMA AssembleLink == LinkInv /\ Assemble /\ RcvSame => LinkInv'
<1> SUFFICES ASSUME LinkInv, Assemble, RcvSame PROVE LinkInv'
  OBVIOUS
<1>1. UNCHANGED <<envvars, history>> /\ sent' = sent
  BY DEF Assemble, RcvSame
<1>2. /\ packet \in Fragment \cup {NoPacket} /\ delivered \in Seq(Seq(Octet))
      /\ aborted \in BOOLEAN
  BY DEF LinkInv, RcvTypes
<1>3. CASE R!Discard
  <2>1. RestSame /\ MoveTo(0) /\ received # NoFrame /\ UNCHANGED <<packet, delivered, aborted>>
    BY <1>3, DidDiscard DEF MoveTo
  <2> QED
    BY <1>1, <1>2, <2>1, MovedToStart, AssembleKeeps
<1>4. CASE R!Skip
  <2>2. /\ RestSame /\ received # NoFrame /\ packet' = NoPacket
        /\ UNCHANGED <<packet, delivered, aborted>>
    BY <1>4, DidSkip
  <2>3. /\ RcvFrame' /\ received' \in Frame \cup {NoFrame}
        /\ headerPointer' \in 0..DataFieldLen - 1
    <3>1. CASE MoveTo(0)
      BY <1>1, <2>2, <3>1, MovedToStart
    <3>2. CASE ~MoveTo(0)
      BY <1>1, <1>4, <2>2, <3>2, DidSkip, Moved
    <3> QED
      BY <3>1, <3>2
  <2> QED
    BY <1>1, <1>2, <2>2, <2>3, AssembleKeeps
<1>5. CASE R!PassFill
  <2>1. /\ RestSame /\ received # NoFrame /\ packet' = NoPacket
        /\ UNCHANGED <<packet, delivered, aborted>>
        /\ Here.k = 0 /\ MoveTo(headerPointer + Here.pkt.len)
    BY <1>5, DidPassFill
  <2>2. headerPointer + Here.pkt.len \in Nat
    BY <2>1, AtHandFrame, OctetFields
  <2>3. /\ RcvFrame' /\ received' \in Frame \cup {NoFrame}
        /\ headerPointer' \in 0..DataFieldLen - 1
    BY <1>1, <2>1, <2>2, NextStart, Moved
  <2> QED
    BY <1>1, <1>2, <2>1, <2>3, AssembleKeeps
<1>6. CASE R!Start
  <2>1. received # NoFrame /\ Here.k = 0 /\ Here \in Octet /\ headerPointer \in Nat
    BY <1>6, DidStart, HeaderRead, AtHandFrame
  <2>2. Here.pkt.len \in Nat \ {0} /\ Here.pkt.hdr \in Nat \ {0}
    BY <2>1, OctetFields
  <2>3. Len(Left) \in Nat \ {0}
    BY <2>1, LeftLen, AtHandFrame
  <2>4. CASE R!Abort
    BY <1>1, <2>4, AbortLink
  <2>5. CASE /\ FrameDone /\ RestSame /\ UNCHANGED <<delivered, aborted>>
             /\ \E c \in Nat : packet' = Piece(Len(Left), c)
    <3>1. packet' \in Fragment
      BY <2>1, <2>3, <2>5, PieceIs
    <3>2. /\ RcvFrame' /\ received' \in Frame \cup {NoFrame}
          /\ headerPointer' \in 0..DataFieldLen - 1
      <4>1. MoveTo(0)
        BY <2>5 DEF MoveTo
      <4> QED
        BY <1>1, <2>1, <2>5, <4>1, MovedToStart
    <3> QED
      BY <1>1, <1>2, <2>5, <3>1, <3>2, AssembleKeeps
  <2>6. CASE /\ Here.pkt.len <= Len(Left)
             /\ packet' = NoPacket /\ Hand(Piece(Here.pkt.len, Here.pkt.hdr))
             /\ MoveTo(headerPointer + Here.pkt.len)
             /\ RestSame /\ UNCHANGED aborted
    <3>1. headerPointer + Here.pkt.len \in Nat
      BY <2>1, <2>2
    <3>2. /\ RcvFrame' /\ received' \in Frame \cup {NoFrame}
          /\ headerPointer' \in 0..DataFieldLen - 1
      BY <1>1, <2>1, <2>6, <3>1, NextStart, Moved
    <3>3. Piece(Here.pkt.len, Here.pkt.hdr).octets \in Seq(Octet)
      BY <2>1, <2>2, <2>3, <2>6, PieceIs, FragmentFields
    <3>4. delivered' \in Seq(Seq(Octet))
      BY <1>2, <2>6, <3>3, HandTypes
    <3> QED
      BY <1>1, <1>2, <2>6, <3>2, <3>4, AssembleKeeps
  <2> QED
    BY <1>6, <2>2, <2>3, <2>4, <2>5, <2>6, DidStart
<1>7. CASE R!Continue
  <2>1. received # NoFrame /\ packet # NoPacket /\ headerPointer = 0 /\ received.fhp > 0
    BY <1>7, DidContinue
  <2>2. CASE R!Abort
    BY <1>1, <2>2, AbortLink
  <2>3. CASE /\ RestSame /\ UNCHANGED aborted /\ MoveTo(MoreLen)
             /\ \/ packet' = NoPacket /\ Hand(Longer)
                \/ packet' = NoPacket /\ UNCHANGED delivered
                \/ /\ received.fhp = NoPacketStart
                   /\ packet' = Longer /\ UNCHANGED delivered
    <3>1. /\ Longer \in Fragment /\ MoreLen \in Nat
          /\ MoreLen < Len(received.data) =>
                 received.fhp # NoPacketStart /\ received.data[MoreLen + 1].k = 0
      BY <2>1, LongerIs
    <3>2. /\ RcvFrame' /\ received' \in Frame \cup {NoFrame}
          /\ headerPointer' \in 0..DataFieldLen - 1
      BY <1>1, <2>1, <2>3, <3>1, Moved
    <3>3. delivered' \in Seq(Seq(Octet))
      BY <1>2, <2>3, <3>1, HandTypes, FragmentFields
    <3>4. packet' \in Fragment \cup {NoPacket}
      BY <2>3, <3>1
    <3> QED
      BY <1>1, <1>2, <2>3, <3>2, <3>3, <3>4, AssembleKeeps
  <2> QED
    BY <1>7, <2>2, <2>3, DidContinue
<1>8. CASE R!LostTail
  <2>1. /\ received # NoFrame /\ packet' = NoPacket /\ RestSame /\ MoveTo(0)
        /\ UNCHANGED <<delivered, aborted>>
    BY <1>8, DidLostTail
  <2> QED
    BY <1>1, <1>2, <2>1, MovedToStart, AssembleKeeps
<1> QED
  BY <1>3, <1>4, <1>5, <1>6, <1>7, <1>8 DEF Assemble, R!Assemble

LEMMA IgnoreLink == LinkInv /\ Ignore /\ RcvSame => LinkInv'
<1> SUFFICES ASSUME LinkInv, Ignore, RcvSame PROVE LinkInv'
  OBVIOUS
<1>1. /\ received = NoFrame /\ wire # <<>> /\ wire' = Tail(wire)
      /\ UNCHANGED <<multi, rcvFrameNumber, received, headerPointer, leadPVN, packet, delivered,
                     aborted, doubt, due, hits, idles>>
  BY DEF Ignore, R!Ignore, envvars
<1>2. gap' \in BOOLEAN
  BY DEF Ignore, LinkInv, Others
<1>3. Inv' /\ InvData'
  BY <1>1, WireTail DEF LinkInv, RcvSame
<1>4. Others'
  BY <1>1, <1>2 DEF LinkInv, Others, RcvSame
<1>5. RcvTypes' /\ RcvFrame'
  BY <1>1 DEF LinkInv, RcvTypes, RcvFrame
<1> QED
  BY <1>3, <1>4, <1>5 DEF LinkInv

\* svc(): what is so of the frame taken.
LEMMA DidTake ==
    ASSUME LinkInv, R!Take
    PROVE  LET f == Head(wire) IN
           /\ received = NoFrame /\ wire # <<>> /\ ~R!Ignored(f) /\ f.fhp # OnlyIdleData
           /\ wire' = Tail(wire) /\ received' = f /\ headerPointer' = 0
           /\ f \in Frame /\ f = wire[1] /\ Right(f) /\ Good(sent, f.data)
           /\ rcvFrameNumber' = IncFrameNumber(f.num)
           /\ packet' = IF f.num # rcvFrameNumber THEN NoPacket ELSE packet
           /\ leadPVN' \in PVNs
           /\ f.data[1].k = 0 => leadPVN' = f.data[1].pkt.pvn
           /\ UNCHANGED <<multi, delivered, aborted>>
<1> DEFINE f == Head(wire)
<1>1. /\ received = NoFrame /\ wire # <<>> /\ ~R!Ignored(f)
      /\ wire' = Tail(wire) /\ received' = f /\ headerPointer' = 0
      /\ rcvFrameNumber' = R!CountAfter(f)
      /\ packet' = (IF R!Miscounted(f) THEN NoPacket ELSE packet)
      /\ leadPVN' \in (IF f.data[1].k = 0 THEN {f.data[1].pkt.pvn} ELSE R!PVNs)
      /\ UNCHANGED <<multi, delivered, aborted>>
  BY DEF R!Take
<1>2. /\ f.fhp # OnlyIdleData /\ rcvFrameNumber' = IncFrameNumber(f.num)
      /\ packet' = IF f.num # rcvFrameNumber THEN NoPacket ELSE packet
  BY <1>1 DEF R!Ignored, R!Uncounted, R!CountAfter, R!Miscounted, R!IncFrameNumber,
              IncFrameNumber, R!OnlyIdleData, OnlyIdleData
<1>3. f \in Frame /\ f = wire[1] /\ Right(f) /\ Good(sent, f.data)
  BY <1>1, <1>2, HeadFrame DEF LinkInv
<1>4. /\ f.data \in Seq(Octet) /\ Len(f.data) = DataFieldLen /\ DataFieldLen \in Nat \ {0}
  BY <1>3, FrameAssumption DEF Frame, Right, FrameAssumption
<1>5. f.data[1] \in Octet
  BY <1>4
<1>6. leadPVN' \in PVNs /\ (f.data[1].k = 0 => leadPVN' = f.data[1].pkt.pvn)
  <2>1. f.data[1].pkt.pvn \in PVNs /\ R!PVNs = PVNs
    BY <1>5, OctetFields, SameData
  <2> QED
    BY <1>1, <2>1
<1> QED
  BY <1>1, <1>2, <1>3, <1>6

LEMMA TakeLink == LinkInv /\ Take /\ RcvSame => LinkInv'
<1> SUFFICES ASSUME LinkInv, Take, RcvSame PROVE LinkInv'
  OBVIOUS
<1> DEFINE f == Head(wire)
<1>1. /\ wire # <<>> /\ wire' = Tail(wire) /\ received' = f /\ headerPointer' = 0
      /\ f \in Frame /\ Right(f) /\ Good(sent, f.data)
      /\ rcvFrameNumber' = IncFrameNumber(f.num)
      /\ packet' = (IF f.num # rcvFrameNumber THEN NoPacket ELSE packet)
      /\ leadPVN' \in PVNs
      /\ f.data[1].k = 0 => leadPVN' = f.data[1].pkt.pvn
      /\ UNCHANGED <<multi, delivered, aborted>>
  BY DidTake DEF Take
<1> HIDE DEF f
<1>2. Inv' /\ InvData'
  BY <1>1, WireTail DEF LinkInv, RcvSame
<1>3. Others'
  <2>1. gap' = FALSE /\ hits' = 0 /\ idles' = idles
    BY DEF Take
  <2>2. doubt' \in BOOLEAN
    BY DEF Take, StillInDoubt, LinkInv, Others
  <2>3. due' \subseteq Nat
    <3>1. EndingIn(Head(wire)) \subseteq Nat
      <4>1. Len(sent) \in Nat
        BY DEF LinkInv, Inv, InvTypes
      <4> QED
        BY <4>1 DEF EndingIn
    <3>2. due' = (IF StillInDoubt(Head(wire)) THEN due ELSE due \cup EndingIn(Head(wire)))
      BY DEF Take
    <3>3. due \subseteq Nat
      BY DEF LinkInv, Others
    <3> QED
      BY <3>1, <3>2, <3>3
  <2>4. hits' \in 0..MaxHits /\ idles' \in 0..MaxIdles /\ unplugs' \in 0..MaxUnplugs
    BY <2>1, LinkAssumption DEF LinkAssumption, LinkInv, Others, RcvSame
  <2>5. multi' \in BOOLEAN /\ linked' \in BOOLEAN /\ gap' \in BOOLEAN
    BY <1>1, <2>1 DEF LinkInv, Others, RcvSame
  <2> QED
    BY <2>2, <2>3, <2>4, <2>5 DEF Others
<1>4. RcvTypes'
  <2>1. rcvFrameNumber' \in 0..MaxVCFrameCount
    <3>1. f.num \in 0..MaxVCFrameCount
      BY <1>1 DEF Frame
    <3> QED
      BY <1>1, <3>1, FrameAssumption DEF IncFrameNumber, FrameAssumption
  <2>2. headerPointer' \in 0..DataFieldLen - 1
    <3>1. DataFieldLen \in Nat \ {0}
      BY FrameAssumption DEF FrameAssumption
    <3> QED
      BY <1>1, <3>1
  <2>3. packet' \in Fragment \cup {NoPacket}
    BY <1>1 DEF LinkInv, RcvTypes
  <2> QED
    BY <1>1, <2>1, <2>2, <2>3 DEF LinkInv, RcvTypes
<1>5. RcvFrame'
  BY <1>1 DEF RcvFrame, RcvSame
<1> QED
  BY <1>2, <1>3, <1>4, <1>5 DEF LinkInv

LEMMA ReceiveLink == LinkInv /\ Receive => LinkInv'
  BY TakeLink, IgnoreLink, AssembleLink DEF Receive, RcvSame

LEMMA StutterLink == LinkInv /\ UNCHANGED vars => LinkInv'
<1> SUFFICES ASSUME LinkInv, UNCHANGED vars PROVE LinkInv'
  OBVIOUS
<1>1. UNCHANGED genvars /\ UNCHANGED <<rcvonly, envvars, history>>
  BY DEF vars
<1>2. Generate \/ UNCHANGED genvars
  BY <1>1
<1>3. /\ Inv /\ InvData /\ [GenNext]_genvars
      /\ UNCHANGED <<rcvFrameNumber, received, headerPointer, leadPVN, packet, delivered, aborted,
                     hits, idles, gap, doubt, due>>
      /\ UNCHANGED <<multi, linked, unplugs, sent>>
  BY <1>1 DEF LinkInv, rcvonly, envvars, history, genvars
<1>4. Inv' /\ InvData'
  BY <1>3, GenData
<1>5. Others' /\ RcvTypes' /\ RcvFrame'
  BY <1>3 DEF LinkInv, Others, RcvTypes, RcvFrame
<1> QED
  BY <1>4, <1>5 DEF LinkInv

\* What is so of both ends whatever the channel does to the frames in between.
THEOREM LinkHolds == Spec => []LinkInv
<1>1. LinkInv /\ [Next]_vars => LinkInv'
  BY GenerateLink, ReceiveLink, LoseLink, StutterLink DEF Next
<1> QED
  BY <1>1, LinkInit, PTL DEF Spec

\* _assemblePacket() reads a header only where one is, however packets were cut up and whatever
\* was lost, spoilt or inserted on the way, any number of times.
THEOREM HeadersOnlyAreRead == Spec => []OnlyHeadersRead
<1>1. LinkInv => OnlyHeadersRead
  <2> SUFFICES ASSUME LinkInv PROVE OnlyHeadersRead
    OBVIOUS
  <2>1. GenTypeOK
    BY DEF LinkInv, Inv, InvTypes, Others, GenTypeOK
  <2>2. R!RcvTypeOK
    BY SameData DEF LinkInv, Inv, InvTypes, Others, RcvTypes, R!RcvTypeOK
  <2>3. TypeOK
    BY <2>1, <2>2 DEF LinkInv, Others, TypeOK
  <2>4. ReadsHeaders
    BY HeaderRead DEF ReadsHeaders, Here
  <2> QED
    BY <2>3, <2>4 DEF OnlyHeadersRead
<1> QED
  BY <1>1, LinkHolds, PTL

-----------------------------------------------------------------------------
(* Packets stay in order: what is yet to be received of the packets begun  *)
(* after a given one.                                                      *)

\* From position i on, only packets later than x start in d.
Above(x, d, i) == \A j \in i..Len(d) : d[j].k = 0 /\ d[j].pkt.id # 0 => x < d[j].pkt.id
Rising(d) == \A i \in 1..Len(d) : d[i].k = 0 => Above(d[i].pkt.id, d, i + 1)

\* How many packets have left the queue.
Begun == Len(sent) - Len(msg_queue)
Coming(x) == x <= Begun /\ (phase = "copy" /\ netdataIdx = 0 => Above(x, netdata, 1))

\* All that is on its way behind the first a frames on the wire starts later packets than x.
Down(a, x) == /\ \A b \in 1..Len(wire) : a < b => Above(x, wire[b].data, 1)
              /\ frame # NoFrame => Above(x, frame.data, 1)
              /\ Coming(x)

OrderQueue == /\ Len(msg_queue) <= Len(sent)
              /\ \A i \in 1..Len(msg_queue) : msg_queue[i] = OctetsOf(sent[Begun + i])
OrderUnit == phase = "copy" =>
    /\ Rising(netdata)
    /\ \A i \in 1..Len(netdata) : netdata[i].k = 0 => netdata[i].pkt.id <= Begun
    /\ netdataIdx # 0 => StartsOnce(netdata)
OrderFrame == frame # NoFrame =>
    /\ Rising(frame.data)
    /\ \A i \in 1..Len(frame.data) : frame.data[i].k = 0 => Coming(frame.data[i].pkt.id)
OrderWire == \A a \in 1..Len(wire) :
    /\ Rising(wire[a].data)
    /\ \A i \in 1..Len(wire[a].data) : wire[a].data[i].k = 0 => Down(a, wire[a].data[i].pkt.id)

InvOrder == OrderQueue /\ OrderUnit /\ OrderFrame /\ OrderWire

LEMMA InitOrder == GenInit => InvOrder
<1> SUFFICES ASSUME GenInit PROVE InvOrder
  OBVIOUS
<1>1. /\ Len(msg_queue) = 0 /\ Len(wire) = 0 /\ Len(sent) = 0
      /\ phase # "copy" /\ frame = NoFrame
  BY DEF GenInit
<1> QED
  BY <1>1 DEF InvOrder, OrderQueue, OrderUnit, OrderFrame, OrderWire

LEMMA BegunNat ==
    ASSUME Inv, OrderQueue
    PROVE  Begun \in Nat /\ Len(sent) \in Nat /\ Len(msg_queue) \in Nat
<1>1. Len(sent) \in Nat /\ Len(msg_queue) \in Nat
  BY DEF Inv, InvTypes
<1> QED
  BY <1>1 DEF OrderQueue, Begun

\* A unit that is one packet.
LEMMA OnePacket ==
    ASSUME NEW p \in Packet, NEW d, d = OctetsOf(p)
    PROVE  /\ Rising(d) /\ \A i \in 1..Len(d) : d[i].pkt = p
           /\ \A x : x < p.id => Above(x, d, 1)
<1>1. d \in Seq(Octet) /\ StartsOnce(d) /\ Len(d) \in Nat
  BY OctetsOfStarts
<1>2. Len(d) = p.len
  BY OctetsOfStarts
<1>3. \A i \in 1..Len(d) : d[i].pkt = p
  BY <1>2 DEF OctetsOf
<1>4. \A i \in 1..Len(d) : d[i].k = 0 <=> i = 1
  BY <1>1 DEF StartsOnce
<1>5. Rising(d)
  BY <1>1, <1>4 DEF Rising, Above
<1>6. \A x : x < p.id => Above(x, d, 1)
  BY <1>1, <1>3 DEF Above
<1> QED
  BY <1>3, <1>5, <1>6

\* What is laid into a frame: of the starts in it and before it.
LEMMA AboveJoined ==
    ASSUME NEW d \in Seq(Octet), NEW nd \in Seq(Octet), NEW i \in Nat, NEW n \in Nat, NEW e,
           i + n <= Len(nd), Joins(d, nd, i, n, e), NEW x,
           Above(x, d, 1), IF i = 0 THEN Above(x, nd, 1) ELSE StartsOnce(nd)
    PROVE  Above(x, e, 1)
<1> SUFFICES ASSUME NEW a \in 1..Len(e), e[a].k = 0, e[a].pkt.id # 0
             PROVE  x < e[a].pkt.id
  BY DEF Above
<1>1. Len(d) \in Nat /\ Len(nd) \in Nat /\ e \in Seq(Octet) /\ a \in Nat
  BY DEF Joins
<1>2. CASE a \in 1..Len(d) /\ e[a] = d[a]
  BY <1>2 DEF Above
<1>3. CASE /\ a > Len(d) /\ i + a - Len(d) \in 1..Len(nd)
           /\ e[a] = nd[i + a - Len(d)]
  <2>1. CASE i = 0
    BY <1>3, <2>1 DEF Above
  <2>2. CASE i # 0
    <3>1. i + a - Len(d) # 1
      BY <1>1, <1>3, <2>2
    <3> QED
      BY <1>3, <2>2, <3>1 DEF StartsOnce
  <2> QED
    BY <2>1, <2>2
<1> QED
  BY <1>2, <1>3, JoinedAt

LEMMA RisingJoined ==
    ASSUME NEW d \in Seq(Octet), NEW nd \in Seq(Octet), NEW i \in Nat, NEW n \in Nat, NEW e,
           i + n <= Len(nd), Joins(d, nd, i, n, e), Rising(d), Rising(nd),
           i # 0 => StartsOnce(nd),
           i = 0 => \A a \in 1..Len(d) : d[a].k = 0 => Above(d[a].pkt.id, nd, 1)
    PROVE  Rising(e)
<1>1. Len(d) \in Nat /\ Len(nd) \in Nat /\ e \in Seq(Octet) /\ Len(e) = Len(d) + n
  BY DEF Joins
<1>2. \A b \in 1..Len(e) : \/ b \in 1..Len(d) /\ e[b] = d[b]
                           \/ /\ b > Len(d) /\ i + b - Len(d) \in 1..Len(nd)
                              /\ e[b] = nd[i + b - Len(d)]
  BY JoinedAt
<1> SUFFICES ASSUME NEW a \in 1..Len(e), e[a].k = 0,
                    NEW j \in a + 1..Len(e), e[j].k = 0, e[j].pkt.id # 0
             PROVE  e[a].pkt.id < e[j].pkt.id
  BY DEF Rising, Above
<1>3. j \in 1..Len(e) /\ a \in Nat /\ j \in Nat /\ a < j
  BY <1>1
<1>4. CASE a \in 1..Len(d) /\ e[a] = d[a] /\ j \in 1..Len(d) /\ e[j] = d[j]
  <2>1. j \in a + 1..Len(d)
    BY <1>1, <1>3, <1>4
  <2> QED
    BY <1>4, <2>1 DEF Rising, Above
<1>5. CASE /\ j > Len(d) /\ i + j - Len(d) \in 1..Len(nd)
           /\ e[j] = nd[i + j - Len(d)]
  <2>1. i = 0
    <3>1. SUFFICES ASSUME i # 0 PROVE FALSE
      OBVIOUS
    <3>2. i + j - Len(d) # 1
      BY <1>1, <1>3, <1>5, <3>1
    <3> QED
      BY <1>5, <3>1, <3>2 DEF StartsOnce
  <2> DEFINE y == j - Len(d)
             x == a - Len(d)
  <2>2. y \in 1..Len(nd) /\ e[j] = nd[y]
    BY <1>1, <1>3, <1>5, <2>1
  <2>3. CASE a \in 1..Len(d) /\ e[a] = d[a]
    <3>1. Above(d[a].pkt.id, nd, 1)
      BY <2>1, <2>3
    <3> QED
      BY <2>2, <2>3, <3>1 DEF Above
  <2>4. CASE a > Len(d) /\ i + a - Len(d) \in 1..Len(nd) /\ e[a] = nd[i + a - Len(d)]
    <3>1. x \in 1..Len(nd) /\ e[a] = nd[x] /\ y \in x + 1..Len(nd)
      BY <1>1, <1>3, <2>1, <2>2, <2>4
    <3> HIDE DEF x, y
    <3> QED
      BY <2>2, <3>1 DEF Rising, Above
  <2> QED
    BY <1>2, <2>3, <2>4
<1>6. a \in 1..Len(d) \/ j > Len(d)
  BY <1>1, <1>3
<1> QED
  BY <1>1, <1>2, <1>3, <1>4, <1>5

-----------------------------------------------------------------------------
\* The generator's steps keep the order: and whatever was before all that is on its way stays so.
DownKept == \A a \in Nat, x \in Nat : a <= Len(wire) /\ Down(a, x) => a <= Len(wire') /\ Down(a, x)'
ComingKept == \A x \in Nat : Coming(x) => Coming(x)'

LEMMA SameFrames ==
    ASSUME Inv, InvData, InvOrder, frame' = frame, wire' = wire, ComingKept
    PROVE  OrderFrame' /\ OrderWire' /\ DownKept
<1>1. \A a \in Nat, x \in Nat : a <= Len(wire) /\ Down(a, x) => a <= Len(wire') /\ Down(a, x)'
  BY DEF Down, ComingKept
<1>2. OrderFrame'
  <2>1. frame # NoFrame => frame.data \in Seq(Octet)
    BY DEF InvData, DataFrame, Unit, Good
  <2>2. ASSUME frame # NoFrame, NEW i \in 1..Len(frame.data), frame.data[i].k = 0
        PROVE  \A x : x = frame.data[i].pkt.id => Coming(x)'
    <3> SUFFICES ASSUME NEW x, x = frame.data[i].pkt.id PROVE Coming(x)'
      OBVIOUS
    <3>1. x \in Nat
      BY <2>1, <2>2, OctetsIn
    <3>2. Coming(x)
      BY <2>2 DEF InvOrder, OrderFrame
    <3> QED
      BY <3>1, <3>2 DEF ComingKept
  <2> QED
    BY <2>2 DEF InvOrder, OrderFrame
<1>3. OrderWire'
  <2>1. wire \in Seq(Frame) /\ Len(wire) \in Nat
    BY DEF Inv, InvTypes
  <2>2. ASSUME NEW a \in 1..Len(wire), NEW i \in 1..Len(wire[a].data), wire[a].data[i].k = 0
        PROVE  \A x : x = wire[a].data[i].pkt.id => Down(a, x)'
    <3> SUFFICES ASSUME NEW x, x = wire[a].data[i].pkt.id PROVE Down(a, x)'
      OBVIOUS
    <3>1. wire[a].data \in Seq(Octet)
      BY DEF InvData, DataWire, Good
    <3>2. x \in Nat /\ a \in Nat /\ a <= Len(wire)
      BY <2>1, <3>1, OctetsIn
    <3>3. Down(a, x)
      BY <2>2 DEF InvOrder, OrderWire
    <3> QED
      BY <1>1, <3>2, <3>3
  <2> QED
    BY <2>2 DEF InvOrder, OrderWire
<1> QED
  BY <1>1, <1>2, <1>3 DEF DownKept

LEMMA ArriveOrder == Inv /\ InvData /\ InvOrder /\ Arrive => InvOrder' /\ DownKept
<1> SUFFICES ASSUME Inv, InvData, InvOrder, Arrive PROVE InvOrder' /\ DownKept
  OBVIOUS
<1>1. PICK s \in Shapes :
         /\ sent' = Append(sent, Numbered(s))
         /\ msg_queue' = Append(msg_queue, OctetsOf(Numbered(s)))
         /\ UNCHANGED <<phase, netdata, netdataIdx, frame, wire>>
  BY DEF Arrive
<1>2. msg_queue \in Seq(Seq(Octet)) /\ sent \in Seq(Packet)
  BY DEF Inv, InvTypes
<1> DEFINE p == Numbered(s)
<1>3. p \in Packet /\ OctetsOf(p) \in Seq(Octet)
  BY <1>2, NewPacket, OctetsOfStarts
<1> HIDE DEF p
<1>4. /\ Len(sent) \in Nat /\ Len(sent') = Len(sent) + 1
      /\ \A i \in 1..Len(sent) : sent'[i] = sent[i]
      /\ sent'[Len(sent) + 1] = p
  BY <1>1, <1>2, <1>3, Appended DEF p
<1>5. /\ Len(msg_queue) \in Nat /\ Len(msg_queue') = Len(msg_queue) + 1
      /\ \A i \in 1..Len(msg_queue) : msg_queue'[i] = msg_queue[i]
      /\ msg_queue'[Len(msg_queue) + 1] = OctetsOf(p)
  BY <1>1, <1>2, <1>3, Appended DEF p
<1>6. /\ Len(msg_queue) <= Len(sent)
      /\ \A i \in 1..Len(msg_queue) : msg_queue[i] = OctetsOf(sent[Begun + i])
  BY DEF InvOrder, OrderQueue
<1>7. Begun' = Begun
  BY <1>4, <1>5 DEF Begun
<1>8. OrderQueue'
  <2>1. Len(msg_queue') <= Len(sent')
    BY <1>4, <1>5, <1>6
  <2>2. ASSUME NEW i \in 1..Len(msg_queue')
        PROVE  msg_queue'[i] = OctetsOf(sent'[Begun' + i])
    <3>1. CASE i \in 1..Len(msg_queue)
      <4>1. Begun + i \in 1..Len(sent)
        BY <1>4, <1>5, <1>6, <3>1 DEF Begun
      <4> QED
        BY <1>4, <1>5, <1>6, <1>7, <3>1, <4>1
    <3>2. CASE i = Len(msg_queue) + 1
      <4>1. Begun + i = Len(sent) + 1
        BY <1>4, <1>5, <3>2 DEF Begun
      <4> QED
        BY <1>4, <1>5, <1>7, <3>2, <4>1
    <3> QED
      BY <1>5, <3>1, <3>2
  <2> QED
    BY <2>1, <2>2 DEF OrderQueue
<1>9. ComingKept
  BY <1>1, <1>7 DEF Coming, ComingKept
<1>10. OrderUnit'
  BY <1>1, <1>7 DEF InvOrder, OrderUnit
<1> QED
  BY <1>1, <1>8, <1>9, <1>10, SameFrames DEF InvOrder

LEMMA GetDataOrder == Inv /\ InvData /\ InvOrder /\ GetData => InvOrder' /\ DownKept
<1> SUFFICES ASSUME Inv, InvData, InvOrder, GetData PROVE InvOrder' /\ DownKept
  OBVIOUS
<1>1. /\ msg_queue # <<>> /\ netdata' = Head(msg_queue) /\ msg_queue' = Tail(msg_queue)
      /\ netdataIdx' = 0 /\ phase = "get" /\ UNCHANGED <<sent, frame, wire>>
  BY DEF GetData
<1>2. msg_queue \in Seq(Seq(Octet)) /\ sent \in Seq(Packet) /\ Len(sent) \in Nat
  BY DEF Inv, InvTypes
<1>3. /\ Len(msg_queue) \in Nat \ {0} /\ Len(msg_queue') = Len(msg_queue) - 1
      /\ netdata' = msg_queue[1]
      /\ \A i \in 1..Len(msg_queue) - 1 : msg_queue'[i] = msg_queue[i + 1]
  BY <1>1, <1>2, HeadTail
<1>4. /\ Len(msg_queue) <= Len(sent)
      /\ \A i \in 1..Len(msg_queue) : msg_queue[i] = OctetsOf(sent[Begun + i])
  BY DEF InvOrder, OrderQueue
<1>5. Begun' = Begun + 1 /\ Begun \in Nat /\ Begun' \in 1..Len(sent)
  BY <1>1, <1>2, <1>3, <1>4 DEF Begun
<1> DEFINE p == sent[Begun']
<1>6. p \in Packet /\ p.id = Begun' /\ netdata' = OctetsOf(p)
  <2>1. netdata' = OctetsOf(sent[Begun + 1])
    BY <1>3, <1>4
  <2> QED
    BY <1>2, <1>5, <2>1 DEF InvData, DataSent
<1> HIDE DEF p
<1>7. /\ Rising(netdata') /\ \A i \in 1..Len(netdata') : netdata'[i].pkt = p
      /\ \A x : x < p.id => Above(x, netdata', 1)
  BY <1>6, OnePacket
<1>8. OrderQueue'
  <2>1. Len(msg_queue') <= Len(sent')
    BY <1>1, <1>2, <1>3, <1>4
  <2>2. ASSUME NEW i \in 1..Len(msg_queue')
        PROVE  msg_queue'[i] = OctetsOf(sent'[Begun' + i])
    <3>1. i + 1 \in 1..Len(msg_queue) /\ Begun + (i + 1) = Begun' + i
      BY <1>3, <1>5
    <3>2. msg_queue'[i] = msg_queue[i + 1]
      BY <1>3
    <3> QED
      BY <1>1, <1>4, <3>1, <3>2
  <2> QED
    BY <2>1, <2>2 DEF OrderQueue
<1>9. OrderUnit'
  BY <1>1, <1>5, <1>6, <1>7 DEF OrderUnit
<1>10. ComingKept
  BY <1>5, <1>6, <1>7 DEF Coming, ComingKept
<1> QED
  BY <1>1, <1>8, <1>9, <1>10, SameFrames DEF InvOrder

LEMMA RawRises ==
    ASSUME NEW n \in Nat \ {0}
    PROVE  Rising(RawFill(n)) /\ \A i \in 1..Len(RawFill(n)) : RawFill(n)[i].pkt.id = 0
<1> DEFINE d == RawFill(n)
<1>1. d \in Seq(Octet) /\ Len(d) = n
  BY RawFillStarts
<1>2. \A i \in 1..Len(d) : d[i].pkt.id = 0
  BY <1>1 DEF RawFill, FillPacket
<1> HIDE DEF d
<1>3. Rising(d)
  BY <1>1, <1>2 DEF Rising, Above
<1> QED
  BY <1>2, <1>3 DEF d

\* Fill is no packet that was sent.
LEMMA FillRises ==
    ASSUME FrameAssumption, NEW n \in 1..DataFieldLen
    PROVE  Rising(Fill(n)) /\ \A i \in 1..Len(Fill(n)) : Fill(n)[i].pkt.id = 0
<1>1. DataFieldLen \in Nat /\ n \in Nat \ {0}
  BY DEF FrameAssumption
<1>2. CASE DataFieldLen < 14
  BY <1>1, <1>2, RawRises DEF Fill
<1>3. CASE ~(DataFieldLen < 14)
  <2>1. PICK m \in Nat \ {0} : Fill(n) = IdlePacket(m)
    BY <1>1, <1>3 DEF Fill
  <2> DEFINE p == [id |-> 0, pvn |-> pvnSpacePacket, hdr |-> 6, len |-> m]
  <2>3. p \in Packet /\ p.id = 0 /\ Fill(n) = OctetsOf(p)
    BY <2>1 DEF Packet, PVNs, pvnSpacePacket, IdlePacket
  <2> HIDE DEF p
  <2> QED
    BY <2>3, OnePacket
<1> QED
  BY <1>2, <1>3

LEMMA TopUpOrder == Inv /\ InvData /\ InvOrder /\ TopUp => InvOrder' /\ DownKept
<1> SUFFICES ASSUME Inv, InvData, InvOrder, TopUp PROVE InvOrder' /\ DownKept
  OBVIOUS
<1>1. /\ phase = "last" /\ netdata' = Fill(DataFieldLen - Len(frame.data)) /\ netdataIdx' = 0
      /\ UNCHANGED <<msg_queue, sent, frame, wire>>
  BY DEF TopUp
<1>2. frame # NoFrame /\ Len(frame.data) \in 1..DataFieldLen - 1 /\ DataFieldLen \in Nat
  BY <1>1, FrameAssumption DEF Inv, InvFrame, FrameAssumption
<1>3. DataFieldLen - Len(frame.data) \in 1..DataFieldLen
  BY <1>2
<1>4. Rising(netdata') /\ \A i \in 1..Len(netdata') : netdata'[i].pkt.id = 0
  BY <1>1, <1>3, FillRises, FrameAssumption
<1>5. Begun' = Begun /\ Begun \in Nat
  BY <1>1, BegunNat DEF Begun, InvOrder
<1>6. OrderQueue'
  BY <1>1, <1>5 DEF InvOrder, OrderQueue
<1>7. OrderUnit'
  BY <1>1, <1>4, <1>5 DEF OrderUnit
<1>8. ComingKept
  BY <1>4, <1>5 DEF ComingKept, Coming, Above
<1> QED
  BY <1>1, <1>6, <1>7, <1>8, SameFrames DEF InvOrder

LEMMA WaitOrder ==
    Inv /\ InvData /\ InvOrder /\ (Wait \/ SetLink \/ UNCHANGED genvars) => InvOrder' /\ DownKept
<1> SUFFICES ASSUME Inv, InvData, InvOrder, Wait \/ SetLink \/ UNCHANGED genvars
             PROVE  InvOrder' /\ DownKept
  OBVIOUS
<1>1. /\ UNCHANGED <<msg_queue, sent, netdata, netdataIdx, frame, wire>>
      /\ phase' = "copy" => phase = "copy"
  BY DEF Wait, SetLink, genvars
<1>2. Begun' = Begun
  BY <1>1 DEF Begun
<1>3. OrderQueue' /\ OrderUnit'
  BY <1>1, <1>2 DEF InvOrder, OrderQueue, OrderUnit
<1>4. ComingKept
  BY <1>1, <1>2 DEF ComingKept, Coming
<1> QED
  BY <1>1, <1>3, <1>4, SameFrames DEF InvOrder

\* The packets in what is copied, and those in the frame after it.
LEMMA PassOrder ==
    ASSUME Inv, InvData, InvOrder, phase = "copy", NEW f, NEW n, NEW g, AtHand(f), Pass(f, n, g)
    PROVE  /\ Rising(g.data)
           /\ \A j \in 1..Len(g.data) : g.data[j].k = 0 => g.data[j].pkt.id <= Begun
           /\ \A x : Coming(x) /\ (frame # NoFrame => Above(x, frame.data, 1))
                        => Above(x, g.data, 1)
<1>1. /\ Unit(sent, netdata) /\ Good(sent, f.data)
      /\ n \in Nat \ {0} /\ netdataIdx \in Nat /\ netdataIdx + n <= Len(netdata)
      /\ Joins(f.data, netdata, netdataIdx, n, g.data)
  BY PassData
<1>2. netdata \in Seq(Octet) /\ f.data \in Seq(Octet) /\ n \in Nat
  BY <1>1 DEF Unit, Good
<1>3. /\ Rising(netdata)
      /\ netdataIdx # 0 => StartsOnce(netdata)
      /\ \A j \in 1..Len(netdata) : netdata[j].k = 0 => netdata[j].pkt.id <= Begun
  BY DEF InvOrder, OrderUnit
<1>4. /\ Rising(f.data)
      /\ \A j \in 1..Len(f.data) : f.data[j].k = 0 => Coming(f.data[j].pkt.id)
      /\ \A x : (frame # NoFrame => Above(x, frame.data, 1)) => Above(x, f.data, 1)
  <2>1. CASE frame = NoFrame
    <3>1. f.data = <<>>
      BY <2>1 DEF AtHand, NewFrame
    <3>2. Len(f.data) = 0
      BY <3>1
    <3> QED
      BY <1>2, <3>2 DEF Rising, Above
  <2>2. CASE frame # NoFrame
    <3>1. f = frame
      BY <2>2 DEF AtHand
    <3> QED
      BY <2>2, <3>1 DEF InvOrder, OrderFrame
  <2> QED
    BY <2>1, <2>2
<1>5. Rising(g.data)
  <2>1. netdataIdx = 0 => \A j \in 1..Len(f.data) : f.data[j].k = 0
                             => Above(f.data[j].pkt.id, netdata, 1)
    BY <1>4 DEF Coming
  <2>2. Rising(f.data) /\ Rising(netdata) /\ (netdataIdx # 0 => StartsOnce(netdata))
    BY <1>3, <1>4
  <2>3. /\ n \in Nat /\ netdataIdx \in Nat /\ netdataIdx + n <= Len(netdata)
        /\ Joins(f.data, netdata, netdataIdx, n, g.data)
    BY <1>1, <1>2
  <2> QED
    BY ONLY <1>2, <2>1, <2>2, <2>3, RisingJoined
<1>6. ASSUME NEW x, Coming(x), frame # NoFrame => Above(x, frame.data, 1)
      PROVE  Above(x, g.data, 1)
  <2>1. Above(x, f.data, 1)
    BY <1>4, <1>6
  <2>2. netdataIdx = 0 => Above(x, netdata, 1)
    BY <1>6 DEF Coming
  <2>3. IF netdataIdx = 0 THEN Above(x, netdata, 1) ELSE StartsOnce(netdata)
    BY <1>3, <2>2
  <2>4. /\ n \in Nat /\ netdataIdx \in Nat /\ netdataIdx + n <= Len(netdata)
        /\ Joins(f.data, netdata, netdataIdx, n, g.data)
    BY <1>1, <1>2
  <2> QED
    BY ONLY <1>2, <2>1, <2>3, <2>4, AboveJoined
<1>7. ASSUME NEW j \in 1..Len(g.data), g.data[j].k = 0
      PROVE  g.data[j].pkt.id <= Begun
  <2>1. \/ j \in 1..Len(f.data) /\ g.data[j] = f.data[j]
        \/ /\ j > Len(f.data) /\ netdataIdx + j - Len(f.data) \in 1..Len(netdata)
           /\ g.data[j] = netdata[netdataIdx + j - Len(f.data)]
    <3>1. PICK d, e, nd, i : d = f.data /\ e = g.data /\ nd = netdata /\ i = netdataIdx
      OBVIOUS
    <3>2. /\ d \in Seq(Octet) /\ nd \in Seq(Octet) /\ i \in Nat /\ n \in Nat /\ i + n <= Len(nd)
          /\ Joins(d, nd, i, n, e) /\ j \in 1..Len(e)
      BY <1>1, <1>2, <3>1
    <3>3. \/ j \in 1..Len(d) /\ e[j] = d[j]
          \/ j > Len(d) /\ i + j - Len(d) \in 1..Len(nd) /\ e[j] = nd[i + j - Len(d)]
      BY ONLY <3>2, JoinedAt
    <3> QED
      BY <3>1, <3>3
  <2> QED
    BY <1>3, <1>4, <1>7, <2>1 DEF Coming
<1> QED
  BY <1>5, <1>6, <1>7

\* A frame joins the wire.
LEMMA DownSent ==
    ASSUME wire \in Seq(Frame), NEW g \in Frame, wire' = Append(wire, g), frame' = NoFrame,
           NEW a \in Nat, a <= Len(wire), NEW x, Down(a, x), Above(x, g.data, 1), Coming(x)'
    PROVE  a <= Len(wire') /\ Down(a, x)'
<1>1. /\ Len(wire) \in Nat /\ Len(wire') = Len(wire) + 1
      /\ \A i \in 1..Len(wire) : wire'[i] = wire[i]
      /\ wire'[Len(wire) + 1] = g
  BY Appended
<1>2. ASSUME NEW c \in 1..Len(wire'), a < c PROVE Above(x, wire'[c].data, 1)
  <2>1. CASE c \in 1..Len(wire)
    BY <1>1, <1>2, <2>1 DEF Down
  <2>2. CASE c = Len(wire) + 1
    BY <1>1, <2>2
  <2> QED
    BY <1>1, <2>1, <2>2
<1>3. \A c \in 1..Len(wire') : a < c => Above(x, wire'[c].data, 1)
  BY <1>2
<1> QED
  BY <1>1, <1>3 DEF Down

LEMMA CopyOrder == Inv /\ InvData /\ InvOrder /\ Copy => InvOrder' /\ DownKept
<1> SUFFICES ASSUME Inv, InvData, InvOrder, Copy PROVE InvOrder' /\ DownKept
  OBVIOUS
<1>1. PICK f, n, g : phase = "copy" /\ AtHand(f) /\ Pass(f, n, g)
  BY CopyPasses
<1>2. /\ IF Len(g.data) = DataFieldLen THEN Send(g) ELSE UNCHANGED <<wire, currentFrameNumber>>
      /\ frame' = IF Len(g.data) = DataFieldLen THEN NoFrame ELSE g
      /\ netdata' = IF netdataIdx + n = Len(netdata) THEN <<>> ELSE netdata
      /\ netdataIdx' = IF netdataIdx + n = Len(netdata) THEN 0 ELSE netdataIdx + n
      /\ phase' = IF netdataIdx + n # Len(netdata) THEN "copy"
                  ELSE IF Len(g.data) = DataFieldLen THEN "get" ELSE "last"
      /\ UNCHANGED <<msg_queue, sent>>
      /\ Ready(f)
  BY <1>1 DEF Pass, Passed
<1>3. g \in Frame /\ wire \in Seq(Frame) /\ Len(wire) \in Nat
  BY <1>1 DEF Pass, Outcome, Inv, InvTypes
<1>4. /\ Rising(g.data)
      /\ \A j \in 1..Len(g.data) : g.data[j].k = 0 => g.data[j].pkt.id <= Begun
      /\ \A x : Coming(x) /\ (frame # NoFrame => Above(x, frame.data, 1))
                  => Above(x, g.data, 1)
  BY <1>1, PassOrder
<1>5. Begun' = Begun /\ n \in Nat \ {0} /\ netdataIdx \in Nat
  BY <1>1, <1>2, PassData DEF Begun
<1>6. OrderQueue'
  BY <1>2, <1>5 DEF InvOrder, OrderQueue
<1>7. phase' = "copy" => netdata' = netdata /\ netdataIdx' # 0 /\ netdataIdx + n # Len(netdata)
  BY <1>2, <1>5
<1>8. OrderUnit'
  <2>1. phase' = "copy" => StartsOnce(netdata)
    <3>1. SUFFICES ASSUME phase' = "copy", netdataIdx = 0,
                          Len(netdata) = DataFieldLen - Len(f.data)
                   PROVE  FALSE
      BY <1>2 DEF InvOrder, OrderUnit, Ready
    <3>2. Len(g.data) # DataFieldLen => netdataIdx + n = Len(netdata)
      BY <1>1, PassData
    <3>3. Len(g.data) = Len(f.data) + n /\ f.data \in Seq(Octet) /\ netdata \in Seq(Octet)
      BY <1>1, PassData DEF Joins, Good, Unit
    <3>4. Len(f.data) \in Nat /\ Len(netdata) \in Nat /\ DataFieldLen \in Nat
      BY <3>3, FrameAssumption DEF FrameAssumption
    <3> QED
      BY ONLY <1>5, <1>7, <3>1, <3>2, <3>3, <3>4
  <2> QED
    BY <1>1, <1>5, <1>7, <2>1 DEF InvOrder, OrderUnit
<1>9. \A x : Coming(x)' <=> x <= Begun
  BY <1>5, <1>7 DEF Coming
<1>10. \A j \in 1..Len(g.data) : \A x : x = g.data[j].pkt.id /\ g.data[j].k = 0 => Coming(x)'
  BY <1>4, <1>9
<1>11. OrderFrame'
  BY <1>2, <1>4, <1>10 DEF OrderFrame
<1>12. ASSUME NEW a \in Nat, NEW x \in Nat, a <= Len(wire), Down(a, x)
       PROVE  a <= Len(wire') /\ Down(a, x)'
  <2>1. Coming(x)' /\ Above(x, g.data, 1)
    BY <1>4, <1>9, <1>12 DEF Down, Coming
  <2>2. CASE wire' = wire /\ (frame' = NoFrame \/ frame' = g)
    BY <1>12, <2>1, <2>2 DEF Down
  <2>3. CASE wire' = Append(wire, g) /\ frame' = NoFrame
    BY <1>3, <1>12, <2>1, <2>3, DownSent
  <2> QED
    BY <1>2, <2>2, <2>3 DEF Send
<1>13. DownKept
  BY <1>12 DEF DownKept
<1>14. OrderWire'
  <2>1. ASSUME NEW a \in 1..Len(wire), NEW i \in 1..Len(wire[a].data), wire[a].data[i].k = 0
        PROVE  \A x : x = wire[a].data[i].pkt.id => Down(a, x)'
    <3> SUFFICES ASSUME NEW x, x = wire[a].data[i].pkt.id PROVE Down(a, x)'
      OBVIOUS
    <3>1. wire[a].data \in Seq(Octet)
      BY DEF InvData, DataWire, Good
    <3>2. x \in Nat /\ a \in Nat /\ a <= Len(wire)
      BY <1>3, <3>1, OctetsIn
    <3>3. Down(a, x)
      BY <2>1 DEF InvOrder, OrderWire
    <3> QED
      BY <1>12, <3>2, <3>3
  <2>2. \A a \in 1..Len(wire) : Rising(wire[a].data)
    BY DEF InvOrder, OrderWire
  <2>3. CASE wire' = wire
    BY <2>1, <2>2, <2>3 DEF OrderWire
  <2>4. CASE wire' = Append(wire, g) /\ frame' = NoFrame
    <3>1. /\ Len(wire') = Len(wire) + 1
          /\ \A i \in 1..Len(wire) : wire'[i] = wire[i]
          /\ wire'[Len(wire) + 1] = g
      BY <1>3, <2>4, Appended
    <3>2. ASSUME NEW a, a = Len(wire) + 1, NEW x, Coming(x)' PROVE Down(a, x)'
      BY <1>3, <2>4, <3>1, <3>2 DEF Down
    <3>3. ASSUME NEW a \in 1..Len(wire')
          PROVE  /\ Rising(wire'[a].data)
                 /\ \A i \in 1..Len(wire'[a].data) : wire'[a].data[i].k = 0
                       => \A x : x = wire'[a].data[i].pkt.id => Down(a, x)'
      <4>1. CASE a \in 1..Len(wire)
        BY <2>1, <2>2, <3>1, <4>1
      <4>2. CASE a = Len(wire) + 1
        <5>1. wire'[a] = g
          BY <3>1, <4>2
        <5>2. \A i \in 1..Len(g.data) : g.data[i].k = 0
                 => \A x : x = g.data[i].pkt.id => Down(a, x)'
          <6> SUFFICES ASSUME NEW i \in 1..Len(g.data), g.data[i].k = 0,
                              NEW x, x = g.data[i].pkt.id
                       PROVE  Down(a, x)'
            OBVIOUS
          <6>1. Coming(x)'
            BY <1>10
          <6> QED
            BY <3>2, <4>2, <6>1
        <5> QED
          BY <1>4, <5>1, <5>2
      <4> QED
        BY <1>3, <3>1, <4>1, <4>2
    <3> QED
      BY <3>3 DEF OrderWire
  <2> QED
    BY <1>2, <2>3, <2>4 DEF Send
<1> QED
  BY <1>6, <1>8, <1>11, <1>13, <1>14 DEF InvOrder

LEMMA GenOrder ==
    Inv /\ InvData /\ InvOrder /\ [GenNext]_genvars => InvOrder' /\ DownKept
  BY ArriveOrder, GetDataOrder, CopyOrder, TopUpOrder, WaitOrder DEF GenNext, GenStep

-----------------------------------------------------------------------------
(* Frames go on where the last one left off: which number the next frame   *)
(* that is not idle has, and what its octets are.                          *)

\* The next octets to go into a frame go on where the octet o left off.
GenAfter(o) == IF frame # NoFrame THEN GoesOn(o, frame.data, 1)
               ELSE IF phase = "copy" THEN GoesOn(o, netdata, netdataIdx + 1)
               ELSE o.k + 1 = o.pkt.len

Busy(i) == wire[i].fhp # OnlyIdleData
NextBusy(i, a) == /\ a \in 1..Len(wire) /\ i < a /\ Busy(a)
                  /\ \A c \in 1..Len(wire) : i < c /\ c < a => ~Busy(c)
NoneBusy(i) == \A c \in 1..Len(wire) : i < c => ~Busy(c)

\* The frame after the first i on the wire has the number n and, if that is known, goes on
\* where o left off.
Follows(i, n, o, known) ==
    /\ \A a \in 1..Len(wire) : NextBusy(i, a) =>
           wire[a].num = n /\ (known => GoesOn(o, wire[a].data, 1))
    /\ NoneBusy(i) => currentFrameNumber = n /\ (known => GenAfter(o))

\* What has been sent off is followed by what comes next.
Last(d) == d[Len(d)]
FlowWire == \A i \in 1..Len(wire) : Busy(i) =>
                Follows(i, IncFrameNumber(wire[i].num), Last(wire[i].data), TRUE)
FlowFrame == frame # NoFrame => frame.num = currentFrameNumber /\ frame.ok = TRUE
\* Only the frame at the head of the wire may be spoilt.
FlowOk == \A i \in 1..Len(wire) : i > 1 => wire[i].ok = TRUE
Flow == linked = TRUE /\ unplugs = 0 /\ FlowFrame /\ FlowOk /\ FlowWire

\* Octets that go on behind another, in a part of what follows it.
LEMMA GoesOnPart ==
    ASSUME NEW o \in Octet, NEW nd \in Seq(Octet), NEW i \in Nat, NEW n \in Nat, NEW e,
           NEW d, Len(d) = 0, i + n <= Len(nd), Joins(d, nd, i, n, e), GoesOn(o, nd, i + 1)
    PROVE  GoesOn(o, e, 1)
<1>1. e \in Seq(Octet) /\ Len(e) = n /\ \A j \in 1..n : e[j] = nd[i + j]
  BY DEF Joins
<1>2. o.k \in Nat /\ o.pkt.len \in Nat /\ Len(nd) \in Nat
  BY OctetFields
<1> SUFFICES ASSUME NEW j \in 1..Len(e)
             PROVE  /\ o.k + 1 + j - 1 < o.pkt.len
                          => e[j] = [pkt |-> o.pkt, k |-> o.k + 1 + j - 1]
                    /\ o.k + 1 + j - 1 = o.pkt.len => e[j].k = 0
  BY DEF GoesOn
<1> DEFINE m == i + j
<1>3. m \in i + 1..Len(nd) /\ o.k + 1 + m - (i + 1) = o.k + 1 + j - 1 /\ e[j] = nd[m]
  BY <1>1, <1>2
<1> HIDE DEF m
<1>4. /\ o.k + 1 + m - (i + 1) < o.pkt.len => nd[m] = [pkt |-> o.pkt, k |-> o.k + 1 + m - (i + 1)]
      /\ o.k + 1 + m - (i + 1) = o.pkt.len => nd[m].k = 0
  BY <1>3 DEF GoesOn
<1> QED
  BY <1>3, <1>4

\* A frame in which the packet begun before ends goes on the same when it gets more.
LEMMA GoesOnMore ==
    ASSUME NEW o \in Octet, NEW d \in Seq(Octet), Len(d) > 0, Closed(d), GoesOn(o, d, 1),
           NEW nd \in Seq(Octet), NEW n \in Nat \ {0}, NEW i, i = 0, n <= Len(nd),
           NEW e, Joins(d, nd, i, n, e), nd[1].k = 0
    PROVE  GoesOn(o, e, 1)
<1>1. e \in Seq(Octet) /\ Len(e) = Len(d) + n /\ Len(d) \in Nat \ {0}
      /\ (\A j \in 1..Len(d) : e[j] = d[j])
      /\ e[Len(d) + 1] = nd[1]
  BY DEF Joins
<1>2. o.k \in Nat /\ o.pkt.len \in Nat
  BY OctetFields
<1>3. o.pkt.len <= o.k + 1 + Len(d)
  <2>1. CASE o.k + 1 < o.pkt.len
    <3>1. d[1] = [pkt |-> o.pkt, k |-> o.k + 1]
      <4>1. 1 \in 1..Len(d) /\ o.k + 1 + 1 - 1 = o.k + 1
        BY <1>1, <1>2
      <4> QED
        BY <2>1, <4>1 DEF GoesOn
    <3>2. d[1].pkt.len - d[1].k - 1 <= Len(d) - 1
      BY <1>1 DEF Closed
    <3> QED
      BY <1>1, <1>2, <3>1, <3>2
  <2> QED
    BY <1>1, <1>2, <2>1
<1> SUFFICES ASSUME NEW j \in 1..Len(e)
             PROVE  /\ o.k + 1 + j - 1 < o.pkt.len
                          => e[j] = [pkt |-> o.pkt, k |-> o.k + 1 + j - 1]
                    /\ o.k + 1 + j - 1 = o.pkt.len => e[j].k = 0
  BY DEF GoesOn
<1>4. CASE j \in 1..Len(d)
  <2>1. /\ o.k + 1 + j - 1 < o.pkt.len => d[j] = [pkt |-> o.pkt, k |-> o.k + 1 + j - 1]
        /\ o.k + 1 + j - 1 = o.pkt.len => d[j].k = 0
    BY <1>4 DEF GoesOn
  <2> QED
    BY <1>1, <1>4, <2>1
<1>5. CASE j = Len(d) + 1
  <2>1. ~(o.k + 1 + j - 1 < o.pkt.len)
    BY <1>1, <1>2, <1>3, <1>5
  <2> QED
    BY <1>1, <1>5, <2>1
<1>6. CASE j > Len(d) + 1
  BY <1>1, <1>2, <1>3, <1>6
<1> QED
  BY <1>1, <1>4, <1>5, <1>6

\* The last octet of a frame, and what comes next.
LEMMA LastGoesOn ==
    ASSUME NEW s, NEW d \in Seq(Octet), NEW nd, NEW i \in Nat, NEW n \in Nat \ {0}, NEW e,
           Good(s, nd), i + n <= Len(nd), Joins(d, nd, i, n, e)
    PROVE  Last(e) \in Octet /\ GoesOn(Last(e), nd, i + n + 1)
<1>1. Len(e) = Len(d) + n /\ e[Len(d) + n] = nd[i + n] /\ Len(d) \in Nat /\ n \in 1..n
  BY DEF Joins
<1>2. i + n \in 1..Len(nd) /\ nd \in Seq(Octet)
  BY DEF Good
<1>3. Last(e) = nd[i + n]
  BY <1>1 DEF Last
<1>4. GoesOn(nd[i + n], nd, (i + n) + 1)
  BY <1>2 DEF Good, Runs
<1> QED
  BY <1>2, <1>3, <1>4

LEMMA LastCloses ==
    ASSUME NEW s, NEW d, Good(s, d), Closed(d), Len(d) > 0
    PROVE  Last(d) \in Octet /\ Last(d).k + 1 = Last(d).pkt.len
<1>1. d \in Seq(Octet) /\ Len(d) \in 1..Len(d) /\ Len(d) \in Nat
  BY DEF Good
<1>2. Last(d) \in Octet /\ Last(d).k < Last(d).pkt.len
  BY <1>1 DEF Good, Own, Last
<1>3. Last(d).pkt.len - Last(d).k - 1 <= 0
  BY <1>1 DEF Closed, Last
<1>4. Last(d).k \in Nat /\ Last(d).pkt.len \in Nat
  BY <1>2, OctetFields
<1> QED
  BY ONLY <1>2, <1>3, <1>4

\* What followed before a step follows after it.
FollowsKept == \A n, o : \A i \in Nat : \A known \in BOOLEAN :
    i <= Len(wire) /\ (known => o \in Octet) /\ Follows(i, n, o, known)
        => i <= Len(wire') /\ Follows(i, n, o, known)'

LEMMA LastOctet ==
    ASSUME Inv, InvData, NEW i \in 1..Len(wire), Busy(i)
    PROVE  Last(wire[i].data) \in Octet
<1>1. wire[i].data \in Seq(Octet) /\ Len(wire[i].data) = DataFieldLen /\ DataFieldLen \in Nat \ {0}
  BY FrameAssumption DEF Inv, InvWire, InvData, DataWire, Good, Right, Busy, FrameAssumption
<1> QED
  BY <1>1 DEF Last

\* Steps that put no frame on the wire.
LEMMA QuietFollows ==
    ASSUME UNCHANGED <<wire, currentFrameNumber>>, \A o \in Octet : GenAfter(o) => GenAfter(o)'
    PROVE  FollowsKept
<1> SUFFICES ASSUME NEW i \in Nat, NEW n, NEW o, NEW known \in BOOLEAN, i <= Len(wire),
                    known => o \in Octet, Follows(i, n, o, known)
             PROVE  Follows(i, n, o, known)'
  BY DEF FollowsKept
<1>1. \A a : NextBusy(i, a)' <=> NextBusy(i, a)
  BY DEF NextBusy, Busy
<1>2. NoneBusy(i)' <=> NoneBusy(i)
  BY DEF NoneBusy, Busy
<1>3. \A a \in 1..Len(wire') : NextBusy(i, a)' =>
          wire'[a].num = n /\ (known => GoesOn(o, wire'[a].data, 1))
  BY <1>1 DEF Follows
<1>4. NoneBusy(i)' => currentFrameNumber' = n /\ (known => GenAfter(o)')
  BY <1>2 DEF Follows
<1> QED
  BY <1>3, <1>4 DEF Follows

LEMMA WireKept ==
    ASSUME Inv, InvData, Flow, FollowsKept, NEW i \in 1..Len(wire), Busy(i),
           NEW n, NEW o, n = IncFrameNumber(wire[i].num), o = Last(wire[i].data)
    PROVE  Follows(i, n, o, TRUE)'
<1>1. o \in Octet /\ Follows(i, n, o, TRUE)
  BY LastOctet DEF Flow, FlowWire
<1>2. i \in Nat /\ i <= Len(wire)
  BY DEF Inv, InvTypes
<1> DEFINE known == TRUE
<1>3. known \in BOOLEAN /\ Follows(i, n, o, known) /\ (known => o \in Octet)
  BY <1>1
<1> HIDE DEF known
<1>4. Follows(i, n, o, known)'
  BY <1>2, <1>3 DEF FollowsKept
<1> QED
  BY <1>4 DEF known

LEMMA QuietFlow ==
    ASSUME Inv, InvData, Flow, UNCHANGED <<wire, currentFrameNumber>>,
           \A o \in Octet : GenAfter(o) => GenAfter(o)',
           linked' = TRUE, unplugs' = 0, FlowFrame'
    PROVE  Flow' /\ FollowsKept
<1>1. FollowsKept
  BY QuietFollows
<1>2. FlowOk'
  BY DEF Flow, FlowOk
<1>3. FlowWire'
  <2>1. ASSUME NEW i \in 1..Len(wire), Busy(i)
        PROVE  \A n, o : n = IncFrameNumber(wire[i].num) /\ o = Last(wire[i].data)
                            => Follows(i, n, o, TRUE)'
    BY <1>1, <2>1, WireKept
  <2>2. \A i \in 1..Len(wire') : Busy(i)' <=> Busy(i)
    BY DEF Busy
  <2> QED
    BY <2>1, <2>2 DEF FlowWire
<1> QED
  BY <1>1, <1>2, <1>3 DEF Flow

LEMMA OtherFlow ==
    ASSUME Inv, InvData, Flow, MaxUnplugs = 0,
           Arrive \/ GetData \/ Wait \/ TopUp \/ SetLink \/ UNCHANGED genvars
    PROVE  Flow' /\ FollowsKept
<1>1. UNCHANGED <<wire, currentFrameNumber, frame>>
  BY DEF Arrive, GetData, Wait, TopUp, SetLink, genvars
<1>2. ~SetLink
  BY DEF Flow, SetLink
<1>3. linked' = TRUE /\ unplugs' = 0
  BY <1>2 DEF Flow, Arrive, GetData, Wait, TopUp, genvars
<1>4. ASSUME NEW o \in Octet, GenAfter(o) PROVE GenAfter(o)'
  <2>1. CASE frame # NoFrame
    BY <1>1, <1>4, <2>1 DEF GenAfter
  <2>2. CASE frame = NoFrame /\ GetData
    <3>1. /\ msg_queue # <<>> /\ netdata' = Head(msg_queue) /\ netdataIdx' = 0
          /\ phase = "get" /\ phase' = "copy"
      BY <2>2 DEF GetData
    <3>2. netdata' \in Seq(Octet) /\ netdata'[1].k = 0
      <4>1. msg_queue \in Seq(Seq(Octet))
        BY DEF Inv, InvTypes
      <4>2. netdata' = msg_queue[1] /\ 1 \in 1..Len(msg_queue)
        BY <3>1, <4>1, HeadTail
      <4>3. StartsOnce(netdata') /\ netdata' \in Seq(Octet)
        BY <4>1, <4>2 DEF Inv, InvQueue
      <4> QED
        BY <4>3 DEF StartsOnce
    <3>3. o.k + 1 = o.pkt.len /\ o.k \in Nat /\ o.pkt.len \in Nat
      BY <1>4, <2>2, <3>1, OctetFields DEF GenAfter
    <3>4. GoesOn(o, netdata', 1)
      <4> SUFFICES ASSUME NEW j \in 1..Len(netdata')
                   PROVE  /\ ~(o.k + 1 + j - 1 < o.pkt.len)
                          /\ o.k + 1 + j - 1 = o.pkt.len => netdata'[j].k = 0
        BY DEF GoesOn
      <4>1. j \in Nat /\ j >= 1
        BY <3>2
      <4>2. o.k + 1 + j - 1 = o.pkt.len => j = 1
        BY <3>3, <4>1
      <4> QED
        BY <3>2, <3>3, <4>1, <4>2
    <3>5. frame' = NoFrame /\ netdataIdx' + 1 = 1
      BY <1>1, <2>2, <3>1
    <3> QED
      BY <3>1, <3>4, <3>5 DEF GenAfter
  <2>3. CASE frame = NoFrame /\ ~GetData
    <3>1. phase # "last"
      BY <2>3 DEF Inv, InvFrame
    <3>2. UNCHANGED <<phase, netdata, netdataIdx>>
      BY <1>2, <2>3, <3>1 DEF Arrive, Wait, TopUp, genvars
    <3> QED
      BY <1>1, <1>4, <3>2 DEF GenAfter
  <2> QED
    BY <2>1, <2>2, <2>3
<1>5. FlowFrame'
  BY <1>1 DEF Flow, FlowFrame
<1> QED
  BY <1>1, <1>3, <1>4, <1>5, QuietFlow

\* A frame joins the wire.
LEMMA SentFollows ==
    ASSUME wire \in Seq(Frame), NEW g \in Frame, g.fhp # OnlyIdleData, g.num = currentFrameNumber,
           wire' = Append(wire, g), \A o \in Octet : GenAfter(o) => GoesOn(o, g.data, 1)
    PROVE  FollowsKept
<1>1. /\ Len(wire) \in Nat /\ Len(wire') = Len(wire) + 1
      /\ \A i \in 1..Len(wire) : wire'[i] = wire[i]
      /\ wire'[Len(wire) + 1] = g
  BY Appended
<1>2. (\A i \in 1..Len(wire) : Busy(i)' <=> Busy(i)) /\ \A i : i = Len(wire) + 1 => Busy(i)'
  BY <1>1 DEF Busy
<1> SUFFICES ASSUME NEW i \in Nat, NEW n, NEW o, NEW known \in BOOLEAN, i <= Len(wire),
                    known => o \in Octet, Follows(i, n, o, known)
             PROVE  i <= Len(wire') /\ Follows(i, n, o, known)'
  BY DEF FollowsKept
<1>3. ASSUME NEW a \in 1..Len(wire'), NextBusy(i, a)'
      PROVE  wire'[a].num = n /\ (known => GoesOn(o, wire'[a].data, 1))
  <2>1. CASE a \in 1..Len(wire)
    <3>1. NextBusy(i, a)
      BY <1>1, <1>2, <1>3, <2>1 DEF NextBusy
    <3> QED
      BY <1>1, <2>1, <3>1 DEF Follows
  <2>2. CASE a = Len(wire) + 1
    <3>1. NoneBusy(i)
      BY <1>1, <1>2, <1>3, <2>2 DEF NextBusy, NoneBusy
    <3> QED
      BY <1>1, <2>2, <3>1 DEF Follows
  <2> QED
    BY <1>1, <2>1, <2>2
<1>4. ~NoneBusy(i)'
  <2>1. PICK c : c = Len(wire) + 1
    OBVIOUS
  <2>2. Busy(c)' /\ i < c /\ c \in 1..Len(wire')
    BY <1>1, <1>2, <2>1
  <2> QED
    BY <2>2 DEF NoneBusy
<1> QED
  BY <1>1, <1>3, <1>4 DEF Follows

\* How many frames on the wire are spoilt.
Spoilt == IF wire # <<>> /\ wire[1].ok = FALSE THEN 1 ELSE 0

\* A frame is sent as it was begun.
LEMMA CopyOk ==
    ASSUME wire \in Seq(Frame), FlowFrame, FlowOk, Copy
    PROVE  FlowOk' /\ (frame' # NoFrame => frame'.ok = TRUE) /\ Spoilt' = Spoilt
<1>1. PICK f, set : /\ CopyInto(f, set) /\ f.ok = TRUE
  <2>1. CASE frame = NoFrame
    <3>1. NewFrame(currentFrameNumber).ok = TRUE
      BY DEF NewFrame
    <3> QED
      BY <2>1, <3>1 DEF Copy
  <2>2. CASE frame # NoFrame
    BY <2>2 DEF Copy, FlowFrame
  <2> QED
    BY <2>1, <2>2
<1> DEFINE g == Copied(f, netdata, netdataIdx, set)
<1>2. g.ok = TRUE
  BY <1>1 DEF Copied
<1> HIDE DEF g
<1>3. /\ IF Len(g.data) = DataFieldLen THEN Send(g) ELSE UNCHANGED <<wire, currentFrameNumber>>
      /\ frame' = IF Len(g.data) = DataFieldLen THEN NoFrame ELSE g
  BY <1>1 DEF CopyInto, g
<1>4. wire' = wire \/ wire' = Append(wire, g)
  BY <1>3 DEF Send
<1>5. CASE wire' = wire
  BY <1>2, <1>3, <1>5 DEF FlowOk, Spoilt
<1>6. CASE wire' = Append(wire, g)
  <2>1. /\ Len(wire) \in Nat /\ Len(wire') = Len(wire) + 1
        /\ \A i \in 1..Len(wire) : wire'[i] = wire[i]
        /\ wire'[Len(wire) + 1] = g
    BY <1>6
  <2>2. ASSUME NEW i \in 1..Len(wire'), i > 1 PROVE wire'[i].ok = TRUE
    BY <1>2, <2>1, <2>2 DEF FlowOk
  <2>3. FlowOk'
    BY <2>2 DEF FlowOk
  <2>4. Spoilt' = Spoilt
    <3>1. CASE wire = <<>>
      <4>1. wire'[1] = g
        BY <2>1, <3>1
      <4> QED
        BY <1>2, <3>1, <4>1 DEF Spoilt
    <3>2. CASE wire # <<>>
      <4>1. 1 \in 1..Len(wire)
        BY <3>2
      <4>2. wire'[1] = wire[1] /\ wire' # <<>>
        BY <2>1, <4>1
      <4> QED
        BY <3>2, <4>2 DEF Spoilt
    <3> QED
      BY <3>1, <3>2
  <2> QED
    BY <1>2, <1>3, <2>3, <2>4
<1> QED
  BY <1>4, <1>5, <1>6

\* What is copied goes on where the frames before it left off.
LEMMA PassFlow ==
    ASSUME Inv, InvData, phase = "copy", NEW f, NEW n, NEW g, AtHand(f), Pass(f, n, g)
    PROVE  /\ \A o \in Octet : GenAfter(o) => GoesOn(o, g.data, 1)
           /\ Last(g.data) \in Octet /\ GoesOn(Last(g.data), netdata, netdataIdx + n + 1)
           /\ netdataIdx + n = Len(netdata) => Last(g.data).k + 1 = Last(g.data).pkt.len
<1>1. /\ Good(sent, f.data) /\ Closed(f.data) /\ Unit(sent, netdata) /\ Good(sent, g.data)
      /\ n \in Nat \ {0} /\ netdataIdx \in Nat /\ netdataIdx + n <= Len(netdata)
      /\ Joins(f.data, netdata, netdataIdx, n, g.data)
      /\ netdataIdx + n = Len(netdata) => Closed(g.data)
  BY PassData
<1>2. /\ f.data \in Seq(Octet) /\ netdata \in Seq(Octet) /\ Good(sent, netdata) /\ n \in Nat
  BY <1>1 DEF Good, Unit
<1>3. Last(g.data) \in Octet /\ GoesOn(Last(g.data), netdata, netdataIdx + n + 1)
  BY ONLY <1>1, <1>2, LastGoesOn
<1>4. netdataIdx + n = Len(netdata) => Last(g.data).k + 1 = Last(g.data).pkt.len
  <2>1. Len(g.data) > 0
    BY <1>1, <1>2 DEF Joins
  <2> QED
    BY ONLY <1>1, <2>1, LastCloses
<1>5. ASSUME NEW o \in Octet, GenAfter(o) PROVE GoesOn(o, g.data, 1)
  <2>1. CASE frame = NoFrame
    <3>1. f.data = <<>>
      BY <2>1 DEF AtHand, NewFrame
    <3>2. Len(f.data) = 0
      BY <3>1
    <3>3. GoesOn(o, netdata, netdataIdx + 1)
      BY <1>5, <2>1 DEF GenAfter
    <3> QED
      BY <1>1, <1>2, <3>2, <3>3, GoesOnPart
  <2>2. CASE frame # NoFrame
    <3>1. f = frame /\ netdataIdx = 0 /\ Len(f.data) > 0
      <4>1. f = frame /\ netdataIdx = 0 /\ Len(frame.data) \in 1..DataFieldLen - 1
        BY <2>2 DEF AtHand, Inv, InvFrame
      <4>2. DataFieldLen \in Nat
        BY FrameAssumption DEF FrameAssumption
      <4> QED
        BY <4>1, <4>2
    <3>2. GoesOn(o, f.data, 1)
      BY <1>5, <2>2, <3>1 DEF GenAfter
    <3>3. netdata[1].k = 0
      BY DEF Pass, Ready
    <3>4. n <= Len(netdata)
      BY <1>1, <3>1
    <3> QED
      BY <1>1, <1>2, <3>1, <3>2, <3>3, <3>4, GoesOnMore
  <2> QED
    BY <2>1, <2>2
<1> QED
  BY <1>3, <1>4, <1>5

LEMMA CopyFlow == Inv /\ InvData /\ Flow /\ Copy => Flow' /\ FollowsKept
<1> SUFFICES ASSUME Inv, InvData, Flow, Copy PROVE Flow' /\ FollowsKept
  OBVIOUS
<1>1. PICK f, n, g : phase = "copy" /\ AtHand(f) /\ Pass(f, n, g)
  BY CopyPasses
<1>2. /\ IF Len(g.data) = DataFieldLen THEN Send(g) ELSE UNCHANGED <<wire, currentFrameNumber>>
      /\ frame' = IF Len(g.data) = DataFieldLen THEN NoFrame ELSE g
      /\ netdata' = IF netdataIdx + n = Len(netdata) THEN <<>> ELSE netdata
      /\ netdataIdx' = IF netdataIdx + n = Len(netdata) THEN 0 ELSE netdataIdx + n
      /\ phase' = IF netdataIdx + n # Len(netdata) THEN "copy"
                  ELSE IF Len(g.data) = DataFieldLen THEN "get" ELSE "last"
  BY <1>1 DEF Pass, Passed
<1>3. /\ g \in Frame /\ g.num = f.num /\ wire \in Seq(Frame) /\ Len(wire) \in Nat
      /\ Len(g.data) = DataFieldLen => Right(g)
  BY <1>1 DEF Pass, Outcome, Inv, InvTypes
<1>4. /\ \A o \in Octet : GenAfter(o) => GoesOn(o, g.data, 1)
      /\ Last(g.data) \in Octet /\ GoesOn(Last(g.data), netdata, netdataIdx + n + 1)
      /\ netdataIdx + n = Len(netdata) => Last(g.data).k + 1 = Last(g.data).pkt.len
  BY <1>1, PassFlow
<1>5. linked' = TRUE /\ unplugs' = 0
  BY DEF Flow, Copy
<1>6. g.num = currentFrameNumber
  <2>1. CASE frame = NoFrame
    BY <1>1, <1>3, <2>1 DEF AtHand, NewFrame
  <2>2. CASE frame # NoFrame
    BY <1>1, <1>3, <2>2 DEF AtHand, Flow, FlowFrame
  <2> QED
    BY <2>1, <2>2
<1>7. FlowOk' /\ (frame' # NoFrame => frame'.ok = TRUE)
  BY <1>3, CopyOk DEF Flow
<1>8. CASE Len(g.data) # DataFieldLen
  <2>1. frame' = g /\ UNCHANGED <<wire, currentFrameNumber>> /\ g # NoFrame
    BY <1>2, <1>3, <1>8, GenAssumption DEF GenAssumption
  <2>2. FlowFrame'
    BY <1>6, <1>7, <2>1 DEF FlowFrame
  <2>3. ASSUME NEW o \in Octet, GenAfter(o) PROVE GenAfter(o)'
    BY <1>4, <2>1, <2>3 DEF GenAfter
  <2> QED
    BY <1>5, <2>1, <2>2, <2>3, QuietFlow
<1>9. CASE Len(g.data) = DataFieldLen
  <2>1. /\ frame' = NoFrame /\ wire' = Append(wire, g)
        /\ currentFrameNumber' = IncFrameNumber(currentFrameNumber)
    BY <1>2, <1>9 DEF Flow, Send
  <2>2. g.fhp # OnlyIdleData
    <3>1. Len(g.data) \in Nat /\ Len(g.data) <= 2045
      BY <1>9, FrameAssumption DEF FrameAssumption
    <3> QED
      BY <1>3, <1>9, <3>1 DEF Right, Settled, NoPacketStart, OnlyIdleData
  <2>3. FollowsKept
    BY <1>3, <1>4, <1>6, <2>1, <2>2, SentFollows
  <2>4. \A o : o = Last(g.data) => GenAfter(o)'
    <3>1. CASE netdataIdx + n # Len(netdata)
      BY <1>2, <1>4, <2>1, <3>1 DEF GenAfter
    <3>2. CASE netdataIdx + n = Len(netdata)
      BY <1>2, <1>4, <1>9, <2>1, <3>2 DEF GenAfter
    <3> QED
      BY <3>1, <3>2
  <2>5. FlowFrame'
    BY <2>1 DEF FlowFrame
  <2>6. /\ Len(wire') = Len(wire) + 1
        /\ \A i \in 1..Len(wire) : wire'[i] = wire[i]
        /\ wire'[Len(wire) + 1] = g
    BY <1>3, <2>1, Appended
  <2>7. ASSUME NEW i \in 1..Len(wire'), Busy(i)',
               NEW m, NEW o, m = IncFrameNumber(wire'[i].num), o = Last(wire'[i].data)
        PROVE  Follows(i, m, o, TRUE)'
    <3>1. CASE i \in 1..Len(wire)
      <4>1. wire'[i] = wire[i] /\ Busy(i)
        BY <2>6, <2>7, <3>1 DEF Busy
      <4> QED
        BY <2>3, <2>7, <3>1, <4>1, WireKept
    <3>2. CASE i = Len(wire) + 1
      <4>1. m = currentFrameNumber' /\ o = Last(g.data)
        BY <1>6, <2>1, <2>6, <2>7, <3>2
      <4>2. GenAfter(o)'
        BY <2>4, <4>1
      <4>3. \A a \in 1..Len(wire') : ~(i < a)
        BY <1>3, <2>6, <3>2
      <4>4. \A a \in 1..Len(wire') : ~NextBusy(i, a)'
        BY <4>3 DEF NextBusy
      <4> QED
        BY <4>1, <4>2, <4>4 DEF Follows
    <3>3. i \in 1..Len(wire) \/ i = Len(wire) + 1
      BY <1>3, <2>6
    <3> QED
      BY <3>1, <3>2, <3>3
  <2>8. FlowWire'
    BY <2>7 DEF FlowWire
  <2> QED
    BY <1>5, <1>7, <2>3, <2>5, <2>8 DEF Flow
<1> QED
  BY <1>8, <1>9

LEMMA GenFlow ==
    Inv /\ InvData /\ Flow /\ MaxUnplugs = 0 /\ [GenNext]_genvars
        => Flow' /\ FollowsKept /\ Spoilt' = Spoilt
<1> SUFFICES ASSUME Inv, InvData, Flow, MaxUnplugs = 0, [GenNext]_genvars
             PROVE  Flow' /\ FollowsKept /\ Spoilt' = Spoilt
  OBVIOUS
<1>1. CASE Copy
  <2>1. Spoilt' = Spoilt
    BY <1>1, CopyOk DEF Inv, InvTypes, Flow
  <2> QED
    BY <1>1, <2>1, CopyFlow
<1>2. CASE Arrive \/ GetData \/ Wait \/ TopUp \/ SetLink \/ UNCHANGED genvars
  <2>1. Spoilt' = Spoilt
    BY <1>2 DEF Arrive, GetData, Wait, TopUp, SetLink, genvars, Spoilt
  <2> QED
    BY <1>2, <2>1, OtherFlow
<1> QED
  BY <1>1, <1>2 DEF GenNext, GenStep

-----------------------------------------------------------------------------
(* What the channel and the receiver do to the wire.                       *)

GenSame == UNCHANGED <<msg_queue, sent, phase, netdata, netdataIdx, frame, firstHeaderIndexSet,
                       currentFrameNumber, linked, unplugs>>

LEMMA SameComing == GenSame => /\ \A x : Coming(x)' <=> Coming(x)
                               /\ \A o : GenAfter(o)' <=> GenAfter(o)
  BY DEF GenSame, Coming, Begun, GenAfter

LEMMA SameQueue == GenSame /\ InvOrder => OrderQueue' /\ OrderUnit' /\ OrderFrame'
<1> SUFFICES ASSUME GenSame, InvOrder PROVE OrderQueue' /\ OrderUnit' /\ OrderFrame'
  OBVIOUS
<1>1. UNCHANGED <<msg_queue, sent, phase, netdata, netdataIdx, frame>> /\ Begun' = Begun
  BY DEF GenSame, Begun
<1>2. OrderQueue' /\ OrderUnit'
  BY <1>1 DEF InvOrder, OrderQueue, OrderUnit
<1>3. OrderFrame'
  BY <1>1 DEF InvOrder, OrderFrame, Coming
<1> QED
  BY <1>2, <1>3

\* The frame at the head of the wire leaves it.
LEMMA TailDown ==
    ASSUME wire \in Seq(Frame), wire # <<>>, wire' = Tail(wire), GenSame,
           NEW i \in Nat, NEW x, Down(i + 1, x)
    PROVE  Down(i, x)'
<1>1. /\ Len(wire) \in Nat \ {0} /\ Len(wire') = Len(wire) - 1
      /\ \A a \in 1..Len(wire) - 1 : wire'[a] = wire[a + 1]
  BY HeadTail
<1>2. ASSUME NEW a \in 1..Len(wire'), i < a PROVE Above(x, wire'[a].data, 1)
  <2>1. a + 1 \in 1..Len(wire) /\ i + 1 < a + 1 /\ wire'[a] = wire[a + 1]
    BY <1>1, <1>2
  <2> QED
    BY <2>1 DEF Down
<1>3. \A a \in 1..Len(wire') : i < a => Above(x, wire'[a].data, 1)
  BY <1>2
<1>4. Coming(x)' /\ (frame' # NoFrame => Above(x, frame'.data, 1))
  BY SameComing DEF Down, GenSame
<1> QED
  BY <1>3, <1>4 DEF Down

LEMMA TailFollows ==
    ASSUME wire \in Seq(Frame), wire # <<>>, wire' = Tail(wire), GenSame,
           NEW i \in Nat, NEW n, NEW o, NEW known, Follows(i + 1, n, o, known)
    PROVE  Follows(i, n, o, known)'
<1>1. /\ Len(wire) \in Nat \ {0} /\ Len(wire') = Len(wire) - 1
      /\ \A a \in 1..Len(wire) - 1 : wire'[a] = wire[a + 1]
  BY HeadTail
<1>2. ASSUME NEW c \in 1..Len(wire), i + 1 < c
      PROVE  c - 1 \in 1..Len(wire') /\ i < c - 1 /\ \A d : d = c - 1 => (Busy(d)' <=> Busy(c))
  <2>1. c - 1 \in 1..Len(wire') /\ i < c - 1 /\ wire'[c - 1] = wire[c]
    <3>1. c - 1 \in 1..Len(wire) - 1 /\ (c - 1) + 1 = c
      BY <1>1, <1>2
    <3> QED
      BY <1>1, <1>2, <3>1
  <2> QED
    BY <2>1 DEF Busy
<1>3. ASSUME NEW a \in 1..Len(wire'), NextBusy(i, a)'
      PROVE  wire'[a].num = n /\ (known => GoesOn(o, wire'[a].data, 1))
  <2>1. a + 1 \in 1..Len(wire) /\ i + 1 < a + 1 /\ wire'[a] = wire[a + 1]
    BY <1>1, <1>3 DEF NextBusy
  <2>2. Busy(a + 1)
    BY <1>3, <2>1 DEF NextBusy, Busy
  <2>3. ASSUME NEW c \in 1..Len(wire), i + 1 < c, c < a + 1 PROVE ~Busy(c)
    <3>1. PICK d : d = c - 1
      OBVIOUS
    <3>2. d \in 1..Len(wire') /\ i < d /\ d < a /\ (Busy(d)' <=> Busy(c))
      BY <1>1, <1>2, <2>3, <3>1
    <3> QED
      BY <1>3, <3>2 DEF NextBusy
  <2>4. NextBusy(i + 1, a + 1)
    BY <2>1, <2>2, <2>3 DEF NextBusy
  <2> QED
    BY <2>1, <2>4 DEF Follows
<1>4. ASSUME NoneBusy(i)' PROVE currentFrameNumber' = n /\ (known => GenAfter(o)')
  <2>1. ASSUME NEW c \in 1..Len(wire), i + 1 < c PROVE ~Busy(c)
    <3>1. PICK d : d = c - 1
      OBVIOUS
    <3>2. d \in 1..Len(wire') /\ i < d /\ (Busy(d)' <=> Busy(c))
      BY <1>2, <2>1, <3>1
    <3> QED
      BY <1>4, <3>2 DEF NoneBusy
  <2>2. NoneBusy(i + 1)
    BY <2>1 DEF NoneBusy
  <2> QED
    BY <2>2, SameComing DEF Follows, GenSame
<1> QED
  BY <1>3, <1>4 DEF Follows

LEMMA TailOrder ==
    ASSUME Inv, InvOrder, wire # <<>>, wire' = Tail(wire), GenSame
    PROVE  InvOrder'
<1>1. wire \in Seq(Frame)
  BY DEF Inv, InvTypes
<1>2. /\ Len(wire) \in Nat \ {0} /\ Len(wire') = Len(wire) - 1
      /\ \A a \in 1..Len(wire) - 1 : wire'[a] = wire[a + 1]
  BY <1>1, HeadTail
<1>3. ASSUME NEW a \in 1..Len(wire')
      PROVE  /\ Rising(wire'[a].data)
             /\ \A i \in 1..Len(wire'[a].data) : wire'[a].data[i].k = 0
                   => \A x : x = wire'[a].data[i].pkt.id => Down(a, x)'
  <2>1. a + 1 \in 1..Len(wire) /\ wire'[a] = wire[a + 1] /\ a \in Nat
    BY <1>2
  <2>2. /\ Rising(wire'[a].data)
        /\ \A i \in 1..Len(wire'[a].data) : wire'[a].data[i].k = 0
              => Down(a + 1, wire'[a].data[i].pkt.id)
    BY <2>1 DEF InvOrder, OrderWire
  <2> QED
    BY <1>1, <2>1, <2>2, TailDown
<1>4. OrderWire'
  BY <1>3 DEF OrderWire
<1> QED
  BY <1>4, SameQueue DEF InvOrder

LEMMA TailFlow ==
    ASSUME Inv, Flow, wire # <<>>, wire' = Tail(wire), GenSame
    PROVE  Flow' /\ \A a \in 1..Len(wire') : wire'[a].ok = TRUE
<1>1. wire \in Seq(Frame)
  BY DEF Inv, InvTypes
<1>2. /\ Len(wire) \in Nat \ {0} /\ Len(wire') = Len(wire) - 1
      /\ \A a \in 1..Len(wire) - 1 : wire'[a] = wire[a + 1]
  BY <1>1, HeadTail
<1>3. ASSUME NEW a \in 1..Len(wire') PROVE wire'[a].ok = TRUE
  <2>1. a + 1 \in 1..Len(wire) /\ wire'[a] = wire[a + 1] /\ a + 1 > 1
    BY <1>2
  <2> QED
    BY <2>1 DEF Flow, FlowOk
<1>4. ASSUME NEW a \in 1..Len(wire'), Busy(a)',
             NEW m, NEW o, m = IncFrameNumber(wire'[a].num), o = Last(wire'[a].data)
      PROVE  Follows(a, m, o, TRUE)'
  <2>1. a + 1 \in 1..Len(wire) /\ wire'[a] = wire[a + 1] /\ a \in Nat
    BY <1>2
  <2>2. Busy(a + 1)
    BY <1>4, <2>1 DEF Busy
  <2>3. Follows(a + 1, m, o, TRUE)
    BY <1>4, <2>1, <2>2 DEF Flow, FlowWire
  <2> QED
    BY <1>1, <2>1, <2>3, TailFollows
<1>5. FlowWire'
  BY <1>4 DEF FlowWire
<1>6. linked' = TRUE /\ unplugs' = 0 /\ FlowFrame' /\ FlowOk'
  BY <1>3 DEF Flow, FlowFrame, FlowOk, GenSame
<1> QED
  BY <1>3, <1>5, <1>6 DEF Flow

\* What follows all that has been received, when the head of the wire is idle, or not.
LEMMA IdleHead ==
    ASSUME NEW z, z = 0, NEW n, NEW o, NEW known, Follows(z, n, o, known), ~Busy(z + 1),
           wire \in Seq(Frame)
    PROVE  Follows(z + 1, n, o, known)
<1>1. \A a : NextBusy(z + 1, a) => NextBusy(z, a)
  <2> SUFFICES ASSUME NEW a, NextBusy(z + 1, a), NEW c \in 1..Len(wire), z < c, c < a
               PROVE  ~Busy(c) /\ z < a
    BY DEF NextBusy
  <2>1. a \in Nat /\ c \in Nat /\ z + 1 < a
    BY DEF NextBusy
  <2>2. c = z + 1 \/ z + 1 < c
    BY <2>1
  <2> QED
    BY <2>1, <2>2 DEF NextBusy
<1>2. NoneBusy(z + 1) => NoneBusy(z)
  <2> SUFFICES ASSUME NoneBusy(z + 1), NEW c \in 1..Len(wire), z < c PROVE ~Busy(c)
    BY DEF NoneBusy
  <2>1. c = z + 1 \/ z + 1 < c
    OBVIOUS
  <2> QED
    BY <2>1 DEF NoneBusy
<1> QED
  BY <1>1, <1>2 DEF Follows

LEMMA BusyHead ==
    ASSUME wire \in Seq(Frame), wire # <<>>, NEW z, z = 0, NEW n, NEW o, NEW known,
           Follows(z, n, o, known), wire[1].fhp # OnlyIdleData
    PROVE  wire[1].num = n /\ (known => GoesOn(o, wire[1].data, 1))
<1>1. Len(wire) \in Nat \ {0} /\ 1 \in 1..Len(wire)
  OBVIOUS
<1>2. PICK a : a = 1
  OBVIOUS
<1>3. NextBusy(z, a)
  BY <1>1, <1>2 DEF NextBusy, Busy
<1> QED
  BY <1>1, <1>2, <1>3 DEF Follows

\* The header of a frame is spoilt: its number and its octets are not touched.
LEMMA SpoilKeeps ==
    ASSUME Inv, InvData, InvOrder, Flow, Spoil
    PROVE  /\ InvOrder' /\ Flow' /\ DownKept /\ FollowsKept
           /\ wire # <<>> /\ wire[1].ok = TRUE /\ Len(wire') = Len(wire)
           /\ GenSame /\ hits' = hits + 1
<1>1. /\ GenSame /\ wire # <<>> /\ Head(wire).ok /\ hits' = hits + 1
      /\ wire' = [wire EXCEPT ![1].ok = FALSE]
  BY DEF Spoil, Unhurt, GenSame
<1>2. wire \in Seq(Frame) /\ Head(wire) = wire[1] /\ 1 \in 1..Len(wire) /\ wire[1] \in Frame
  BY <1>1, HeadFrame DEF Inv, InvTypes
<1>3. wire[1].ok = TRUE
  BY <1>1, <1>2 DEF Frame
<1>4. Len(wire') = Len(wire) /\ Len(wire) \in Nat
  BY <1>1, <1>2
<1>5. ASSUME NEW a \in 1..Len(wire)
      PROVE  /\ wire'[a].fhp = wire[a].fhp /\ wire'[a].data = wire[a].data
             /\ wire'[a].num = wire[a].num
             /\ a > 1 => wire'[a].ok = wire[a].ok
  <2>1. CASE a = 1
    <3>1. wire' = [wire EXCEPT ![1] = [wire[1] EXCEPT !.ok = FALSE]]
      BY <1>1
    <3> DEFINE e == [wire[1] EXCEPT !.ok = FALSE]
               w == wire
    <3> HIDE DEF e, w
    <3>3. w \in Seq(Frame) /\ 1 \in 1..Len(w) /\ wire' = [w EXCEPT ![1] = e]
      BY <1>2, <3>1 DEF e, w
    <3>4. 1 \in DOMAIN w
      BY ONLY <3>3
    <3>5. wire'[1] = e
      BY ONLY <3>3, <3>4
    <3>2. wire'[1] = [wire[1] EXCEPT !.ok = FALSE]
      BY <3>5 DEF e
    <3> QED
      BY <1>2, <2>1, <3>2 DEF Frame
  <2>2. CASE a # 1
    <3>1. wire'[a] = wire[a]
      BY <1>1, <1>2, <2>2
    <3> QED
      BY <3>1
  <2> QED
    BY <2>1, <2>2
<1>6. \A a \in 1..Len(wire) : Busy(a)' <=> Busy(a)
  BY <1>5 DEF Busy
<1>7. ASSUME NEW a \in Nat, NEW x, a <= Len(wire), Down(a, x) PROVE Down(a, x)'
  <2>1. Coming(x)' /\ frame' = frame
    BY <1>1, <1>7, SameComing DEF Down, GenSame
  <2> QED
    BY <1>4, <1>5, <1>7, <2>1 DEF Down
<1>8. DownKept
  BY <1>4, <1>7 DEF DownKept
<1>9. FollowsKept
  <2> SUFFICES ASSUME NEW i \in Nat, NEW n, NEW o, NEW known \in BOOLEAN, i <= Len(wire),
                      known => o \in Octet, Follows(i, n, o, known)
               PROVE  Follows(i, n, o, known)'
    BY <1>4 DEF FollowsKept
  <2>1. \A a \in 1..Len(wire) : NextBusy(i, a)' <=> NextBusy(i, a)
    BY <1>4, <1>6 DEF NextBusy
  <2>2. NoneBusy(i)' <=> NoneBusy(i)
    BY <1>4, <1>6 DEF NoneBusy
  <2>3. \A a \in 1..Len(wire') : NextBusy(i, a)' =>
            wire'[a].num = n /\ (known => GoesOn(o, wire'[a].data, 1))
    BY <1>4, <1>5, <2>1 DEF Follows
  <2>4. NoneBusy(i)' => currentFrameNumber' = n /\ (known => GenAfter(o)')
    BY <1>1, <2>2, SameComing DEF Follows, GenSame
  <2> QED
    BY <2>3, <2>4 DEF Follows
<1>10. InvOrder'
  <2>1. ASSUME NEW a \in 1..Len(wire'), NEW i \in 1..Len(wire'[a].data),
               wire'[a].data[i].k = 0, NEW x, x = wire'[a].data[i].pkt.id
        PROVE  Down(a, x)'
    <3>1. a \in 1..Len(wire) /\ a \in Nat /\ a <= Len(wire) /\ wire'[a].data = wire[a].data
      BY <1>4, <1>5
    <3>2. Down(a, x)
      BY <2>1, <3>1 DEF InvOrder, OrderWire
    <3> QED
      BY <1>7, <3>1, <3>2
  <2>2. \A a \in 1..Len(wire') : Rising(wire'[a].data)
    BY <1>4, <1>5 DEF InvOrder, OrderWire
  <2>3. OrderWire'
    BY <2>1, <2>2 DEF OrderWire
  <2> QED
    BY <1>1, <2>3, SameQueue DEF InvOrder
<1>11. Flow'
  <2>1. FlowOk'
    BY <1>4, <1>5 DEF Flow, FlowOk
  <2>2. ASSUME NEW a \in 1..Len(wire'), Busy(a)',
               NEW m, NEW o, m = IncFrameNumber(wire'[a].num), o = Last(wire'[a].data)
        PROVE  Follows(a, m, o, TRUE)'
    <3>1. a \in 1..Len(wire) /\ Busy(a) /\ m = IncFrameNumber(wire[a].num) /\ o = Last(wire[a].data)
      BY <1>4, <1>5, <1>6, <2>2
    <3> QED
      BY <1>9, <3>1, WireKept
  <2>3. FlowWire'
    BY <2>2 DEF FlowWire
  <2> QED
    BY <1>1, <2>1, <2>3 DEF Flow, FlowFrame, GenSame
<1> QED
  BY <1>1, <1>3, <1>4, <1>8, <1>9, <1>10, <1>11

\* A frame of idle data starts no packet that was sent.
LEMMA IdleAbove ==
    /\ Rising(IdleFrame.data)
    /\ \A i \in 1..Len(IdleFrame.data) : IdleFrame.data[i].pkt.id = 0
    /\ \A x : Above(x, IdleFrame.data, 1)
<1>1. DataFieldLen \in Nat \ {0} /\ IdleFrame.data = RawFill(DataFieldLen)
  BY IdleFrameGood, FrameAssumption DEF FrameAssumption
<1>2. Rising(RawFill(DataFieldLen))
      /\ \A i \in 1..Len(RawFill(DataFieldLen)) : RawFill(DataFieldLen)[i].pkt.id = 0
  BY <1>1, RawRises
<1>3. \A x : Above(x, IdleFrame.data, 1)
  BY <1>1, <1>2 DEF Above
<1> QED
  BY <1>1, <1>2, <1>3

\* Every packet sent comes after fill.
LEMMA FillBefore ==
    ASSUME Inv, InvData, InvOrder
    PROVE  (frame # NoFrame => Above(0, frame.data, 1)) /\ Coming(0)
<1>1. ASSUME NEW d \in Seq(Octet) PROVE Above(0, d, 1)
  <2>1. \A i \in 1..Len(d) : d[i].pkt.id \in Nat
    BY OctetsIn
  <2> QED
    BY <2>1 DEF Above
<1>2. frame # NoFrame => Above(0, frame.data, 1)
  BY <1>1 DEF InvData, DataFrame, Unit, Good
<1>3. 0 <= Begun
  BY BegunNat DEF InvOrder
<1>4. phase = "copy" => Above(0, netdata, 1)
  BY <1>1 DEF Inv, InvTypes
<1> QED
  BY <1>2, <1>3, <1>4 DEF Coming

LEMMA IdleKeeps ==
    ASSUME Inv, InvData, InvOrder, Flow, InsertIdle
    PROVE  /\ InvOrder' /\ Flow' /\ DownKept /\ FollowsKept /\ GenSame /\ hits' = hits
           /\ Len(wire) \in Nat /\ Len(wire') = Len(wire) + 1
           /\ \A a \in 1..Len(wire) : wire'[a] = wire[a]
           /\ wire'[Len(wire) + 1] = IdleFrame
<1>1. GenSame /\ wire' = Append(wire, IdleFrame) /\ hits' = hits
  BY DEF InsertIdle, Unhurt, GenSame
<1>2. wire \in Seq(Frame)
  BY DEF Inv, InvTypes
<1>3. /\ Len(wire) \in Nat /\ Len(wire') = Len(wire) + 1
      /\ \A i \in 1..Len(wire) : wire'[i] = wire[i]
      /\ wire'[Len(wire) + 1] = IdleFrame
  BY <1>1, <1>2, IdleFrameGood, Appended
<1>4. /\ \A a \in 1..Len(wire) : Busy(a)' <=> Busy(a)
      /\ \A a : a = Len(wire) + 1 => ~Busy(a)'
  BY <1>3, IdleFrameGood DEF Busy
<1>5. ASSUME NEW a \in Nat, NEW x, a <= Len(wire), Down(a, x) PROVE Down(a, x)'
  <2>1. Coming(x)' /\ frame' = frame
    BY <1>1, <1>5, SameComing DEF Down, GenSame
  <2>2. ASSUME NEW c \in 1..Len(wire'), a < c PROVE Above(x, wire'[c].data, 1)
    <3>1. CASE c \in 1..Len(wire)
      BY <1>3, <1>5, <2>2, <3>1 DEF Down
    <3>2. CASE c = Len(wire) + 1
      BY <1>3, <3>2, IdleAbove
    <3> QED
      BY <1>3, <3>1, <3>2
  <2>3. \A c \in 1..Len(wire') : a < c => Above(x, wire'[c].data, 1)
    BY <2>2
  <2> QED
    BY <1>5, <2>1, <2>3 DEF Down
<1>6. DownKept
  BY <1>3, <1>5 DEF DownKept
<1>7. FollowsKept
  <2> SUFFICES ASSUME NEW i \in Nat, NEW n, NEW o, NEW known \in BOOLEAN, i <= Len(wire),
                      known => o \in Octet, Follows(i, n, o, known)
               PROVE  Follows(i, n, o, known)'
    BY <1>3 DEF FollowsKept
  <2>1. ASSUME NEW a \in 1..Len(wire'), NextBusy(i, a)'
        PROVE  wire'[a].num = n /\ (known => GoesOn(o, wire'[a].data, 1))
    <3>1. a \in 1..Len(wire)
      BY <1>3, <1>4, <2>1 DEF NextBusy
    <3>2. NextBusy(i, a)
      BY <1>3, <1>4, <2>1, <3>1 DEF NextBusy
    <3> QED
      BY <1>3, <3>1, <3>2 DEF Follows
  <2>2. NoneBusy(i)' => NoneBusy(i)
    BY <1>3, <1>4 DEF NoneBusy
  <2>3. NoneBusy(i)' => currentFrameNumber' = n /\ (known => GenAfter(o)')
    BY <1>1, <2>2, SameComing DEF Follows, GenSame
  <2> QED
    BY <2>1, <2>3 DEF Follows
<1>8. InvOrder'
  <2>1. ASSUME NEW a \in 1..Len(wire'), NEW i \in 1..Len(wire'[a].data),
               wire'[a].data[i].k = 0, NEW x, x = wire'[a].data[i].pkt.id
        PROVE  Down(a, x)'
    <3>1. CASE a \in 1..Len(wire)
      <4>1. a \in Nat /\ a <= Len(wire) /\ wire'[a].data = wire[a].data
        BY <1>3, <3>1
      <4>2. Down(a, x)
        BY <2>1, <3>1, <4>1 DEF InvOrder, OrderWire
      <4> QED
        BY <1>5, <4>1, <4>2
    <3>2. CASE a = Len(wire) + 1
      <4>1. x = 0
        BY <1>3, <2>1, <3>2, IdleAbove
      <4>2. Down(a, 0)'
        <5>1. (frame' # NoFrame => Above(0, frame'.data, 1)) /\ Coming(0)'
          BY <1>1, FillBefore, SameComing DEF GenSame
        <5>2. \A c \in 1..Len(wire') : ~(a < c)
          BY <1>3, <3>2
        <5> QED
          BY <5>1, <5>2 DEF Down
      <4> QED
        BY <4>1, <4>2
    <3> QED
      BY <1>3, <3>1, <3>2
  <2>2. \A a \in 1..Len(wire') : Rising(wire'[a].data)
    <3> SUFFICES ASSUME NEW a \in 1..Len(wire') PROVE Rising(wire'[a].data)
      OBVIOUS
    <3>1. CASE a \in 1..Len(wire)
      BY <1>3, <3>1 DEF InvOrder, OrderWire
    <3>2. CASE a = Len(wire) + 1
      BY <1>3, <3>2, IdleAbove
    <3> QED
      BY <1>3, <3>1, <3>2
  <2>3. OrderWire'
    BY <2>1, <2>2 DEF OrderWire
  <2> QED
    BY <1>1, <2>3, SameQueue DEF InvOrder
<1>9. Flow'
  <2>1. FlowOk'
    <3> SUFFICES ASSUME NEW a \in 1..Len(wire'), a > 1 PROVE wire'[a].ok = TRUE
      BY DEF FlowOk
    <3>1. CASE a \in 1..Len(wire)
      BY <1>3, <3>1 DEF Flow, FlowOk
    <3>2. CASE a = Len(wire) + 1
      BY <1>3, <3>2 DEF IdleFrame
    <3>3. a \in 1..Len(wire) \/ a = Len(wire) + 1
      BY <1>3
    <3> QED
      BY <3>1, <3>2, <3>3
  <2>2. ASSUME NEW a \in 1..Len(wire'), Busy(a)',
               NEW m, NEW o, m = IncFrameNumber(wire'[a].num), o = Last(wire'[a].data)
        PROVE  Follows(a, m, o, TRUE)'
    <3>1. a \in 1..Len(wire)
      BY <1>3, <1>4, <2>2
    <3>2. Busy(a) /\ m = IncFrameNumber(wire[a].num) /\ o = Last(wire[a].data)
      BY <1>3, <1>4, <2>2, <3>1
    <3> QED
      BY <1>7, <3>1, <3>2, WireKept
  <2>3. FlowWire'
    BY <2>2 DEF FlowWire
  <2> QED
    BY <1>1, <2>1, <2>3 DEF Flow, FlowFrame, GenSame
<1> QED
  BY <1>1, <1>3, <1>6, <1>7, <1>8, <1>9

-----------------------------------------------------------------------------
(* The receiver: what is at hand, what is expected, what was delivered.    *)

\* With the output always connected, gaps the frame count tells, headers that are in one frame
\* or the next, and Space Packets too short for the length the receiver stores in them.
Undisturbed ==
    /\ MaxUnplugs = 0 /\ MaxHits <= MaxVCFrameCount
    /\ \A s \in Shapes : s.hdr <= DataFieldLen + 1
    /\ (\E s \in Shapes : s.pvn = pvnSpacePacket) =>
           \A s \in Shapes : s.len + DataFieldLen <= 65287

First == packet.octets[1].pkt

OrderReceived == received # NoFrame =>
    /\ Rising(received.data)
    /\ \A i \in 1..Len(received.data) : received.data[i].k = 0 => Down(0, received.data[i].pkt.id)
OrderPacket == packet # NoPacket =>
    /\ Down(0, First.id)
    /\ received # NoFrame => Above(First.id, received.data, 1)

\* Every packet that can yet be delivered comes after x.
Past(x) ==
    /\ packet # NoPacket /\ First.id # 0 => x < First.id
    /\ received # NoFrame => Above(x, received.data, headerPointer + 1)
    /\ Down(0, x)
OrderOut == delivered # <<>> =>
    \E x \in 1..Len(sent) : Last(delivered) = OctetsOf(sent[x]) /\ Past(x)

\* The frames missed since the last one taken are those lost and the one spoilt; without any
\* the next frame goes on where the last one ended.
Plus(c, n) == IF c + n > MaxVCFrameCount THEN c + n - MaxVCFrameCount - 1 ELSE c + n
Tipped == received # NoFrame \/ packet # NoPacket
Tip == IF received # NoFrame THEN Last(received.data) ELSE Last(packet.octets)
FlowNext == \E n \in 0..MaxHits :
    n + Spoilt <= hits /\ Follows(0, Plus(rcvFrameNumber, n), Tip, n = 0 /\ Tipped)

\* The packet at hand is a part of one packet, or was given a length that will not be met.
Overlong(p) == p.octets[1].pkt.pvn = pvnSpacePacket /\ p.cut >= 5
Tangled(p) ==
    /\ p.cut <= 6
    /\ \A i \in 1..Len(p.octets) :
           i <= 6 => p.octets[i] = [pkt |-> p.octets[1].pkt, k |-> i - 1]
    /\ Len(p.octets) >= 5 /\ Len(p.octets) <= DataFieldLen + Last(p.octets).k
Begins(p) ==
    /\ \A i \in 1..Len(p.octets) : p.octets[i] = [pkt |-> p.octets[1].pkt, k |-> i - 1]
    /\ Len(p.octets) < p.octets[1].pkt.len
Sound(p) ==
    /\ Len(p.octets) > 0 /\ p.octets[1].k = 0
    /\ p.octets[1].pkt.pvn \in {pvnSpacePacket, pvnEncapsulationPacket}
    /\ p.octets[1].pkt.id # 0 => IF Overlong(p) THEN Tangled(p) ELSE Begins(p)
HandRight == packet # NoPacket =>
    /\ Sound(packet)
    /\ Own(sent, packet.octets[1]) /\ Own(sent, Last(packet.octets))
    /\ received # NoFrame => GoesOn(Last(packet.octets), received.data, 1)

Kept == /\ InvOrder /\ OrderReceived /\ OrderPacket /\ OrderOut
        /\ Flow /\ FlowNext /\ HandRight

LEMMA KeptInit == Init /\ Undisturbed => Kept
<1> SUFFICES ASSUME Init, Undisturbed PROVE Kept
  OBVIOUS
<1>1. /\ Len(wire) = 0 /\ wire = <<>> /\ frame = NoFrame /\ phase = "get" /\ linked = TRUE
      /\ unplugs = 0 /\ currentFrameNumber = 0 /\ rcvFrameNumber = 0 /\ hits = 0
      /\ received = NoFrame /\ packet = NoPacket /\ delivered = <<>> /\ GenInit
  BY DEF Init, GenInit, R!RcvInit
<1>2. Flow
  BY <1>1 DEF Flow, FlowFrame, FlowOk, FlowWire
<1>3. FlowNext
  <2>1. 0 \in 0..MaxHits /\ 0 + Spoilt <= hits /\ Plus(rcvFrameNumber, 0) = currentFrameNumber
    BY <1>1, LinkAssumption, FrameAssumption
       DEF LinkAssumption, FrameAssumption, Spoilt, Plus
  <2>2. ~Tipped
    BY <1>1 DEF Tipped
  <2>3. Follows(0, Plus(rcvFrameNumber, 0), Tip, 0 = 0 /\ Tipped)
    BY <1>1, <2>1, <2>2 DEF Follows
  <2> QED
    BY <2>1, <2>3 DEF FlowNext
<1>4. OrderReceived /\ OrderPacket /\ OrderOut /\ HandRight
  BY <1>1 DEF OrderReceived, OrderPacket, OrderOut, HandRight
<1> QED
  BY <1>1, <1>2, <1>3, <1>4, InitOrder DEF Kept

LEMMA TipOctet ==
    ASSUME LinkInv, HandRight, Tipped
    PROVE  Tip \in Octet
<1>1. CASE received # NoFrame
  <2>1. received.data \in Seq(Octet) /\ Len(received.data) \in 1..Len(received.data)
    BY <1>1, AtHandFrame
  <2> QED
    BY <1>1, <2>1 DEF Tip, Last
<1>2. CASE received = NoFrame
  <2>1. packet # NoPacket
    BY <1>2 DEF Tipped
  <2>2. packet.octets \in Seq(Octet) /\ Len(packet.octets) > 0
    BY <2>1, PacketAtHand DEF HandRight, Sound
  <2>3. Len(packet.octets) \in 1..Len(packet.octets)
    BY <2>2
  <2> QED
    BY <1>2, <2>2, <2>3 DEF Tip, Last
<1> QED
  BY <1>1, <1>2

LEMMA FirstOctet ==
    ASSUME LinkInv, HandRight, packet # NoPacket
    PROVE  /\ packet.octets \in Seq(Octet) /\ Len(packet.octets) \in Nat \ {0}
           /\ packet.octets[1] \in Octet /\ First \in Packet /\ First.id \in Nat
           /\ Last(packet.octets) \in Octet
<1>1. packet.octets \in Seq(Octet) /\ Len(packet.octets) > 0
  BY PacketAtHand DEF HandRight, Sound
<1>2. 1 \in 1..Len(packet.octets) /\ Len(packet.octets) \in 1..Len(packet.octets)
  BY <1>1
<1>3. packet.octets[1] \in Octet /\ Last(packet.octets) \in Octet
  BY <1>1, <1>2 DEF Last
<1> QED
  BY <1>1, <1>2, <1>3, OctetFields DEF First

\* What is kept when the receiver stands still and what follows stays so.
RcvStill == UNCHANGED <<rcvFrameNumber, received, headerPointer, packet, delivered>>
LEMMA StillOrder ==
    ASSUME LinkInv, Kept, RcvStill, DownKept \/ (\A x : Down(0, x) => Down(0, x)'),
           Len(sent) <= Len(sent'), \A i \in 1..Len(sent) : sent'[i] = sent[i]
    PROVE  OrderReceived' /\ OrderPacket' /\ OrderOut'
<1>1. Len(sent) \in Nat /\ Len(sent') >= Len(sent) /\ 0 \in Nat /\ 0 <= Len(wire)
  BY DEF LinkInv, Inv, InvTypes
<1>2. \A x \in Nat : Down(0, x) => Down(0, x)'
  BY <1>1 DEF DownKept
<1>3. UNCHANGED <<received, headerPointer, packet, delivered>> /\ HandRight
  BY DEF RcvStill, Kept
<1>4. OrderReceived'
  <2> SUFFICES ASSUME received # NoFrame
               PROVE  /\ Rising(received.data)
                      /\ \A i \in 1..Len(received.data) : received.data[i].k = 0
                            => \A x : x = received.data[i].pkt.id => Down(0, x)'
    BY <1>3 DEF OrderReceived
  <2>1. received.data \in Seq(Octet)
    BY AtHandFrame
  <2>2. \A i \in 1..Len(received.data) : received.data[i].pkt.id \in Nat
    BY <2>1, OctetsIn
  <2> QED
    BY <1>2, <2>2 DEF Kept, OrderReceived
<1>5. OrderPacket'
  <2> SUFFICES ASSUME packet # NoPacket
               PROVE  /\ \A x : x = First.id => Down(0, x)'
                      /\ received # NoFrame => Above(First.id, received.data, 1)
    BY <1>3 DEF OrderPacket, First
  <2>1. First.id \in Nat
    BY <1>3, FirstOctet
  <2> QED
    BY <1>2, <2>1 DEF Kept, OrderPacket
<1>6. OrderOut'
  <2> SUFFICES ASSUME delivered # <<>> PROVE OrderOut'
    BY <1>3 DEF OrderOut
  <2>1. PICK x \in 1..Len(sent) : Last(delivered) = OctetsOf(sent[x]) /\ Past(x)
    BY DEF Kept, OrderOut
  <2>2. x \in Nat /\ x \in 1..Len(sent') /\ sent'[x] = sent[x]
    BY <1>1
  <2>3. Past(x)'
    BY <1>2, <1>3, <2>1, <2>2 DEF Past, First
  <2> QED
    BY <1>3, <2>1, <2>2, <2>3 DEF OrderOut
<1> QED
  BY <1>4, <1>5, <1>6

LEMMA StillFlow ==
    ASSUME LinkInv, Kept, RcvStill, FollowsKept,
           \/ Spoilt' = Spoilt /\ hits' = hits
           \/ Spoilt = 0 /\ Spoilt' \in {0, 1} /\ hits' = hits + 1
    PROVE  FlowNext'
<1>1. PICK n \in 0..MaxHits :
          n + Spoilt <= hits /\ Follows(0, Plus(rcvFrameNumber, n), Tip, n = 0 /\ Tipped)
  BY DEF Kept, FlowNext
<1>2. PICK z, a, o, known :
          z = 0 /\ a = Plus(rcvFrameNumber, n) /\ o = Tip /\ known = (n = 0 /\ Tipped)
  OBVIOUS
<1>3. known \in BOOLEAN /\ (known => o \in Octet)
  BY <1>2, TipOctet DEF Kept
<1>4. z \in Nat /\ z <= Len(wire) /\ Follows(z, a, o, known)
  BY <1>1, <1>2 DEF LinkInv, Inv, InvTypes
<1>5. Follows(z, a, o, known)'
  BY <1>3, <1>4 DEF FollowsKept
<1>6. /\ Plus(rcvFrameNumber', n) = a /\ Tip' = o /\ (n = 0 /\ Tipped') = known
  <2>1. UNCHANGED <<rcvFrameNumber, received, packet>>
    BY DEF RcvStill
  <2>2. Plus(rcvFrameNumber', n) = a
    BY <1>2, <2>1
  <2>3. Tip' = o
    BY <1>2, <2>1 DEF Tip
  <2>4. Tipped' = Tipped
    BY <2>1 DEF Tipped
  <2> QED
    BY <1>2, <2>2, <2>3, <2>4
<1>7. n + Spoilt' <= hits'
  <2>1. n \in Nat /\ hits \in Nat /\ n + Spoilt <= hits
    BY <1>1, LinkAssumption DEF LinkAssumption, LinkInv, Others
  <2>2. CASE Spoilt' = Spoilt /\ hits' = hits
    BY <2>1, <2>2
  <2>3. CASE Spoilt = 0 /\ Spoilt' \in {0, 1} /\ hits' = hits + 1
    <3>1. n + 0 <= hits
      BY <2>1, <2>3
    <3>2. n + 0 <= hits + 1 /\ n + 1 <= hits + 1
      BY <2>1, <3>1
    <3> QED
      BY <2>3, <3>2
  <2> QED
    BY <2>2, <2>3
<1> QED
  BY <1>1, <1>2, <1>5, <1>6, <1>7 DEF FlowNext

LEMMA StillHand ==
    ASSUME LinkInv, Kept, RcvStill, \A o : Own(sent, o) => Own(sent', o)
    PROVE  HandRight'
<1>1. UNCHANGED <<received, packet>> /\ HandRight
  BY DEF RcvStill, Kept
<1> QED
  BY <1>1 DEF HandRight

LEMMA OwnKept ==
    ASSUME Inv, [GenNext]_genvars
    PROVE  /\ Len(sent) <= Len(sent') /\ \A i \in 1..Len(sent) : sent'[i] = sent[i]
           /\ \A o : Own(sent, o) => Own(sent', o)
<1>1. sent \in Seq(Packet) /\ Len(sent) \in Nat
  BY DEF Inv, InvTypes
<1>2. CASE sent' = sent
  BY <1>1, <1>2
<1>3. CASE \E s \in Shapes : sent' = Append(sent, Numbered(s)) /\ Arrive
  <2>1. PICK s \in Shapes : sent' = Append(sent, Numbered(s))
    BY <1>3
  <2>2. Numbered(s) \in Packet
    BY <1>1, NewPacket
  <2>3. Len(sent) <= Len(sent') /\ \A i \in 1..Len(sent) : sent'[i] = sent[i]
    BY <1>1, <2>1, <2>2, Appended
  <2>4. \A o : Own(sent, o) => Own(sent', o)
    BY <1>1, <2>1, <2>2, OwnGrows
  <2> QED
    BY <2>3, <2>4
<1> QED
  BY <1>2, <1>3, SentGrows

\* The generator's steps.
LEMMA KeptGenerate ==
    ASSUME LinkInv, Kept, Undisturbed, [GenNext]_genvars, UNCHANGED <<rcvonly, envvars>>
    PROVE  Kept'
<1>1. /\ Inv /\ InvData /\ InvOrder /\ Flow /\ MaxUnplugs = 0 /\ [GenNext]_genvars
      /\ RcvStill /\ hits' = hits
  BY DEF LinkInv, Kept, Undisturbed, RcvStill, rcvonly, envvars
<1>2. InvOrder' /\ DownKept
  BY <1>1, GenOrder
<1>3. Flow' /\ FollowsKept /\ Spoilt' = Spoilt
  BY <1>1, GenFlow
<1>4. /\ Len(sent) <= Len(sent') /\ \A i \in 1..Len(sent) : sent'[i] = sent[i]
      /\ \A o : Own(sent, o) => Own(sent', o)
  BY <1>1, OwnKept
<1>5. OrderReceived' /\ OrderPacket' /\ OrderOut'
  BY <1>1, <1>2, <1>4, StillOrder
<1>6. HandRight'
  BY <1>1, <1>4, StillHand
<1>7. FlowNext'
  BY <1>1, <1>3, StillFlow
<1> QED
  BY <1>2, <1>3, <1>5, <1>6, <1>7 DEF Kept

-----------------------------------------------------------------------------
\* The channel's steps.
LEMMA KeptSpoil == LinkInv /\ Kept /\ Spoil => Kept'
<1> SUFFICES ASSUME LinkInv, Kept, Spoil PROVE Kept'
  OBVIOUS
<1>1. Inv /\ InvData /\ InvOrder /\ Flow
  BY DEF LinkInv, Kept
<1>2. /\ InvOrder' /\ Flow' /\ DownKept /\ FollowsKept
      /\ wire # <<>> /\ wire[1].ok = TRUE /\ GenSame /\ hits' = hits + 1
  BY <1>1, SpoilKeeps
<1>3. RcvStill /\ sent' = sent
  BY DEF Spoil, Unhurt, rcvonly, RcvStill
<1>4. OrderReceived' /\ OrderPacket' /\ OrderOut'
  <2>1. Len(sent) <= Len(sent') /\ \A i \in 1..Len(sent) : sent'[i] = sent[i]
    BY <1>3 DEF LinkInv, Inv, InvTypes
  <2> QED
    BY <1>2, <1>3, <2>1, StillOrder
<1>5. HandRight'
  BY <1>3, StillHand
<1>6. FlowNext'
  <2>1. Spoilt = 0 /\ Spoilt' \in {0, 1}
    BY <1>2 DEF Spoilt
  <2> QED
    BY <1>2, <1>3, <2>1, StillFlow
<1> QED
  BY <1>2, <1>4, <1>5, <1>6 DEF Kept

LEMMA KeptIdle == LinkInv /\ Kept /\ InsertIdle => Kept'
<1> SUFFICES ASSUME LinkInv, Kept, InsertIdle PROVE Kept'
  OBVIOUS
<1>1. Inv /\ InvData /\ InvOrder /\ Flow
  BY DEF LinkInv, Kept
<1>2. /\ InvOrder' /\ Flow' /\ DownKept /\ FollowsKept /\ GenSame /\ hits' = hits
      /\ Len(wire) \in Nat /\ Len(wire') = Len(wire) + 1
      /\ \A a \in 1..Len(wire) : wire'[a] = wire[a]
      /\ wire'[Len(wire) + 1] = IdleFrame
  BY <1>1, IdleKeeps
<1>3. RcvStill /\ sent' = sent
  BY DEF InsertIdle, Unhurt, rcvonly, RcvStill
<1>4. OrderReceived' /\ OrderPacket' /\ OrderOut'
  <2>1. Len(sent) <= Len(sent') /\ \A i \in 1..Len(sent) : sent'[i] = sent[i]
    BY <1>3 DEF LinkInv, Inv, InvTypes
  <2> QED
    BY <1>2, <1>3, <2>1, StillOrder
<1>5. HandRight'
  BY <1>3, StillHand
<1>6. FlowNext'
  <2>1. Spoilt' = Spoilt
    <3>1. CASE Len(wire) = 0
      <4>1. wire = <<>>
        BY <1>1, <3>1 DEF Inv, InvTypes
      <4>2. wire'[1] = IdleFrame
        BY <1>2, <3>1
      <4> QED
        BY <4>1, <4>2 DEF Spoilt, IdleFrame
    <3>2. CASE Len(wire) # 0
      <4>1. 1 \in 1..Len(wire)
        BY <1>2, <3>2
      <4>2. wire'[1] = wire[1] /\ wire # <<>> /\ wire' # <<>>
        BY <1>1, <1>2, <4>1 DEF Inv, InvTypes
      <4> QED
        BY <4>2 DEF Spoilt
    <3> QED
      BY <3>1, <3>2
  <2> QED
    BY <1>2, <1>3, <2>1, StillFlow
<1> QED
  BY <1>2, <1>4, <1>5, <1>6 DEF Kept

\* Counting on from a frame number.
LEMMA PlusNext ==
    ASSUME NEW c \in 0..MaxVCFrameCount, NEW n \in Nat, n + 1 <= MaxVCFrameCount
    PROVE  IncFrameNumber(Plus(c, n)) = Plus(c, n + 1)
  BY FrameAssumption DEF FrameAssumption, IncFrameNumber, Plus

LEMMA PlusNone ==
    ASSUME NEW c \in 0..MaxVCFrameCount, NEW n \in 0..MaxVCFrameCount, Plus(c, n) = c
    PROVE  n = 0
  BY FrameAssumption DEF FrameAssumption, Plus

\* The frame at the head of the wire is gone.
Gone == wire # <<>> /\ wire' = Tail(wire) /\ GenSame

LEMMA HeadDown ==
    ASSUME LinkInv, Gone, NEW x, Down(0, x)
    PROVE  Down(0, x)'
<1>1. PICK z : z = 0
  OBVIOUS
<1>2. z \in Nat /\ Down(z, x)
  BY <1>1
<1>3. Down(z + 1, x)
  BY <1>1, <1>2 DEF Down, LinkInv, Inv, InvTypes
<1>4. wire \in Seq(Frame)
  BY DEF LinkInv, Inv, InvTypes
<1>5. Down(z, x)'
  BY <1>2, <1>3, <1>4, TailDown DEF Gone
<1> QED
  BY <1>1, <1>5

LEMMA GoneFollows ==
    ASSUME LinkInv, Gone, NEW z, z = 0, NEW n, NEW o, NEW known, Follows(z + 1, n, o, known)
    PROVE  Follows(z, n, o, known)'
<1>1. wire \in Seq(Frame) /\ z \in Nat
  BY DEF LinkInv, Inv, InvTypes
<1> QED
  BY <1>1, TailFollows DEF Gone

LEMMA GoneWire ==
    ASSUME LinkInv, Kept, Gone
    PROVE  InvOrder' /\ Flow' /\ Spoilt' = 0
<1>1. Inv /\ InvOrder /\ Flow
  BY DEF LinkInv, Kept
<1>2. InvOrder' /\ Flow' /\ \A a \in 1..Len(wire') : wire'[a].ok = TRUE
  BY <1>1, TailOrder, TailFlow DEF Gone
<1>3. wire' \in Seq(Frame)
  <2>1. wire \in Seq(Frame)
    BY <1>1 DEF Inv, InvTypes
  <2> QED
    BY <2>1, HeadTail DEF Gone
<1>4. wire' # <<>> => wire'[1].ok = TRUE
  <2> SUFFICES ASSUME wire' # <<>> PROVE wire'[1].ok = TRUE
    OBVIOUS
  <2>1. 1 \in 1..Len(wire')
    BY <1>3
  <2> QED
    BY <1>2, <2>1
<1>5. Spoilt' = 0
  BY <1>4 DEF Spoilt
<1> QED
  BY <1>2, <1>5

\* The next busy frame on the wire, and what is behind it.
LEMMA BusyNext ==
    ASSUME LinkInv, Kept, wire # <<>>, wire[1].fhp # OnlyIdleData, NEW z, z = 0
    PROVE  Follows(z + 1, IncFrameNumber(wire[1].num), Last(wire[1].data), TRUE)
<1>1. 1 \in 1..Len(wire) /\ Busy(1)
  BY DEF LinkInv, Inv, InvTypes, Busy
<1>2. Follows(1, IncFrameNumber(wire[1].num), Last(wire[1].data), TRUE)
  BY <1>1 DEF Kept, Flow, FlowWire
<1>3. z + 1 = 1
  OBVIOUS
<1> QED
  BY <1>2, <1>3

\* A frame that is not taken: an idle one, or one that counts as missed.
LEMMA GoneNext ==
    ASSUME LinkInv, Kept, Undisturbed, Gone, RcvStill, hits' \in {hits, hits + 1},
           hits' <= MaxHits,
           wire[1].fhp # OnlyIdleData => hits' = hits + 1 \/ Spoilt = 1
    PROVE  FlowNext'
<1>1. PICK n \in 0..MaxHits :
          n + Spoilt <= hits /\ Follows(0, Plus(rcvFrameNumber, n), Tip, n = 0 /\ Tipped)
  BY DEF Kept, FlowNext
<1>2. PICK z, a, o, known :
          z = 0 /\ a = Plus(rcvFrameNumber, n) /\ o = Tip /\ known = (n = 0 /\ Tipped)
  OBVIOUS
<1>3. /\ Follows(z, a, o, known) /\ wire \in Seq(Frame) /\ n \in Nat /\ hits \in Nat
      /\ rcvFrameNumber \in 0..MaxVCFrameCount /\ Spoilt \in {0, 1}
      /\ wire # <<>> /\ MaxHits \in Nat /\ MaxHits <= MaxVCFrameCount /\ MaxVCFrameCount \in Nat
  BY <1>1, <1>2, LinkAssumption, FrameAssumption
     DEF LinkInv, Inv, InvTypes, Others, RcvTypes, Spoilt, LinkAssumption, FrameAssumption, Gone,
         Undisturbed
<1>4. n <= hits /\ (Spoilt = 1 => n + 1 <= hits)
  <2>1. CASE Spoilt = 0
    <3>1. n + 0 <= hits
      BY <1>1, <2>1
    <3> QED
      BY <1>3, <2>1, <3>1
  <2>2. CASE Spoilt = 1
    <3>1. n + 1 <= hits
      BY <1>1, <2>2
    <3> QED
      BY <1>3, <3>1
  <2> QED
    BY <1>3, <2>1, <2>2
<1>5. Spoilt' = 0 /\ Tip' = Tip /\ Tipped' = Tipped /\ rcvFrameNumber' = rcvFrameNumber
  <2>1. UNCHANGED <<rcvFrameNumber, received, packet>>
    BY DEF RcvStill
  <2> QED
    BY <2>1, GoneWire DEF Tip, Tipped
<1>6. CASE ~Busy(1)
  <2>1. Follows(z + 1, a, o, known)
    <3>1. ~Busy(z + 1)
      BY <1>2, <1>6
    <3> QED
      BY <1>2, <1>3, <3>1, IdleHead
  <2>2. Follows(z, a, o, known)'
    BY <1>2, <2>1, GoneFollows
  <2>3. n + 0 <= hits'
    BY <1>3, <1>4
  <2>4. Plus(rcvFrameNumber', n) = a /\ Tip' = o /\ (n = 0 /\ Tipped') = known
    BY <1>2, <1>5
  <2> QED
    BY <1>1, <1>2, <1>5, <2>2, <2>3, <2>4 DEF FlowNext
<1>7. CASE Busy(1)
  <2>1. wire[1].fhp # OnlyIdleData /\ wire[1].num = a
    BY <1>2, <1>3, <1>7, BusyHead DEF Busy
  <2>2. PICK m, b, k : m = n + 1 /\ b = IncFrameNumber(a) /\ k = (m = 0 /\ Tipped)
    OBVIOUS
  <2>3. m \in 0..MaxHits /\ m + 0 <= hits' /\ m # 0
    BY <1>3, <1>4, <2>1, <2>2
  <2>4. k = FALSE
    BY <2>2, <2>3
  <2>5. b = Plus(rcvFrameNumber, m)
    BY <1>2, <1>3, <2>2, <2>3, PlusNext
  <2>6. Follows(z + 1, b, o, k)
    <3>1. Follows(z + 1, b, Last(wire[1].data), TRUE)
      BY <1>2, <1>3, <2>1, <2>2, BusyNext
    <3> QED
      BY <2>4, <3>1 DEF Follows
  <2>7. Follows(z, b, o, k)'
    BY <1>2, <2>6, GoneFollows
  <2>8. Plus(rcvFrameNumber', m) = b /\ Tip' = o /\ (m = 0 /\ Tipped') = k
    BY <1>2, <1>5, <2>2, <2>5
  <2> QED
    BY <1>2, <1>5, <2>3, <2>7, <2>8 DEF FlowNext
<1> QED
  BY <1>6, <1>7

LEMMA KeptGone ==
    ASSUME LinkInv, Kept, Undisturbed, Gone, RcvStill, hits' \in {hits, hits + 1},
           hits' <= MaxHits,
           wire[1].fhp # OnlyIdleData => hits' = hits + 1 \/ Spoilt = 1
    PROVE  Kept'
<1>1. InvOrder' /\ Flow'
  BY GoneWire
<1>2. sent' = sent /\ \A x : Down(0, x) => Down(0, x)'
  BY HeadDown DEF Gone, GenSame
<1>3. OrderReceived' /\ OrderPacket' /\ OrderOut'
  <2>1. Len(sent) <= Len(sent') /\ \A i \in 1..Len(sent) : sent'[i] = sent[i]
    BY <1>2 DEF LinkInv, Inv, InvTypes
  <2> QED
    BY <1>2, <2>1, StillOrder
<1>4. HandRight'
  BY <1>2, StillHand
<1> QED
  BY <1>1, <1>3, <1>4, GoneNext DEF Kept

LEMMA KeptLose == LinkInv /\ Kept /\ Lose /\ Undisturbed => Kept'
<1> SUFFICES ASSUME LinkInv, Kept, Lose, Undisturbed PROVE Kept'
  OBVIOUS
<1>1. Gone /\ RcvStill /\ hits' = hits + 1 /\ hits < MaxHits
  BY DEF Lose, Unhurt, rcvonly, Gone, GenSame, RcvStill
<1>2. hits' <= MaxHits
  BY <1>1, LinkAssumption DEF LinkAssumption, LinkInv, Others
<1> QED
  BY <1>1, <1>2, KeptGone

LEMMA KeptIgnore == LinkInv /\ Kept /\ Ignore /\ RcvSame /\ Undisturbed => Kept'
<1> SUFFICES ASSUME LinkInv, Kept, Ignore, RcvSame, Undisturbed PROVE Kept'
  OBVIOUS
<1>1. /\ wire # <<>> /\ R!Ignored(Head(wire)) /\ wire' = Tail(wire) /\ hits' = hits
      /\ RcvStill
  BY DEF Ignore, R!Ignore, envvars, RcvStill
<1>2. Gone
  BY <1>1 DEF Gone, GenSame, RcvSame
<1>3. wire[1].fhp # OnlyIdleData => Spoilt = 1
  <2>1. Head(wire) \in Frame /\ Head(wire) = wire[1]
    BY <1>1, HeadFrame DEF LinkInv
  <2>2. wire[1].ok \in BOOLEAN
    BY <2>1 DEF Frame
  <2> QED
    BY <1>1, <2>1, <2>2 DEF R!Ignored, R!Rejected, R!Uncounted, R!OnlyIdleData, OnlyIdleData, Spoilt
<1>4. hits' <= MaxHits
  BY <1>1, LinkAssumption DEF LinkAssumption, LinkInv, Others
<1> QED
  BY <1>1, <1>2, <1>3, <1>4, KeptGone

\* A frame is taken: it goes on with the packet at hand, if its number is the one expected.
LEMMA TakenNext ==
    ASSUME LinkInv, Kept, Undisturbed, received = NoFrame, packet # NoPacket,
           wire # <<>>, wire[1].fhp # OnlyIdleData, wire[1].num = rcvFrameNumber
    PROVE  GoesOn(Last(packet.octets), wire[1].data, 1)
<1>1. PICK n \in 0..MaxHits :
          n + Spoilt <= hits /\ Follows(0, Plus(rcvFrameNumber, n), Tip, n = 0 /\ Tipped)
  BY DEF Kept, FlowNext
<1>2. PICK z, a, o, known :
          z = 0 /\ a = Plus(rcvFrameNumber, n) /\ o = Tip /\ known = (n = 0 /\ Tipped)
  OBVIOUS
<1>3. /\ Follows(z, a, o, known) /\ wire \in Seq(Frame)
      /\ rcvFrameNumber \in 0..MaxVCFrameCount
      /\ MaxHits \in Nat /\ MaxHits <= MaxVCFrameCount /\ MaxVCFrameCount \in Nat
  BY <1>1, <1>2, LinkAssumption, FrameAssumption
     DEF LinkInv, Inv, InvTypes, RcvTypes, LinkAssumption, FrameAssumption, Undisturbed
<1>4. wire[1].num = a /\ (known => GoesOn(o, wire[1].data, 1))
  BY <1>2, <1>3, BusyHead
<1>5. n = 0
  <2>1. n \in 0..MaxVCFrameCount /\ Plus(rcvFrameNumber, n) = rcvFrameNumber
    BY <1>2, <1>3, <1>4
  <2> QED
    BY <1>3, <2>1, PlusNone
<1>6. Tipped /\ o = Last(packet.octets)
  BY <1>2 DEF Tipped, Tip
<1>7. known
  BY <1>2, <1>5, <1>6
<1> QED
  BY <1>4, <1>6, <1>7

LEMMA KeptTake == LinkInv /\ Kept /\ Take /\ RcvSame /\ Undisturbed => Kept'
<1> SUFFICES ASSUME LinkInv, Kept, Take, RcvSame, Undisturbed PROVE Kept'
  OBVIOUS
<1>1. PICK f : f = Head(wire)
  OBVIOUS
<1>2. /\ received = NoFrame /\ wire # <<>> /\ f.fhp # OnlyIdleData
      /\ wire' = Tail(wire) /\ received' = f /\ headerPointer' = 0
      /\ f \in Frame /\ f = wire[1]
      /\ rcvFrameNumber' = IncFrameNumber(f.num)
      /\ packet' = IF f.num # rcvFrameNumber THEN NoPacket ELSE packet
      /\ UNCHANGED delivered
  BY <1>1, DidTake DEF Take
<1>3. Gone /\ sent' = sent /\ hits' = 0
  BY <1>2 DEF Gone, GenSame, RcvSame, Take
<1>4. f # NoFrame /\ f.data \in Seq(Octet) /\ f.num \in 0..MaxVCFrameCount
  BY <1>2, GenAssumption DEF GenAssumption, Frame
<1>5. wire \in Seq(Frame) /\ 1 \in 1..Len(wire) /\ Len(wire) \in Nat
  BY <1>2 DEF LinkInv, Inv, InvTypes
<1>6. InvOrder' /\ Flow' /\ Spoilt' = 0
  BY <1>3, GoneWire
<1>7. \A x : Down(0, x) => Down(0, x)' /\ Above(x, f.data, 1)
  <2> SUFFICES ASSUME NEW x, Down(0, x) PROVE Down(0, x)' /\ Above(x, f.data, 1)
    OBVIOUS
  <2>1. Above(x, f.data, 1)
    BY <1>2, <1>5 DEF Down
  <2> QED
    BY <1>3, <2>1, HeadDown
<1>8. FlowNext'
  <2>1. PICK z, b, o, k : z = 0 /\ b = IncFrameNumber(f.num) /\ o = Last(f.data) /\ k = TRUE
    OBVIOUS
  <2>2. Follows(z + 1, b, o, TRUE)
    BY <1>2, <2>1, BusyNext
  <2>3. Follows(z + 1, b, o, k)
    BY <2>1, <2>2
  <2>4. Follows(z, b, o, k)'
    BY <1>3, <2>1, <2>3, GoneFollows
  <2>5. Plus(rcvFrameNumber', 0) = b
    BY <1>2, <1>4, <2>1, FrameAssumption DEF Plus, IncFrameNumber, FrameAssumption
  <2>6. Tip' = o /\ Tipped'
    BY <1>2, <1>4, <2>1 DEF Tip, Tipped
  <2>7. (0 = 0 /\ Tipped') = k
    BY <2>1, <2>6
  <2>8. 0 \in 0..MaxHits /\ 0 + Spoilt' <= hits'
    BY <1>3, <1>6, LinkAssumption DEF LinkAssumption
  <2> QED
    BY <2>1, <2>4, <2>5, <2>6, <2>7, <2>8 DEF FlowNext
<1>9. OrderReceived'
  <2>1. Rising(f.data) /\ \A i \in 1..Len(f.data) : f.data[i].k = 0 => Down(1, f.data[i].pkt.id)
    BY <1>2, <1>5 DEF Kept, InvOrder, OrderWire
  <2>2. \A i \in 1..Len(f.data) : f.data[i].k = 0
           => \A x : x = f.data[i].pkt.id => Down(0, x)'
    <3> SUFFICES ASSUME NEW i \in 1..Len(f.data), f.data[i].k = 0,
                        NEW x, x = f.data[i].pkt.id
                 PROVE  Down(0, x)'
      OBVIOUS
    <3>1. PICK z : z = 0
      OBVIOUS
    <3>2. Down(z + 1, x) /\ z \in Nat
      BY <2>1, <3>1
    <3>3. Down(z, x)'
      BY <1>3, <1>5, <3>2, TailDown DEF Gone
    <3> QED
      BY <3>1, <3>3
  <2> QED
    BY <1>2, <2>1, <2>2 DEF OrderReceived
<1>10. OrderPacket'
  <2> SUFFICES ASSUME packet' # NoPacket PROVE OrderPacket'
    BY DEF OrderPacket
  <2>1. packet' = packet
    BY <1>2
  <2>2. Down(0, First.id)
    BY <2>1 DEF Kept, OrderPacket
  <2>3. \A x : x = First.id => Down(0, x)' /\ Above(x, f.data, 1)
    BY <1>7, <2>2
  <2> QED
    BY <1>2, <2>1, <2>3 DEF OrderPacket, First
<1>11. OrderOut'
  <2> SUFFICES ASSUME delivered # <<>> PROVE OrderOut'
    BY <1>2 DEF OrderOut
  <2>1. PICK x \in 1..Len(sent) : Last(delivered) = OctetsOf(sent[x]) /\ Past(x)
    BY DEF Kept, OrderOut
  <2>2. Down(0, x)' /\ Above(x, f.data, 1)
    BY <1>7, <2>1 DEF Past
  <2>3. headerPointer' + 1 = 1 /\ (packet' # NoPacket => packet' = packet)
    BY <1>2
  <2>4. Past(x)'
    BY <1>2, <2>1, <2>2, <2>3 DEF Past, First
  <2> QED
    BY <1>2, <1>3, <2>1, <2>4 DEF OrderOut
<1>12. HandRight'
  <2> SUFFICES ASSUME packet' # NoPacket PROVE HandRight'
    BY DEF HandRight
  <2>1. packet' = packet /\ wire[1].num = rcvFrameNumber /\ packet # NoPacket
    BY <1>2
  <2>2. GoesOn(Last(packet.octets), f.data, 1)
    BY <1>2, <2>1, TakenNext
  <2> QED
    BY <1>2, <1>3, <2>1, <2>2 DEF HandRight, Kept
<1> QED
  BY <1>6, <1>8, <1>9, <1>10, <1>11, <1>12 DEF Kept

-----------------------------------------------------------------------------
(* A pass of the loop over a frame.                                        *)

LEMMA StandStill ==
    ASSUME GenSame, wire' = wire
    PROVE  /\ \A a, x : Down(a, x)' <=> Down(a, x)
           /\ \A i, n, o, known : Follows(i, n, o, known)' <=> Follows(i, n, o, known)
           /\ InvOrder => InvOrder'
           /\ Flow => Flow'
           /\ Spoilt' = Spoilt
<1>1. (\A x : Coming(x)' <=> Coming(x)) /\ (\A o : GenAfter(o)' <=> GenAfter(o))
  BY SameComing
<1>2. UNCHANGED <<frame, currentFrameNumber, linked, unplugs>>
  BY DEF GenSame
<1>3. \A a, x : Down(a, x)' <=> Down(a, x)
  BY <1>1, <1>2 DEF Down
<1>4. \A i, n, o, known : Follows(i, n, o, known)' <=> Follows(i, n, o, known)
  BY <1>1, <1>2 DEF Follows, NextBusy, NoneBusy, Busy
<1>5. InvOrder => InvOrder'
  <2>1. InvOrder => OrderQueue' /\ OrderUnit' /\ OrderFrame'
    BY SameQueue
  <2>2. OrderWire => OrderWire'
    BY <1>3 DEF OrderWire
  <2> QED
    BY <2>1, <2>2 DEF InvOrder
<1>6. Flow => Flow'
  <2>1. FlowWire => FlowWire'
    BY <1>4 DEF FlowWire, Busy
  <2>2. FlowFrame /\ FlowOk => FlowFrame' /\ FlowOk'
    BY <1>2 DEF FlowFrame, FlowOk
  <2> QED
    BY <1>2, <2>1, <2>2 DEF Flow
<1>7. Spoilt' = Spoilt
  BY DEF Spoilt
<1> QED
  BY <1>3, <1>4, <1>5, <1>6, <1>7

\* The packet sent as number y is handed on: it comes after whatever was handed on before.
HandsOn(y) == /\ y \in 1..Len(sent) /\ delivered' = Append(delivered, OctetsOf(sent[y]))
              /\ \A x : Past(x) => x < y

\* What a pass that goes on at idx may do: give up or finish with what is at hand, hand a
\* packet on, or keep p for the next frame.
PassedTo(idx) ==
    /\ received # NoFrame /\ idx \in Nat /\ idx >= headerPointer /\ MoveTo(idx) /\ RestSame
    /\ \/ packet' = NoPacket /\ delivered' = delivered
       \/ /\ packet' = NoPacket
          /\ \E y : HandsOn(y) /\ Down(0, y) /\ Above(y, received.data, idx + 1)
       \/ /\ FrameDone /\ delivered' = delivered
          /\ \E p : /\ packet' = p /\ Sound(p) /\ Own(sent, p.octets[1])
                    /\ Last(p.octets) = Last(received.data)
                    /\ \/ packet # NoPacket /\ p.octets[1] = packet.octets[1]
                       \/ Here.k = 0 /\ p.octets[1] = Here

LEMMA AboveLater ==
    ASSUME NEW x, NEW d \in Seq(Octet), NEW i \in Nat, NEW j \in Nat, i <= j, Above(x, d, i)
    PROVE  Above(x, d, j)
<1> SUFFICES ASSUME NEW a \in j..Len(d) PROVE a \in i..Len(d)
  BY DEF Above
<1> QED
  OBVIOUS

LEMMA PassedFlow ==
    ASSUME LinkInv, Kept, RcvSame, UNCHANGED envvars, NEW idx, PassedTo(idx)
    PROVE  FlowNext' /\ HandRight'
<1>1. received # NoFrame /\ MoveTo(idx) /\ RestSame /\ GenSame /\ wire' = wire
      /\ hits' = hits /\ sent' = sent /\ rcvFrameNumber' = rcvFrameNumber
  BY DEF PassedTo, RestSame, RcvSame, GenSame, envvars
<1>2. received' # NoFrame => received' = received /\ packet' = NoPacket
  BY <1>1 DEF PassedTo, MoveTo, FrameDone
<1>3. packet' # NoPacket => received' = NoFrame /\ Last(packet'.octets) = Last(received.data)
  BY DEF PassedTo, FrameDone
<1>4. Tipped /\ Tip = Last(received.data) /\ (Tipped' => Tip' = Tip)
  BY <1>1, <1>2, <1>3 DEF Tipped, Tip
<1>5. PICK n \in 0..MaxHits :
          n + Spoilt <= hits /\ Follows(0, Plus(rcvFrameNumber, n), Tip, n = 0 /\ Tipped)
  BY DEF Kept, FlowNext
<1>6. Spoilt' = Spoilt
      /\ \A i, a, o, known : Follows(i, a, o, known)' <=> Follows(i, a, o, known)
  BY <1>1, StandStill
<1>7. FlowNext'
  <2>1. PICK z, a, o, known :
            z = 0 /\ a = Plus(rcvFrameNumber, n) /\ o = Tip /\ known = (n = 0 /\ Tipped)
    OBVIOUS
  <2>2. Follows(z, a, o, known)
    BY <1>5, <2>1
  <2>3. PICK u, k : u = Tip' /\ k = (n = 0 /\ Tipped')
    OBVIOUS
  <2>4. k => known /\ u = o
    BY <1>4, <2>1, <2>3
  <2>5. Follows(z, a, u, k)
    BY <2>2, <2>4 DEF Follows
  <2>6. Follows(z, a, u, k)'
    BY <1>6, <2>5
  <2>7. Plus(rcvFrameNumber', n) = a
    BY <1>1, <2>1
  <2>8. n + Spoilt' <= hits'
    BY <1>1, <1>5, <1>6
  <2> QED
    BY <2>1, <2>3, <2>6, <2>7, <2>8 DEF FlowNext
<1>8. HandRight'
  <2> SUFFICES ASSUME packet' # NoPacket PROVE HandRight'
    BY DEF HandRight
  <2>1. PICK p : /\ packet' = p /\ Sound(p) /\ Own(sent, p.octets[1])
                 /\ Last(p.octets) = Last(received.data)
    BY DEF PassedTo
  <2>2. Own(sent, Last(received.data))
    <3>1. received.data \in Seq(Octet) /\ Len(received.data) \in 1..Len(received.data)
      BY <1>1, AtHandFrame
    <3>2. Good(sent, received.data)
      BY <1>1 DEF LinkInv, RcvFrame
    <3> QED
      BY <3>1, <3>2 DEF Good, Last
  <2>3. received' = NoFrame
    BY <1>3
  <2> QED
    BY <1>1, <2>1, <2>2, <2>3 DEF HandRight
<1> QED
  BY <1>7, <1>8

LEMMA PassedOrder ==
    ASSUME LinkInv, Kept, RcvSame, UNCHANGED envvars, NEW idx, PassedTo(idx)
    PROVE  OrderReceived' /\ OrderPacket' /\ OrderOut'
<1>1. /\ received # NoFrame /\ MoveTo(idx) /\ GenSame /\ wire' = wire /\ sent' = sent
      /\ idx \in Nat /\ idx >= headerPointer
  BY DEF PassedTo, RestSame, RcvSame, GenSame
<1>2. \A x : Down(0, x)' <=> Down(0, x)
  BY <1>1, StandStill
<1>3. received' # NoFrame => received' = received /\ packet' = NoPacket /\ headerPointer' = idx
  BY <1>1 DEF PassedTo, MoveTo, FrameDone
<1>4. received.data \in Seq(Octet) /\ headerPointer \in Nat /\ headerPointer + 1 \in 1..Len(received.data)
      /\ Here \in Octet
  BY <1>1, AtHandFrame
<1>5. OrderReceived'
  <2> SUFFICES ASSUME received' # NoFrame
               PROVE  /\ Rising(received.data)
                      /\ \A i \in 1..Len(received.data) : received.data[i].k = 0
                            => \A x : x = received.data[i].pkt.id => Down(0, x)'
    BY <1>3 DEF OrderReceived
  <2> QED
    BY <1>1, <1>2 DEF Kept, OrderReceived
<1>6. OrderPacket'
  <2> SUFFICES ASSUME packet' # NoPacket PROVE OrderPacket'
    BY DEF OrderPacket
  <2>1. PICK p : /\ packet' = p
                 /\ \/ packet # NoPacket /\ p.octets[1] = packet.octets[1]
                    \/ Here.k = 0 /\ p.octets[1] = Here
    BY DEF PassedTo
  <2>2. PICK x : x = p.octets[1].pkt.id
    OBVIOUS
  <2>3. Down(0, x)
    <3>1. CASE packet # NoPacket /\ p.octets[1] = packet.octets[1]
      BY <2>2, <3>1 DEF Kept, OrderPacket, First
    <3>2. CASE Here.k = 0 /\ p.octets[1] = Here
      BY <1>1, <1>4, <2>2, <3>2 DEF Kept, OrderReceived, Here
    <3> QED
      BY <2>1, <3>1, <3>2
  <2>4. Down(0, x)' /\ received' = NoFrame
    BY <1>2, <1>3, <2>3
  <2> QED
    BY <2>1, <2>2, <2>4 DEF OrderPacket, First
<1>7. CASE delivered' = delivered
  <2> SUFFICES ASSUME delivered # <<>> PROVE OrderOut'
    BY <1>5, <1>6, <1>7 DEF OrderOut
  <2>1. PICK x \in 1..Len(sent) : Last(delivered) = OctetsOf(sent[x]) /\ Past(x)
    BY DEF Kept, OrderOut
  <2>2. received' # NoFrame => Above(x, received.data, idx + 1)
    <3>1. Above(x, received.data, headerPointer + 1)
      BY <1>1, <2>1 DEF Past
    <3> QED
      BY <1>1, <1>4, <3>1, AboveLater
  <2>3. packet' # NoPacket /\ packet'.octets[1].pkt.id # 0 => x < packet'.octets[1].pkt.id
    <3> SUFFICES ASSUME packet' # NoPacket, packet'.octets[1].pkt.id # 0
                 PROVE  x < packet'.octets[1].pkt.id
      OBVIOUS
    <3>1. \/ packet # NoPacket /\ packet'.octets[1] = packet.octets[1]
          \/ Here.k = 0 /\ packet'.octets[1] = Here
      BY DEF PassedTo, HandsOn
    <3>2. CASE packet # NoPacket /\ packet'.octets[1] = packet.octets[1]
      BY <2>1, <3>2 DEF Past, First
    <3>3. CASE Here.k = 0 /\ packet'.octets[1] = Here
      <4>1. headerPointer + 1 \in headerPointer + 1..Len(received.data)
        BY <1>4
      <4> QED
        BY <1>1, <2>1, <3>3, <4>1 DEF Past, Above, Here
    <3> QED
      BY <3>1, <3>2, <3>3
  <2>4. Down(0, x)'
    BY <1>2, <2>1 DEF Past
  <2>5. Past(x)'
    BY <1>3, <2>2, <2>3, <2>4 DEF Past, First
  <2> QED
    BY <1>1, <1>7, <2>1, <2>5, <1>5, <1>6 DEF OrderOut
<1>8. CASE delivered' # delivered
  <2>1. PICK y : HandsOn(y) /\ Down(0, y) /\ Above(y, received.data, idx + 1)
    BY <1>8 DEF PassedTo
  <2>2. packet' = NoPacket
    BY <1>8 DEF PassedTo
  <2>3. Past(y)'
    BY <1>2, <1>3, <2>1, <2>2 DEF Past
  <2>4. Last(delivered') = OctetsOf(sent[y]) /\ y \in 1..Len(sent)
    <3>1. delivered \in Seq(Seq(Octet)) /\ delivered' = Append(delivered, OctetsOf(sent[y]))
      BY <2>1 DEF LinkInv, RcvTypes, HandsOn
    <3> QED
      BY <2>1, <3>1 DEF HandsOn, Last
  <2>5. OrderOut'
    BY <1>1, <2>3, <2>4 DEF OrderOut
  <2> QED
    BY <1>5, <1>6, <2>5
<1> QED
  BY <1>7, <1>8

LEMMA KeptPassed ==
    ASSUME LinkInv, Kept, RcvSame, UNCHANGED envvars, NEW idx, PassedTo(idx)
    PROVE  Kept'
<1>1. GenSame /\ wire' = wire
  BY DEF PassedTo, RestSame, RcvSame, GenSame
<1>2. InvOrder' /\ Flow'
  BY <1>1, StandStill DEF Kept
<1> QED
  BY <1>2, PassedFlow, PassedOrder DEF Kept

LEMMA KeptAbort ==
    ASSUME LinkInv, Kept, R!Abort, RcvSame, UNCHANGED envvars
    PROVE  Kept'
<1>1. GenSame /\ wire' = wire /\ RcvStill /\ hits' = hits /\ sent' = sent
  BY DEF R!Abort, RcvSame, GenSame, RcvStill, envvars
<1>2. /\ InvOrder' /\ Flow' /\ Spoilt' = Spoilt /\ \A x : Down(0, x) => Down(0, x)'
  BY <1>1, StandStill DEF Kept
<1>3. FollowsKept
  BY <1>1, StandStill DEF FollowsKept
<1>4. OrderReceived' /\ OrderPacket' /\ OrderOut'
  <2>1. Len(sent) <= Len(sent') /\ \A i \in 1..Len(sent) : sent'[i] = sent[i]
    BY <1>1 DEF LinkInv, Inv, InvTypes
  <2> QED
    BY <1>1, <1>2, <2>1, StillOrder
<1>5. HandRight' /\ FlowNext'
  BY <1>1, <1>2, <1>3, StillHand, StillFlow
<1> QED
  BY <1>2, <1>4, <1>5 DEF Kept

\* The passes that start nothing and hand nothing on.
LEMMA GivesUp ==
    ASSUME LinkInv, Kept, R!Discard \/ R!Skip \/ R!PassFill \/ R!LostTail
    PROVE  \E idx : PassedTo(idx)
<1>1. CASE R!Discard
  <2>1. received # NoFrame /\ FrameDone /\ RestSame /\ UNCHANGED <<packet, delivered>>
    BY <1>1, DidDiscard
  <2>2. packet = NoPacket
    <3> SUFFICES ASSUME packet # NoPacket PROVE FALSE
      OBVIOUS
    <3>1. packet.octets[1].pkt.pvn \in {pvnSpacePacket, pvnEncapsulationPacket}
      BY DEF Kept, HandRight, Sound
    <3>2. R!Supported
      BY <3>1 DEF R!Supported, R!CurrentPVN, R!pvnSpacePacket, R!pvnEncapsulationPacket,
                  pvnSpacePacket, pvnEncapsulationPacket
    <3> QED
      BY <1>1, <3>2 DEF R!Discard
  <2>3. PassedTo(headerPointer)
    BY <2>1, <2>2, AtHandFrame DEF PassedTo, MoveTo
  <2> QED
    BY <2>3
<1>2. CASE R!Skip
  <2>1. /\ received # NoFrame /\ packet = NoPacket /\ headerPointer = 0
        /\ RestSame /\ UNCHANGED <<packet, delivered>>
        /\ MoveTo(0) \/ (received.fhp \in Nat /\ MoveTo(received.fhp))
    BY <1>2, DidSkip
  <2>2. PassedTo(0) \/ PassedTo(received.fhp)
    BY <2>1 DEF PassedTo
  <2> QED
    BY <2>2
<1>3. CASE R!PassFill
  <2>1. /\ received # NoFrame /\ packet = NoPacket
        /\ RestSame /\ UNCHANGED <<packet, delivered>>
        /\ Here.pkt.len = 1 /\ MoveTo(headerPointer + Here.pkt.len)
    BY <1>3, DidPassFill
  <2>2. headerPointer + 1 \in Nat /\ headerPointer + 1 >= headerPointer
    BY <2>1, AtHandFrame
  <2>3. PassedTo(headerPointer + 1)
    BY <2>1, <2>2 DEF PassedTo
  <2> QED
    BY <2>3
<1>4. CASE R!LostTail
  <2>1. /\ received # NoFrame /\ headerPointer = 0
        /\ packet' = NoPacket /\ RestSame /\ UNCHANGED delivered /\ MoveTo(0)
    BY <1>4, DidLostTail
  <2>2. PassedTo(0)
    BY <2>1 DEF PassedTo
  <2> QED
    BY <2>2
<1> QED
  BY <1>1, <1>2, <1>3, <1>4

-----------------------------------------------------------------------------
(* A packet that starts in the frame at hand.                              *)

\* Behind its first octet come its others.
LEMMA RunsOn ==
    ASSUME LinkInv, received # NoFrame, Here.k = 0,
           NEW j \in 1..Len(Left), j <= Here.pkt.len
    PROVE  received.data[headerPointer + j] = [pkt |-> Here.pkt, k |-> j - 1]
<1>1. /\ received.data \in Seq(Octet) /\ headerPointer \in Nat
      /\ headerPointer + 1 \in 1..Len(received.data) /\ Here \in Octet
      /\ Len(received.data) \in Nat
  BY AtHandFrame
<1>2. headerPointer + j \in 1..Len(received.data) /\ j \in Nat
  BY <1>1, LeftLen
<1>3. CASE j = 1
  <2>1. Here = [pkt |-> Here.pkt, k |-> 0]
    BY <1>1 DEF Octet
  <2> QED
    BY <1>3, <2>1 DEF Here
<1>4. CASE j # 1
  <2>1. Runs(received.data)
    BY DEF LinkInv, RcvFrame, Good
  <2>2. GoesOn(Here, received.data, headerPointer + 1 + 1)
    BY <1>1, <2>1 DEF Runs, Here
  <2>3. headerPointer + j \in headerPointer + 1 + 1..Len(received.data)
    BY <1>1, <1>2, <1>4
  <2>4. Here.k + 1 + (headerPointer + j) - (headerPointer + 1 + 1) = j - 1
    BY <1>1, <1>2
  <2>5. j - 1 < Here.pkt.len
    BY <1>1, <1>2, OctetFields
  <2> QED
    BY <2>2, <2>3, <2>4, <2>5 DEF GoesOn
<1> QED
  BY <1>3, <1>4

LEMMA AllOctets ==
    ASSUME NEW p \in Packet, NEW d \in Seq(Octet), Len(d) = p.len,
           \A j \in 1..Len(d) : d[j] = [pkt |-> p, k |-> j - 1]
    PROVE  d = OctetsOf(p)
<1>1. d = [j \in 1..Len(d) |-> d[j]]
  OBVIOUS
<1>2. d = [j \in 1..p.len |-> [pkt |-> p, k |-> j - 1]]
  BY <1>1
<1> QED
  BY <1>2 DEF OctetsOf

\* A whole packet is handed on.
LEMMA WholeHanded ==
    ASSUME LinkInv, Kept, received # NoFrame, Here.k = 0, Here.pkt.len <= Len(Left), RestSame,
           NEW c \in Nat, packet = NoPacket, packet' = NoPacket, Hand(Piece(Here.pkt.len, c)),
           MoveTo(headerPointer + Here.pkt.len)
    PROVE  PassedTo(headerPointer + Here.pkt.len)
<1>1. /\ received.data \in Seq(Octet) /\ headerPointer \in Nat
      /\ headerPointer + 1 \in 1..Len(received.data) /\ Here \in Octet /\ Own(sent, Here)
  BY AtHandFrame
<1>2. PICK len : len = Here.pkt.len
  OBVIOUS
<1>3. len \in Nat \ {0} /\ Here.pkt \in Packet /\ Here.pkt.id \in Nat
  BY <1>1, <1>2, OctetFields
<1>4. headerPointer + len \in Nat /\ headerPointer + len >= headerPointer
  BY <1>1, <1>3
<1>5. len \in 1..Len(Left)
  BY <1>2, <1>3, LeftLen
<1>6. PICK p : p = Piece(len, c)
  OBVIOUS
<1>7. /\ p.octets \in Seq(Octet) /\ Len(p.octets) = len
      /\ \A j \in 1..len : p.octets[j] = received.data[headerPointer + j]
  BY <1>5, <1>6, PieceIs, FragmentFields
<1>8. \A j \in 1..len : p.octets[j] = [pkt |-> Here.pkt, k |-> j - 1]
  <2> SUFFICES ASSUME NEW j \in 1..len PROVE p.octets[j] = [pkt |-> Here.pkt, k |-> j - 1]
    OBVIOUS
  <2>1. j \in 1..Len(Left) /\ j <= Here.pkt.len
    BY <1>2, <1>3, <1>5, LeftLen
  <2> QED
    BY <1>7, <2>1, RunsOn
<1>9. p.octets[1].pkt = Here.pkt
  <2>1. 1 \in 1..len
    BY <1>3
  <2>2. p.octets[1] = [pkt |-> Here.pkt, k |-> 1 - 1]
    BY <1>8, <2>1
  <2> QED
    BY <2>2
<1>10. CASE delivered' = delivered
  BY <1>2, <1>4, <1>10 DEF PassedTo
<1>11. CASE delivered' # delivered
  <2>1. Here.pkt.id # 0 /\ delivered' = Append(delivered, p.octets)
    BY <1>2, <1>6, <1>9, <1>11 DEF Hand
  <2>2. PICK y : y = Here.pkt.id
    OBVIOUS
  <2>3. y \in 1..Len(sent) /\ sent[y] = Here.pkt
    BY <1>1, <2>1, <2>2 DEF Own
  <2>4. p.octets = OctetsOf(sent[y])
    BY <1>2, <1>3, <1>7, <1>8, <2>3, AllOctets
  <2>5. \A x : Past(x) => x < y
    <3> SUFFICES ASSUME NEW x, Past(x) PROVE x < y
      OBVIOUS
    <3>1. Above(x, received.data, headerPointer + 1)
      BY DEF Past
    <3>2. headerPointer + 1 \in headerPointer + 1..Len(received.data)
      BY <1>1
    <3> QED
      BY <2>1, <2>2, <3>1, <3>2 DEF Above, Here
  <2>6. HandsOn(y)
    BY <2>1, <2>3, <2>4, <2>5 DEF HandsOn
  <2>7. Down(0, y) /\ Rising(received.data)
    BY <1>1, <2>2 DEF Kept, OrderReceived, Here
  <2>8. Above(y, received.data, headerPointer + len + 1)
    <3>1. Above(y, received.data, headerPointer + 1 + 1)
      BY <1>1, <2>2, <2>7 DEF Rising, Here
    <3>2. headerPointer + 1 + 1 \in Nat /\ headerPointer + len + 1 \in Nat
          /\ headerPointer + 1 + 1 <= headerPointer + len + 1
      BY <1>1, <1>3
    <3> QED
      BY <1>1, <3>1, <3>2, AboveLater
  <2> QED
    BY <1>2, <1>4, <2>6, <2>7, <2>8 DEF PassedTo
<1> QED
  BY <1>10, <1>11

\* A packet whose end is not in the frame is begun.
LEMMA BegunSound ==
    ASSUME LinkInv, Undisturbed, received # NoFrame, Here.k = 0,
           Here.pkt.pvn \in {pvnSpacePacket, pvnEncapsulationPacket},
           NEW n, n = Len(Left), NEW c \in Nat,
           \/ Here.pkt.hdr > n /\ c = n
           \/ /\ Here.pkt.hdr <= n /\ c = Here.pkt.hdr
              /\ Here.pkt.pvn = pvnSpacePacket \/ Here.pkt.len > n,
           NEW p, p = Piece(n, c)
    PROVE  /\ Sound(p) /\ p.octets[1] = Here /\ Last(p.octets) = Last(received.data)
<1>1. /\ received.data \in Seq(Octet) /\ headerPointer \in Nat /\ Here \in Octet
      /\ Own(sent, Here) /\ Len(received.data) = DataFieldLen
  BY AtHandFrame
<1>2. /\ n \in Nat \ {0} /\ n <= DataFieldLen /\ n = Len(received.data) - headerPointer
      /\ DataFieldLen \in Nat
  <2>1. n \in 1..DataFieldLen /\ n = Len(received.data) - headerPointer
    BY LeftLen
  <2>2. DataFieldLen \in Nat
    BY FrameAssumption DEF FrameAssumption
  <2> QED
    BY <2>1, <2>2
<1>3. n \in 1..Len(Left)
  BY <1>2
<1>4. /\ p.octets \in Seq(Octet) /\ Len(p.octets) = n /\ p.cut = c
      /\ \A j \in 1..n : p.octets[j] = received.data[headerPointer + j]
  BY <1>3, PieceIs, FragmentFields
<1>5. \A j \in 1..n : j <= Here.pkt.len => p.octets[j] = [pkt |-> Here.pkt, k |-> j - 1]
  BY <1>4, RunsOn
<1>6. 1 \in 1..n /\ n \in 1..n
  BY <1>2
<1>7. p.octets[1] = Here
  BY <1>4, <1>6 DEF Here
<1>8. Last(p.octets) = Last(received.data)
  <2>1. headerPointer + n = Len(received.data)
    BY <1>1, <1>2
  <2> QED
    BY <1>4, <1>6, <2>1 DEF Last
<1>9. /\ Here.pkt.len \in Nat \ {0} /\ Here.pkt.hdr \in Nat \ {0} /\ Here.pkt.id \in Nat
  BY <1>1, OctetFields
<1>10. Here.pkt.id # 0 => IF Overlong(p) THEN Tangled(p) ELSE Begins(p)
  <2> SUFFICES ASSUME Here.pkt.id # 0
               PROVE  IF Overlong(p) THEN Tangled(p) ELSE Begins(p)
    OBVIOUS
  <2>1. Shape(Here.pkt) \in Shapes
    BY <1>1 DEF Own
  <2>2. /\ Here.pkt.hdr <= Here.pkt.len
        /\ Here.pkt.pvn = pvnSpacePacket => Here.pkt.hdr = 6 /\ 7 <= Here.pkt.len
    BY <2>1, FormatAssumption DEF FormatAssumption, Shape
  <2>3. CASE Overlong(p)
    <3>1. Here.pkt.pvn = pvnSpacePacket /\ c >= 5
      BY <1>4, <1>7, <2>3 DEF Overlong
    <3>2. c <= 6 /\ n >= 5
      BY <1>2, <2>2, <3>1
    <3>3. \A i \in 1..n : i <= 6 => p.octets[i] = [pkt |-> Here.pkt, k |-> i - 1]
      <4> SUFFICES ASSUME NEW i \in 1..n, i <= 6
                   PROVE  p.octets[i] = [pkt |-> Here.pkt, k |-> i - 1]
        OBVIOUS
      <4>1. i <= Here.pkt.len
        BY <1>2, <1>9, <2>2, <3>1
      <4> QED
        BY <1>5, <4>1
    <3>4. n <= DataFieldLen + Last(p.octets).k
      <4>1. Last(p.octets).k \in Nat
        BY <1>4, <1>6, OctetsIn DEF Last
      <4> QED
        BY <1>2, <4>1
    <3>5. Tangled(p)
      BY <1>4, <1>7, <3>2, <3>3, <3>4 DEF Tangled
    <3> QED
      BY <2>3, <3>5
  <2>4. CASE ~Overlong(p)
    <3>1. Here.pkt.pvn = pvnSpacePacket => c < 5
      BY <1>4, <1>7, <2>4 DEF Overlong
    <3>2. n < Here.pkt.len
      BY <1>2, <1>9, <2>2, <3>1
    <3>3. \A i \in 1..n : p.octets[i] = [pkt |-> Here.pkt, k |-> i - 1]
      <4> SUFFICES ASSUME NEW i \in 1..n
                   PROVE  p.octets[i] = [pkt |-> Here.pkt, k |-> i - 1]
        OBVIOUS
      <4>1. i <= Here.pkt.len
        BY <1>2, <1>9, <3>2
      <4> QED
        BY <1>5, <4>1
    <3>4. Begins(p)
      BY <1>4, <1>7, <3>2, <3>3 DEF Begins
    <3> QED
      BY <2>4, <3>4
  <2> QED
    BY <2>3, <2>4
<1>11. Sound(p)
  BY <1>2, <1>4, <1>7, <1>10 DEF Sound
<1> QED
  BY <1>7, <1>8, <1>11

LEMMA StartPasses ==
    ASSUME LinkInv, Kept, Undisturbed, R!Start
    PROVE  R!Abort \/ \E idx : PassedTo(idx)
<1>1. /\ received # NoFrame /\ packet = NoPacket /\ Here.k = 0
      /\ Here.pkt.pvn \in {pvnSpacePacket, pvnEncapsulationPacket}
  BY DidStart, HeaderRead
<1>2. /\ Here \in Octet /\ Own(sent, Here) /\ headerPointer \in Nat /\ Here.pkt.hdr \in Nat
      /\ Len(Left) \in Nat
  BY <1>1, AtHandFrame, OctetFields, LeftLen
<1>3. CASE /\ FrameDone /\ RestSame /\ UNCHANGED delivered
           /\ \/ Here.pkt.hdr > Len(Left) /\ packet' = Piece(Len(Left), Len(Left))
              \/ /\ Here.pkt.hdr <= Len(Left)
                 /\ packet' = Piece(Len(Left), Here.pkt.hdr)
                 /\ Here.pkt.pvn = pvnSpacePacket \/ Here.pkt.len > Len(Left)
  <2>1. PICK c \in Nat : /\ packet' = Piece(Len(Left), c)
                         /\ \/ Here.pkt.hdr > Len(Left) /\ c = Len(Left)
                            \/ /\ Here.pkt.hdr <= Len(Left) /\ c = Here.pkt.hdr
                               /\ Here.pkt.pvn = pvnSpacePacket \/ Here.pkt.len > Len(Left)
    BY <1>2, <1>3
  <2>2. PICK p : p = Piece(Len(Left), c)
    OBVIOUS
  <2>3. Sound(p) /\ p.octets[1] = Here /\ Last(p.octets) = Last(received.data)
    BY <1>1, <2>1, <2>2, BegunSound
  <2>4. PassedTo(headerPointer)
    BY <1>1, <1>2, <1>3, <2>1, <2>2, <2>3 DEF PassedTo, MoveTo
  <2> QED
    BY <2>4
<1>4. CASE /\ Here.pkt.len <= Len(Left)
           /\ packet' = NoPacket /\ Hand(Piece(Here.pkt.len, Here.pkt.hdr))
           /\ MoveTo(headerPointer + Here.pkt.len) /\ RestSame
  <2>1. PassedTo(headerPointer + Here.pkt.len)
    BY <1>1, <1>2, <1>4, WholeHanded
  <2> QED
    BY <2>1
<1> QED
  BY <1>3, <1>4, DidStart

-----------------------------------------------------------------------------
(* More of the packet at hand.                                             *)

Goes == received # NoFrame /\ packet # NoPacket /\ headerPointer = 0 /\ received.fhp > 0

\* The frame goes on with the packet the last octet at hand is of, up to the first start.
LEMMA GoesThrough ==
    ASSUME LinkInv, Kept, Goes, NEW o, o = Last(packet.octets)
    PROVE  /\ o \in Octet /\ Own(sent, o) /\ o.k \in Nat /\ o.pkt.len \in Nat
           /\ o.k + 1 + MoreLen <= o.pkt.len
           /\ received.fhp # NoPacketStart => o.k + 1 + MoreLen = o.pkt.len
           /\ \A j \in 1..MoreLen : received.data[j] = [pkt |-> o.pkt, k |-> o.k + j]
<1>1. o \in Octet /\ Own(sent, o) /\ GoesOn(o, received.data, 1)
  BY FirstOctet DEF Goes, Kept, HandRight
<1>2. o.k \in Nat /\ o.pkt.len \in Nat /\ o.k < o.pkt.len
  BY <1>1, OctetFields DEF Own
<1>3. PICK m, D : m = MoreLen /\ D = Len(received.data)
  OBVIOUS
<1>4. /\ m \in Nat \ {0} /\ D \in Nat /\ m <= D
      /\ m < D => received.data[m + 1].k = 0
      /\ received.fhp # NoPacketStart => m < D
  BY <1>3, LongerIs, AtHandFrame DEF Goes
<1>5. \A j \in 1..m : received.data[j].k # 0
  BY <1>3, AtHandFrame DEF MoreLen, Settled, Unsettled, Goes
<1>6. \A j \in 1..D : /\ o.k + j < o.pkt.len => received.data[j] = [pkt |-> o.pkt, k |-> o.k + j]
                      /\ o.k + j = o.pkt.len => received.data[j].k = 0
  <2> SUFFICES ASSUME NEW j \in 1..D
               PROVE  /\ o.k + j < o.pkt.len => received.data[j] = [pkt |-> o.pkt, k |-> o.k + j]
                      /\ o.k + j = o.pkt.len => received.data[j].k = 0
    OBVIOUS
  <2>1. o.k + 1 + j - 1 = o.k + j
    BY <1>2, <1>4
  <2>2. /\ o.k + 1 + j - 1 < o.pkt.len
               => received.data[j] = [pkt |-> o.pkt, k |-> o.k + 1 + j - 1]
        /\ o.k + 1 + j - 1 = o.pkt.len => received.data[j].k = 0
    BY <1>1, <1>3 DEF GoesOn
  <2> QED
    BY <2>1, <2>2
<1>7. o.k + 1 + m <= o.pkt.len
  <2> SUFFICES ASSUME o.k + 1 + m > o.pkt.len PROVE FALSE
    BY <1>2, <1>4
  <2>1. PICK r : r = o.pkt.len - o.k
    OBVIOUS
  <2>2. r \in 1..m /\ r \in 1..D /\ o.k + r = o.pkt.len
    BY <1>2, <1>4, <2>1
  <2> QED
    BY <1>5, <1>6, <2>2
<1>8. received.fhp # NoPacketStart => o.k + 1 + m = o.pkt.len
  <2> SUFFICES ASSUME m < D, o.k + 1 + m # o.pkt.len PROVE FALSE
    BY <1>4
  <2>1. PICK j : j = m + 1
    OBVIOUS
  <2>2. j \in 1..D /\ o.k + j < o.pkt.len /\ o.k + j # 0
    BY <1>2, <1>4, <1>7, <2>1
  <2>3. received.data[j].k = o.k + j
    <3>1. received.data[j] = [pkt |-> o.pkt, k |-> o.k + j]
      BY <1>6, <2>2
    <3> QED
      BY <3>1
  <2> QED
    BY <1>4, <2>1, <2>2, <2>3
<1>9. \A j \in 1..m : received.data[j] = [pkt |-> o.pkt, k |-> o.k + j]
  <2> SUFFICES ASSUME NEW j \in 1..m PROVE received.data[j] = [pkt |-> o.pkt, k |-> o.k + j]
    OBVIOUS
  <2>1. j \in 1..D /\ o.k + j < o.pkt.len
    BY <1>2, <1>4, <1>7
  <2> QED
    BY <1>6, <2>1
<1> QED
  BY <1>1, <1>2, <1>3, <1>7, <1>8, <1>9

\* The part of one packet that is at hand gets longer, and is whole when the next one starts.
LEMMA BeginsOn ==
    ASSUME LinkInv, Kept, Goes, Begins(packet)
    PROVE  /\ Len(Longer.octets) <= First.len
           /\ received.fhp # NoPacketStart => Len(Longer.octets) = First.len
           /\ \A i \in 1..Len(Longer.octets) : Longer.octets[i] = [pkt |-> First, k |-> i - 1]
<1>1. PICK o, n, m : o = Last(packet.octets) /\ n = Len(packet.octets) /\ m = MoreLen
  OBVIOUS
<1>2. n \in Nat \ {0} /\ First.len \in Nat
  BY <1>1, FirstOctet DEF Goes, Kept, Packet
<1>3. /\ m \in Nat \ {0} /\ Len(Longer.octets) = n + m
      /\ \A j \in 1..n : Longer.octets[j] = packet.octets[j]
      /\ \A j \in 1..m : Longer.octets[n + j] = received.data[j]
  BY <1>1, LongerIs DEF Goes
<1>4. n < First.len /\ \A i \in 1..n : packet.octets[i] = [pkt |-> First, k |-> i - 1]
  BY <1>1 DEF Begins, First
<1>5. o = [pkt |-> First, k |-> n - 1]
  BY <1>1, <1>2, <1>4 DEF Last
<1>6. /\ o.k + 1 + m <= o.pkt.len
      /\ received.fhp # NoPacketStart => o.k + 1 + m = o.pkt.len
      /\ \A j \in 1..m : received.data[j] = [pkt |-> o.pkt, k |-> o.k + j]
  BY <1>1, GoesThrough
<1>7. o.pkt = First /\ o.k = n - 1 /\ o.k + 1 + m = n + m
  BY <1>2, <1>3, <1>5
<1>8. \A i \in 1..n + m : Longer.octets[i] = [pkt |-> First, k |-> i - 1]
  <2> SUFFICES ASSUME NEW i \in 1..n + m
               PROVE  Longer.octets[i] = [pkt |-> First, k |-> i - 1]
    OBVIOUS
  <2>1. CASE i \in 1..n
    BY <1>3, <1>4, <2>1
  <2>2. CASE i \notin 1..n
    <3>1. PICK j : j = i - n
      OBVIOUS
    <3>2. j \in 1..m /\ n + j = i /\ o.k + j = i - 1
      BY <1>2, <1>3, <1>7, <2>2, <3>1
    <3>3. received.data[j] = [pkt |-> First, k |-> i - 1]
      BY <1>6, <1>7, <3>2
    <3> QED
      BY <1>3, <3>2, <3>3
  <2> QED
    BY <2>1, <2>2
<1> QED
  BY <1>3, <1>6, <1>7, <1>8

\* What is known of a packet that was sent.
LEMMA SentShape ==
    ASSUME LinkInv, HandRight, packet # NoPacket, First.id # 0
    PROVE  /\ Shape(First) \in Shapes /\ First.hdr <= First.len
           /\ First.hdr \in Nat \ {0} /\ First.len \in Nat \ {0}
           /\ First.pvn = pvnSpacePacket => First.hdr = 6 /\ 7 <= First.len
           /\ First.id \in 1..Len(sent) /\ sent[First.id] = First
<1>1. Own(sent, packet.octets[1]) /\ packet.octets[1] \in Octet
  BY FirstOctet DEF HandRight
<1>2. Shape(First) \in Shapes /\ First.id \in 1..Len(sent) /\ sent[First.id] = First
  BY <1>1 DEF Own, First
<1>3. /\ Shape(First).hdr = First.hdr /\ Shape(First).len = First.len
      /\ Shape(First).pvn = First.pvn
  BY DEF Shape
<1>4. First.hdr \in Nat \ {0} /\ First.len \in Nat \ {0}
  BY <1>1, OctetFields DEF First
<1> QED
  BY <1>2, <1>3, <1>4, FormatAssumption DEF FormatAssumption

LEMMA BeginsExpected ==
    ASSUME LinkInv, Kept, Undisturbed, Goes, First.id # 0, Begins(packet), ~Overlong(packet),
           NEW e \in R!ExpectedLengths(Longer)
    PROVE  e = First.len
<1>1. /\ Shape(First) \in Shapes /\ First.hdr <= First.len
      /\ First.hdr \in Nat \ {0} /\ First.len \in Nat \ {0}
  BY SentShape DEF Kept, Goes
<1>2. First.hdr <= DataFieldLen + 1
  BY <1>1 DEF Undisturbed, Shape
<1>3. PICK t : t = Len(Longer.octets)
  OBVIOUS
<1>4. /\ t <= First.len
      /\ received.fhp # NoPacketStart => t = First.len
      /\ \A i \in 1..t : Longer.octets[i] = [pkt |-> First, k |-> i - 1]
  BY <1>3, BeginsOn
<1>5. /\ t = Len(packet.octets) + MoreLen /\ MoreLen \in Nat \ {0}
      /\ Len(packet.octets) \in Nat \ {0} /\ Longer.cut = packet.cut
  BY <1>3, LongerIs, FirstOctet DEF Goes, Kept
<1>6. t >= First.hdr
  <2>1. CASE received.fhp # NoPacketStart
    BY <1>1, <1>4, <2>1
  <2>2. CASE received.fhp = NoPacketStart
    <3>1. MoreLen = DataFieldLen /\ DataFieldLen \in Nat
      BY <2>2, AtHandFrame DEF MoreLen, Goes
    <3> QED
      BY <1>1, <1>2, <1>5, <3>1
  <2> QED
    BY <2>1, <2>2
<1>7. Longer.octets[1].pkt = First /\ \A i \in 1..First.hdr : Longer.octets[i].pkt = First
  <2>1. t \in Nat /\ 1 \in 1..t
    BY <1>5
  <2>2. \A i \in 1..First.hdr : i \in 1..t
    BY <1>1, <1>6, <2>1
  <2>3. \A i \in 1..t : Longer.octets[i].pkt = First
    <3> SUFFICES ASSUME NEW i \in 1..t PROVE Longer.octets[i].pkt = First
      OBVIOUS
    <3>1. Longer.octets[i] = [pkt |-> First, k |-> i - 1]
      BY <1>4
    <3> QED
      BY <3>1
  <2> QED
    BY <2>1, <2>2, <2>3
<1>8. R!ExpectedLengths(Longer) = {R!StoredLength(First, packet.cut)}
  BY <1>3, <1>5, <1>6, <1>7 DEF R!ExpectedLengths
<1>9. First.pvn # pvnSpacePacket \/ ~(packet.cut >= 5)
  BY DEF Overlong, First
<1>10. packet.cut \in Nat
  BY PacketAtHand, FragmentFields DEF Goes
<1>11. R!StoredLength(First, packet.cut) = First.len
  <2>1. First.pvn # pvnSpacePacket \/ packet.cut < 5
    BY <1>9, <1>10
  <2> QED
    BY <2>1 DEF R!StoredLength, R!pvnSpacePacket, pvnSpacePacket
<1> QED
  BY <1>8, <1>11

\* What the length field says when it was stored over a copy of five octets, or of six.
LEMMA StoredLong ==
    ASSUME NEW p, p.pvn = pvnSpacePacket, p.len \in Nat, p.len >= 7, NEW c \in {5, 6}
    PROVE  R!StoredLength(p, c) \in Nat /\ R!StoredLength(p, c) >= 65287
<1>1. CASE c = 5
  <2>1. PICK x : x = p.len - 7
    OBVIOUS
  <2>2. x \in Nat
    BY <2>1
  <2>3. x % 256 \in 0..255
    BY <2>2, SMT
  <2>4. R!StoredLength(p, c) = 65287 + (x % 256)
    BY <1>1, <2>1 DEF R!StoredLength, R!pvnSpacePacket, pvnSpacePacket
  <2> QED
    BY <2>3, <2>4
<1>2. CASE c = 6
  BY <1>2, LongLength
<1> QED
  BY <1>1, <1>2

\* The last octet at hand is not too far from the end of what it is of.
LEMMA NotSoLong ==
    ASSUME LinkInv, Undisturbed, NEW s \in Shapes, s.pvn = pvnSpacePacket,
           NEW o \in Octet, Own(sent, o)
    PROVE  o.pkt.len + DataFieldLen <= 65287
<1>1. DataFieldLen \in Nat /\ DataFieldLen <= 2045
  BY FrameAssumption DEF FrameAssumption
<1>2. CASE o.pkt.id # 0
  <2>1. Shape(o.pkt) \in Shapes
    BY <1>2 DEF Own
  <2> QED
    BY <2>1 DEF Undisturbed, Shape
<1>3. CASE o.pkt.id = 0
  <2>1. Filler(o.pkt)
    BY <1>3 DEF Own
  <2>2. o.pkt.len \in Nat
    BY OctetFields
  <2>3. o.pkt.len = 1 \/ o.pkt.len = 7 \/ o.pkt.len <= DataFieldLen
    BY <2>1 DEF Filler, FillPacket
  <2> QED
    BY <1>1, <2>2, <2>3
<1> QED
  BY <1>2, <1>3

\* A Space Packet begun with a length that is too long.
LEMMA TangledOn ==
    ASSUME LinkInv, Kept, Undisturbed, Goes, First.id # 0, Overlong(packet), Tangled(packet),
           NEW t, t = Len(Longer.octets)
    PROVE  /\ t \in Nat /\ t >= 6 /\ t < 65287
           /\ \A i \in 1..t : i <= 6 => Longer.octets[i] = [pkt |-> First, k |-> i - 1]
           /\ received.fhp = NoPacketStart => t <= DataFieldLen + Last(received.data).k
<1>1. PICK o, n, m : o = Last(packet.octets) /\ n = Len(packet.octets) /\ m = MoreLen
  OBVIOUS
<1>2. n \in Nat \ {0} /\ DataFieldLen \in Nat
  BY <1>1, FirstOctet, FrameAssumption DEF Goes, Kept, FrameAssumption
<1>3. /\ m \in Nat \ {0} /\ t = n + m
      /\ \A j \in 1..n : Longer.octets[j] = packet.octets[j]
      /\ \A j \in 1..m : Longer.octets[n + j] = received.data[j]
  BY <1>1, LongerIs DEF Goes
<1>4. /\ \A i \in 1..n : i <= 6 => packet.octets[i] = [pkt |-> First, k |-> i - 1]
      /\ n >= 5 /\ n <= DataFieldLen + o.k
  BY <1>1 DEF Tangled, First
<1>5. /\ o \in Octet /\ Own(sent, o) /\ o.k \in Nat /\ o.pkt.len \in Nat
      /\ o.k + 1 + m <= o.pkt.len
      /\ \A j \in 1..m : received.data[j] = [pkt |-> o.pkt, k |-> o.k + j]
  BY <1>1, GoesThrough
<1>6. o.pkt.len + DataFieldLen <= 65287
  <2>1. Shape(First) \in Shapes
    BY SentShape DEF Kept, Goes
  <2>2. Shape(First).pvn = pvnSpacePacket
    BY DEF Overlong, First, Shape
  <2> QED
    BY <1>5, <2>1, <2>2, NotSoLong
<1>7. t \in Nat /\ t >= 6 /\ t < 65287
  BY <1>2, <1>3, <1>4, <1>5, <1>6
<1>8. \A i \in 1..t : i <= 6 => Longer.octets[i] = [pkt |-> First, k |-> i - 1]
  <2> SUFFICES ASSUME NEW i \in 1..t, i <= 6
               PROVE  Longer.octets[i] = [pkt |-> First, k |-> i - 1]
    OBVIOUS
  <2>1. CASE i \in 1..n
    BY <1>3, <1>4, <2>1
  <2>2. CASE i \notin 1..n
    <3>1. n = 5 /\ i = n + 1
      BY <1>2, <1>3, <1>4, <2>2
    <3>2. 5 \in 1..n /\ 1 \in 1..m
      BY <1>3, <3>1
    <3>3. o = [pkt |-> First, k |-> 4]
      BY <1>1, <1>4, <3>1, <3>2 DEF Last
    <3>4. received.data[1] = [pkt |-> o.pkt, k |-> o.k + 1]
      BY <1>5, <3>2
    <3>5. received.data[1] = [pkt |-> First, k |-> 5]
      BY <3>3, <3>4
    <3>6. Longer.octets[n + 1] = received.data[1]
      BY <1>3, <3>2
    <3> QED
      BY <3>1, <3>5, <3>6
  <2> QED
    BY <2>1, <2>2
<1>9. received.fhp = NoPacketStart => t <= DataFieldLen + Last(received.data).k
  <2> SUFFICES ASSUME received.fhp = NoPacketStart
               PROVE  t <= DataFieldLen + Last(received.data).k
    OBVIOUS
  <2>1. m = Len(received.data) /\ m \in 1..m
    BY <1>1, <1>3 DEF MoreLen
  <2>2. Last(received.data) = [pkt |-> o.pkt, k |-> o.k + m]
    BY <1>5, <2>1 DEF Last
  <2>3. Last(received.data).k = o.k + m
    BY <2>2
  <2> QED
    BY <1>2, <1>3, <1>4, <1>5, <2>3
<1> QED
  BY <1>7, <1>8, <1>9

LEMMA TangledExpected ==
    ASSUME LinkInv, Kept, Undisturbed, Goes, First.id # 0, Overlong(packet), Tangled(packet),
           NEW e \in R!ExpectedLengths(Longer)
    PROVE  e \in Nat /\ e >= 65287
<1>1. PICK t : t = Len(Longer.octets)
  OBVIOUS
<1>2. /\ t \in Nat /\ t >= 6
      /\ \A i \in 1..t : i <= 6 => Longer.octets[i] = [pkt |-> First, k |-> i - 1]
  BY <1>1, TangledOn
<1>3. First.pvn = pvnSpacePacket /\ packet.cut \in {5, 6}
  <2>1. packet.cut \in Nat
    BY PacketAtHand, FragmentFields DEF Goes
  <2> QED
    BY <2>1 DEF Overlong, Tangled, First
<1>4. First.hdr = 6 /\ 7 <= First.len /\ First.len \in Nat
  BY <1>3, SentShape DEF Kept, Goes
<1>5. Longer.octets[1].pkt = First /\ \A i \in 1..6 : Longer.octets[i].pkt = First
  <2>1. \A i \in 1..6 : i \in 1..t
    BY <1>2
  <2>2. \A i \in 1..6 : Longer.octets[i].pkt = First
    <3> SUFFICES ASSUME NEW i \in 1..6 PROVE Longer.octets[i].pkt = First
      OBVIOUS
    <3>1. Longer.octets[i] = [pkt |-> First, k |-> i - 1]
      BY <1>2, <2>1
    <3> QED
      BY <3>1
  <2>3. 1 \in 1..6
    OBVIOUS
  <2> QED
    BY <2>2, <2>3
<1>6. Longer.cut = packet.cut
  BY LongerIs DEF Goes
<1>7. R!ExpectedLengths(Longer) = {R!StoredLength(First, packet.cut)}
  BY <1>1, <1>2, <1>4, <1>5, <1>6 DEF R!ExpectedLengths
<1> QED
  BY <1>3, <1>4, <1>7, StoredLong

\* A packet that has its end is handed on only if it is all there, and there is no more of it.
LEMMA EndHanded ==
    ASSUME LinkInv, Kept, Undisturbed, Goes, RestSame, MoveTo(MoreLen), packet' = NoPacket,
           NEW e \in R!ExpectedLengths(Longer), Len(Longer.octets) = e, Hand(Longer)
    PROVE  PassedTo(MoreLen)
<1>1. /\ MoreLen \in Nat \ {0} /\ headerPointer = 0 /\ received # NoFrame /\ packet # NoPacket
      /\ Longer \in Fragment /\ Longer.octets[1] = packet.octets[1] /\ First.id \in Nat
      /\ Longer.octets \in Seq(Octet) /\ First \in Packet
  <2>1. packet # NoPacket /\ Len(packet.octets) \in Nat \ {0} /\ First \in Packet
        /\ First.id \in Nat
    BY FirstOctet DEF Goes, Kept
  <2>2. 1 \in 1..Len(packet.octets)
    BY <2>1
  <2> QED
    BY <2>1, <2>2, LongerIs, FragmentFields DEF Goes
<1>2. CASE delivered' = delivered
  BY <1>1, <1>2 DEF PassedTo
<1>3. CASE delivered' # delivered
  <2>1. First.id # 0 /\ delivered' = Append(delivered, Longer.octets)
    BY <1>1, <1>3 DEF Hand, First
  <2>2. IF Overlong(packet) THEN Tangled(packet) ELSE Begins(packet)
    BY <1>1, <2>1 DEF Kept, HandRight, Sound, First
  <2>3. PICK t : t = Len(Longer.octets)
    OBVIOUS
  <2>4. ~Overlong(packet)
    <3> SUFFICES ASSUME Overlong(packet) PROVE FALSE
      OBVIOUS
    <3>1. Tangled(packet)
      BY <2>2
    <3>2. t \in Nat /\ t < 65287
      BY <2>1, <2>3, <3>1, TangledOn
    <3>3. e \in Nat /\ e >= 65287
      BY <2>1, <3>1, TangledExpected
    <3> QED
      BY <2>3, <3>2, <3>3
  <2>5. Begins(packet)
    BY <2>2, <2>4
  <2>6. Len(Longer.octets) = First.len
    BY <2>1, <2>4, <2>5, BeginsExpected
  <2>7. \A i \in 1..Len(Longer.octets) : Longer.octets[i] = [pkt |-> First, k |-> i - 1]
    BY <2>5, BeginsOn
  <2>8. Longer.octets = OctetsOf(First)
    BY <1>1, <2>6, <2>7, AllOctets
  <2>9. First.id \in 1..Len(sent) /\ sent[First.id] = First
    BY <1>1, <2>1, SentShape DEF Kept
  <2>10. PICK y : y = First.id
    OBVIOUS
  <2>11. \A x : Past(x) => x < y
    BY <1>1, <2>1, <2>10 DEF Past
  <2>12. HandsOn(y)
    BY <2>1, <2>8, <2>9, <2>10, <2>11 DEF HandsOn
  <2>13. Down(0, y) /\ Above(y, received.data, 1)
    BY <1>1, <2>10 DEF Kept, OrderPacket
  <2>14. Above(y, received.data, MoreLen + 1)
    <3>1. 1 \in Nat /\ MoreLen + 1 \in Nat /\ 1 <= MoreLen + 1 /\ received.data \in Seq(Octet)
      BY <1>1, AtHandFrame
    <3> QED
      BY <2>13, <3>1, AboveLater
  <2> QED
    BY <1>1, <2>12, <2>13, <2>14 DEF PassedTo
<1> QED
  BY <1>2, <1>3

\* A packet that goes on through the whole frame is kept for the next one.
LEMMA MoreKept ==
    ASSUME LinkInv, Kept, Undisturbed, Goes, RestSame, MoveTo(MoreLen), packet' = Longer,
           received.fhp = NoPacketStart, delivered' = delivered,
           NEW e \in R!ExpectedLengths(Longer), Len(Longer.octets) < e
    PROVE  PassedTo(MoreLen)
<1>1. /\ MoreLen \in Nat \ {0} /\ headerPointer = 0 /\ received # NoFrame /\ packet # NoPacket
      /\ Len(packet.octets) \in Nat \ {0}
      /\ Len(Longer.octets) = Len(packet.octets) + MoreLen /\ Longer.cut = packet.cut
      /\ \A j \in 1..MoreLen : Longer.octets[Len(packet.octets) + j] = received.data[j]
      /\ \A j \in 1..Len(packet.octets) : Longer.octets[j] = packet.octets[j]
  BY LongerIs, FirstOctet DEF Goes, Kept
<1>2. MoreLen = Len(received.data) /\ Len(received.data) \in Nat /\ FrameDone
  BY <1>1, AtHandFrame DEF MoreLen, MoveTo
<1>3. PICK p : p = Longer
  OBVIOUS
<1>4. p.octets[1] = packet.octets[1] /\ Len(p.octets) > 0 /\ p.cut = packet.cut
  <2>1. 1 \in 1..Len(packet.octets)
    BY <1>1
  <2> QED
    BY <1>1, <1>3, <2>1
<1>5. Last(p.octets) = Last(received.data)
  <2>1. MoreLen \in 1..MoreLen
    BY <1>1
  <2> QED
    BY <1>1, <1>2, <1>3, <2>1 DEF Last
<1>6. First = p.octets[1].pkt
  BY <1>4 DEF First
<1>7. First.id # 0 => IF Overlong(p) THEN Tangled(p) ELSE Begins(p)
  <2> SUFFICES ASSUME First.id # 0 PROVE IF Overlong(p) THEN Tangled(p) ELSE Begins(p)
    OBVIOUS
  <2>1. IF Overlong(packet) THEN Tangled(packet) ELSE Begins(packet)
    BY <1>1 DEF Kept, HandRight, Sound, First
  <2>2. Overlong(p) <=> Overlong(packet)
    BY <1>4 DEF Overlong
  <2>3. CASE Overlong(packet)
    <3>1. Tangled(packet)
      BY <2>1, <2>3
    <3>2. PICK t : t = Len(Longer.octets)
      OBVIOUS
    <3>3. /\ t \in Nat /\ t >= 6 /\ t <= DataFieldLen + Last(received.data).k
          /\ \A i \in 1..t : i <= 6 => Longer.octets[i] = [pkt |-> First, k |-> i - 1]
      BY <2>3, <3>1, <3>2, TangledOn
    <3>4. t >= 5 /\ p.cut <= 6
      BY <1>4, <3>1, <3>3 DEF Tangled
    <3>5. Tangled(p)
      BY <1>3, <1>5, <1>6, <3>2, <3>3, <3>4 DEF Tangled
    <3> QED
      BY <2>2, <2>3, <3>5
  <2>4. CASE ~Overlong(packet)
    <3>1. Begins(packet)
      BY <2>1, <2>4
    <3>2. Len(Longer.octets) < First.len
      BY <2>4, <3>1, BeginsExpected
    <3>3. \A i \in 1..Len(Longer.octets) : Longer.octets[i] = [pkt |-> First, k |-> i - 1]
      BY <3>1, BeginsOn
    <3>4. Begins(p)
      BY <1>3, <1>6, <3>2, <3>3 DEF Begins
    <3> QED
      BY <2>2, <2>4, <3>4
  <2> QED
    BY <2>3, <2>4
<1>8. Sound(p)
  <2>1. /\ packet.octets[1].k = 0
        /\ packet.octets[1].pkt.pvn \in {pvnSpacePacket, pvnEncapsulationPacket}
    BY <1>1 DEF Kept, HandRight, Sound
  <2> QED
    BY <1>4, <1>6, <1>7, <2>1 DEF Sound
<1>9. Own(sent, p.octets[1])
  BY <1>1, <1>4 DEF Kept, HandRight
<1> QED
  BY <1>1, <1>2, <1>3, <1>4, <1>5, <1>8, <1>9 DEF PassedTo

LEMMA ContinuePasses ==
    ASSUME LinkInv, Kept, Undisturbed, R!Continue
    PROVE  R!Abort \/ \E idx : PassedTo(idx)
<1>1. /\ received # NoFrame /\ packet # NoPacket /\ headerPointer = 0 /\ received.fhp > 0
      /\ \/ R!Abort
         \/ /\ RestSame /\ MoveTo(MoreLen)
            /\ \E expected \in R!ExpectedLengths(Longer) :
                  \/ /\ Len(Longer.octets) = expected
                     /\ packet' = NoPacket /\ Hand(Longer)
                  \/ packet' = NoPacket /\ UNCHANGED delivered
                  \/ /\ Len(Longer.octets) < expected /\ received.fhp = NoPacketStart
                     /\ packet' = Longer /\ UNCHANGED delivered
  BY DidContinue
<1>2. Goes
  BY <1>1 DEF Goes
<1>3. SUFFICES ASSUME ~R!Abort PROVE PassedTo(MoreLen)
  OBVIOUS
<1>4. RestSame /\ MoveTo(MoreLen)
  BY <1>1, <1>3
<1>5. PICK e \in R!ExpectedLengths(Longer) :
          \/ Len(Longer.octets) = e /\ packet' = NoPacket /\ Hand(Longer)
          \/ packet' = NoPacket /\ UNCHANGED delivered
          \/ /\ Len(Longer.octets) < e /\ received.fhp = NoPacketStart
             /\ packet' = Longer /\ UNCHANGED delivered
  BY <1>1, <1>3
<1>6. CASE packet' = NoPacket /\ UNCHANGED delivered
  <2>1. MoreLen \in Nat /\ MoreLen >= headerPointer
    BY <1>1, LongerIs
  <2> QED
    BY <1>1, <1>4, <1>6, <2>1 DEF PassedTo
<1> QED
  BY <1>2, <1>4, <1>5, <1>6, EndHanded, MoreKept

LEMMA AssemblePasses ==
    ASSUME LinkInv, Kept, Undisturbed, R!Assemble
    PROVE  R!Abort \/ \E idx : PassedTo(idx)
  BY GivesUp, StartPasses, ContinuePasses DEF R!Assemble

LEMMA KeptAssemble == LinkInv /\ Kept /\ Assemble /\ RcvSame /\ Undisturbed => Kept'
<1> SUFFICES ASSUME LinkInv, Kept, Assemble, RcvSame, Undisturbed PROVE Kept'
  OBVIOUS
<1>1. R!Assemble /\ UNCHANGED envvars
  BY DEF Assemble
<1>2. CASE R!Abort
  BY <1>1, <1>2, KeptAbort
<1>3. CASE \E idx : PassedTo(idx)
  BY <1>1, <1>3, KeptPassed
<1> QED
  BY <1>1, <1>2, <1>3, AssemblePasses

-----------------------------------------------------------------------------
(* The pair of modules implements the packet service.                      *)

LEMMA KeptNext == LinkInv /\ Kept /\ Undisturbed /\ [Next]_vars => Kept'
<1> SUFFICES ASSUME LinkInv, Kept, Undisturbed, [Next]_vars PROVE Kept'
  OBVIOUS
<1>1. CASE Generate
  BY <1>1, KeptGenerate DEF Generate
<1>2. CASE Receive
  <2>1. RcvSame /\ (Take \/ Ignore \/ Assemble)
    BY <1>2 DEF Receive, RcvSame
  <2> QED
    BY <2>1, KeptTake, KeptIgnore, KeptAssemble
<1>3. CASE Lose
  BY <1>3, KeptLose
<1>4. CASE Spoil
  BY <1>4, KeptSpoil
<1>5. CASE InsertIdle
  BY <1>5, KeptIdle
<1>6. CASE UNCHANGED vars
  <2>1. UNCHANGED genvars /\ UNCHANGED <<rcvonly, envvars>>
    BY <1>6 DEF vars
  <2> QED
    BY <2>1, KeptGenerate
<1> QED
  BY <1>1, <1>2, <1>3, <1>4, <1>5, <1>6 DEF Next

\* What a step does to the packets put in and those that came out.
LEMMA DeliveredKept ==
    ASSUME Lose \/ Spoil \/ InsertIdle \/ Take \/ Ignore \/ Generate \/ UNCHANGED vars
    PROVE  delivered' = delivered
<1>1. CASE Lose \/ Spoil \/ InsertIdle
  BY <1>1 DEF Lose, Spoil, InsertIdle, Unhurt, rcvonly
<1>2. CASE Take \/ Ignore
  BY <1>2 DEF Take, Ignore, R!Take, R!Ignore
<1>3. CASE Generate
  BY <1>3 DEF Generate, rcvonly
<1>4. CASE UNCHANGED vars
  BY <1>4 DEF vars, rcvonly
<1> QED
  BY <1>1, <1>2, <1>3, <1>4

LEMMA SentKept ==
    ASSUME Lose \/ Spoil \/ InsertIdle \/ Receive \/ UNCHANGED vars
    PROVE  sent' = sent
<1>1. CASE Lose \/ Spoil \/ InsertIdle
  BY <1>1 DEF Lose, Spoil, InsertIdle, Unhurt
<1>2. CASE Receive
  BY <1>2 DEF Receive
<1>3. CASE UNCHANGED vars
  BY <1>3 DEF vars, genvars
<1> QED
  BY <1>1, <1>2, <1>3

\* A packet handed on comes out of the service behind the ones before it.
LEMMA HandsOnDelivers ==
    ASSUME LinkInv, Kept, NEW y, HandsOn(y), sent' = sent
    PROVE  Service!Deliver
<1>1. sent \in Seq(Packet) /\ y \in 1..Len(sent) /\ delivered \in Seq(Seq(Octet))
  BY DEF LinkInv, Inv, InvTypes, RcvTypes, HandsOn
<1>2. y \in DOMAIN sent
  BY <1>1
<1>3. \A p : Service!OctetsOf(p) = OctetsOf(p)
  BY DEF Service!OctetsOf, OctetsOf
<1>4. Service!Behind(y - 1)
  <2> SUFFICES ASSUME delivered # <<>>
               PROVE  \E i \in 1..y - 1 : OctetsOf(sent[i]) = delivered[Len(delivered)]
    BY <1>3 DEF Service!Behind
  <2>1. PICK x \in 1..Len(sent) : Last(delivered) = OctetsOf(sent[x]) /\ Past(x)
    BY DEF Kept, OrderOut
  <2>2. x \in 1..y - 1
    BY <1>1, <2>1 DEF HandsOn
  <2> QED
    BY <2>1, <2>2 DEF Last
<1> QED
  BY <1>2, <1>3, <1>4 DEF Service!Deliver, HandsOn

LEMMA ArrivePuts ==
    ASSUME LinkInv, Generate
    PROVE  sent' = sent \/ Service!Put
<1>1. [GenNext]_genvars /\ Inv /\ delivered' = delivered /\ sent \in Seq(Packet)
  BY DeliveredKept DEF Generate, LinkInv, Inv, InvTypes
<1>2. SUFFICES ASSUME NEW s \in Shapes, sent' = Append(sent, Numbered(s)) PROVE Service!Put
  BY <1>1, SentGrows
<1>3. Numbered(s) \in Packet
  BY <1>1, NewPacket
<1>4. PICK q : q = Append(sent, Numbered(s))
  OBVIOUS
<1>5. /\ q \in Seq(Packet) /\ Len(sent) \in Nat /\ Len(q) = Len(sent) + 1
      /\ \A i \in 1..Len(sent) : q[i] = sent[i]
  BY <1>1, <1>3, <1>4, Appended
<1>6. SubSeq(q, 1, Len(sent)) = sent
  BY <1>1, <1>5
<1> QED
  BY <1>1, <1>2, <1>4, <1>5, <1>6 DEF Service!Put

LEMMA ServiceStep ==
    LinkInv /\ Kept /\ Undisturbed /\ [Next]_vars
        => [Service!Put \/ Service!Deliver]_<<sent, delivered>>
<1> SUFFICES ASSUME LinkInv, Kept, Undisturbed, [Next]_vars
             PROVE  \/ Service!Put \/ Service!Deliver
                    \/ sent' = sent /\ delivered' = delivered
  OBVIOUS
<1>1. CASE Generate
  BY <1>1, ArrivePuts, DeliveredKept
<1>2. CASE Receive
  <2>1. sent' = sent /\ RcvSame
    BY <1>2, SentKept DEF Receive, RcvSame
  <2>2. CASE Take \/ Ignore
    BY <2>1, <2>2, DeliveredKept
  <2>3. CASE Assemble
    <3>1. R!Assemble
      BY <2>3 DEF Assemble
    <3>2. CASE R!Abort
      BY <2>1, <3>2 DEF R!Abort
    <3>3. CASE \E idx : PassedTo(idx)
      <4>1. delivered' = delivered \/ \E y : HandsOn(y)
        BY <3>3 DEF PassedTo
      <4> QED
        BY <2>1, <4>1, HandsOnDelivers
    <3> QED
      BY <3>1, <3>2, <3>3, AssemblePasses
  <2> QED
    BY <1>2, <2>2, <2>3 DEF Receive
<1>3. CASE Lose \/ Spoil \/ InsertIdle \/ UNCHANGED vars
  BY <1>3, SentKept, DeliveredKept
<1> QED
  BY <1>1, <1>2, <1>3 DEF Next

\* modTM_VC_Gen_Packet and modTM_VC_Rcv_Packet are a packet service: however long packets and
\* Data Fields are, and however often frames are lost or spoilt and idle ones inserted, what
\* comes out is packets that went in, whole, in the order they went in, none twice -- if the
\* output is never disconnected, no gap is as long as the frame count, every packet's header
\* is in the frame it starts in or the next one, and no Space Packet is so long that a length
\* stored in place of its own could be met.
THEOREM PacketsAsSent == Undisturbed => (Spec => PacketService)
<1> SUFFICES ASSUME Undisturbed PROVE Spec => PacketService
  OBVIOUS
<1>1. Init => Service!Init
  BY DEF Init, GenInit, R!RcvInit, Service!Init
<1>2. Init => LinkInv /\ Kept
  BY LinkInit, KeptInit
<1>3. LinkInv /\ Kept /\ [Next]_vars => LinkInv' /\ Kept'
  BY KeptNext, GenerateLink, ReceiveLink, LoseLink, StutterLink DEF Next
<1>4. LinkInv /\ Kept /\ [Next]_vars
          => [Service!Put \/ Service!Deliver]_<<sent, delivered>>
  BY ServiceStep
<1> QED
  BY <1>1, <1>2, <1>3, <1>4, PTL DEF Spec, PacketService, Service!Spec

-----------------------------------------------------------------------------
(* What is behind what in a frame.                                         *)

\* A unit is one packet, or octets of fill.
Sole(nd) == \A i \in 1..Len(nd) :
    /\ nd[i].pkt = nd[1].pkt
    /\ nd[1].pkt.id # 0 \/ nd[1].pkt.len # 1 => nd[i].k = i - 1

FillStart(o) == o.k = 0 /\ o.pkt.id = 0
Ending(o)    == o.k + 1 = o.pkt.len

\* Fill that starts in a frame fills it; with one packet to a frame so does what ends in it.
Sealed(d) == \A i \in 1..Len(d) : \A j \in i + 1..Len(d) :
    /\ FillStart(d[i]) => d[j].pkt = d[i].pkt /\ (d[i].pkt.len # 1 => d[j].k = j - i)
    /\ multi = FALSE /\ (d[i].pkt.id = 0 \/ Ending(d[i])) => d[j].pkt.id = 0

SealQueue == \A i \in 1..Len(msg_queue) : msg_queue[i][1].pkt.id # 0 /\ Sole(msg_queue[i])
SealUnit == phase = "copy" =>
    /\ Sole(netdata)
    /\ netdata[1].pkt.id = 0 /\ netdataIdx = 0 =>
           frame # NoFrame /\ Len(netdata) >= DataFieldLen - Len(frame.data)
    /\ multi = FALSE /\ frame # NoFrame => netdata[1].pkt.id = 0
SealFrame ==
    /\ frame # NoFrame => /\ Sealed(frame.data)
                          /\ \A i \in 1..Len(frame.data) : ~FillStart(frame.data[i])
    /\ multi = FALSE /\ phase = "get" => frame = NoFrame
SealWire == \A i \in 1..Len(wire) : wire[i].fhp # OnlyIdleData => Sealed(wire[i].data)
SealGen == SealQueue /\ SealUnit /\ SealFrame /\ SealWire

LEMMA SealedJoined ==
    ASSUME NEW s, NEW d \in Seq(Octet), NEW nd \in Seq(Octet), NEW i \in Nat, NEW n \in Nat,
           NEW e, i + n <= Len(nd), Joins(d, nd, i, n, e), Good(s, nd), Sealed(d), Sole(nd),
           \A a \in 1..Len(d) : ~FillStart(d[a]),
           multi = FALSE /\ Len(d) # 0 => nd[1].pkt.id = 0
    PROVE  Sealed(e)
<1> SUFFICES ASSUME NEW a \in 1..Len(e), NEW b \in a + 1..Len(e)
             PROVE  /\ FillStart(e[a]) => e[b].pkt = e[a].pkt /\ (e[a].pkt.len # 1 => e[b].k = b - a)
                    /\ multi = FALSE /\ (e[a].pkt.id = 0 \/ Ending(e[a])) => e[b].pkt.id = 0
  BY DEF Sealed
<1>1. Len(d) \in Nat /\ Len(nd) \in Nat /\ Len(e) \in Nat /\ b \in 1..Len(e) /\ a < b
  BY DEF Joins
<1>2. /\ \/ a \in 1..Len(d) /\ e[a] = d[a]
         \/ a > Len(d) /\ i + a - Len(d) \in 1..Len(nd) /\ e[a] = nd[i + a - Len(d)]
      /\ \/ b \in 1..Len(d) /\ e[b] = d[b]
         \/ b > Len(d) /\ i + b - Len(d) \in 1..Len(nd) /\ e[b] = nd[i + b - Len(d)]
  <2>1. \A c \in 1..Len(e) :
            \/ c \in 1..Len(d) /\ e[c] = d[c]
            \/ c > Len(d) /\ i + c - Len(d) \in 1..Len(nd) /\ e[c] = nd[i + c - Len(d)]
    BY JoinedAt
  <2>2. a \in 1..Len(e) /\ b \in 1..Len(e)
    BY <1>1
  <2> QED
    BY <2>1, <2>2
<1>3. CASE b \in 1..Len(d) /\ e[b] = d[b]
  <2>1. a \in 1..Len(d) /\ e[a] = d[a] /\ b \in a + 1..Len(d)
    BY <1>1, <1>2, <1>3
  <2> QED
    BY <1>3, <2>1 DEF Sealed
<1>4. CASE b > Len(d) /\ i + b - Len(d) \in 1..Len(nd) /\ e[b] = nd[i + b - Len(d)]
  <2>1. CASE a \in 1..Len(d) /\ e[a] = d[a]
    <3>1. Len(d) # 0 /\ ~FillStart(e[a]) /\ e[b].pkt = nd[1].pkt
      BY <1>1, <1>4, <2>1 DEF Sole
    <3> QED
      BY <3>1
  <2>2. CASE a > Len(d) /\ i + a - Len(d) \in 1..Len(nd) /\ e[a] = nd[i + a - Len(d)]
    <3>1. PICK j, l : j = i + a - Len(d) /\ l = i + b - Len(d)
      OBVIOUS
    <3>2. j \in 1..Len(nd) /\ l \in 1..Len(nd) /\ j < l /\ e[a] = nd[j] /\ e[b] = nd[l]
      BY <1>1, <1>4, <2>2, <3>1
    <3>3. e[a].pkt = nd[1].pkt /\ e[b].pkt = nd[1].pkt
      BY <3>2 DEF Sole
    <3>4. CASE nd[1].pkt.id = 0
      <4>1. e[a].pkt.len # 1 => e[a].k = j - 1 /\ e[b].k = l - 1
        BY <3>2, <3>3 DEF Sole
      <4>2. l - j = b - a /\ j \in Nat
        BY <1>1, <3>1, <3>2
      <4>3. FillStart(e[a]) /\ e[a].pkt.len # 1 => e[b].k = b - a
        <5> SUFFICES ASSUME e[a].k = 0, e[a].pkt.len # 1 PROVE e[b].k = b - a
          BY DEF FillStart
        <5>1. j - 1 = 0 /\ e[b].k = l - 1
          BY <4>1
        <5> QED
          BY <4>2, <5>1, <3>2
      <4> QED
        BY <3>3, <3>4, <4>3
    <3>5. CASE nd[1].pkt.id # 0
      <4>1. e[a].k = j - 1 /\ e[b].k = l - 1 /\ e[b].k < e[b].pkt.len /\ e[b].pkt.len \in Nat
        BY <3>2, <3>5, OctetsIn DEF Sole, Good, Own
      <4>2. ~Ending(e[a])
        BY <3>2, <3>3, <4>1 DEF Ending
      <4> QED
        BY <3>3, <3>5, <4>2 DEF FillStart
    <3> QED
      BY <3>4, <3>5
  <2> QED
    BY <1>2, <2>1, <2>2
<1> QED
  BY <1>2, <1>3, <1>4

\* Fill is of one kind, and is enough.
LEMMA FillSole ==
    ASSUME NEW n \in 1..DataFieldLen
    PROVE  Sole(Fill(n)) /\ Fill(n)[1].pkt.id = 0 /\ Len(Fill(n)) >= n
<1>1. DataFieldLen \in Nat /\ n \in Nat \ {0}
  BY FrameAssumption DEF FrameAssumption
<1>2. CASE DataFieldLen < 14
  <2>1. Fill(n) = RawFill(n) /\ Len(RawFill(n)) = n
    BY <1>1, <1>2, RawFillStarts DEF Fill
  <2>2. \A i \in 1..n : RawFill(n)[i].pkt = FillPacket
    BY DEF RawFill
  <2>3. 1 \in 1..n /\ FillPacket.id = 0 /\ FillPacket.len = 1
    BY <1>1 DEF FillPacket
  <2> QED
    BY <1>1, <2>1, <2>2, <2>3 DEF Sole
<1>3. CASE ~(DataFieldLen < 14)
  <2>1. PICK m \in Nat \ {0} : Fill(n) = IdlePacket(m) /\ m >= n
    BY <1>1, <1>3 DEF Fill
  <2> DEFINE p == [id |-> 0, pvn |-> pvnSpacePacket, hdr |-> 6, len |-> m]
  <2>3. p \in Packet /\ p.id = 0 /\ p.len = m /\ Fill(n) = OctetsOf(p)
    BY <2>1 DEF Packet, PVNs, pvnSpacePacket, IdlePacket
  <2> HIDE DEF p
  <2>4. /\ Len(OctetsOf(p)) = m /\ 1 \in 1..m
        /\ \A i \in 1..m : OctetsOf(p)[i].pkt = p /\ OctetsOf(p)[i].k = i - 1
    BY <2>1, <2>3, OctetsOfStarts DEF OctetsOf
  <2> QED
    BY <2>1, <2>3, <2>4 DEF Sole
<1> QED
  BY <1>2, <1>3

LEMMA SealInit == GenInit => SealGen
<1> SUFFICES ASSUME GenInit PROVE SealGen
  OBVIOUS
<1>1. Len(msg_queue) = 0 /\ Len(wire) = 0 /\ phase = "get" /\ frame = NoFrame
  BY DEF GenInit
<1> QED
  BY <1>1 DEF SealGen, SealQueue, SealUnit, SealFrame, SealWire

LEMMA SealSame ==
    ASSUME NEW d, Sealed(d), multi' = multi
    PROVE  Sealed(d)'
  BY DEF Sealed, FillStart, Ending

LEMMA ArriveSeal == Inv /\ SealGen /\ Arrive => SealGen'
<1> SUFFICES ASSUME Inv, SealGen, Arrive PROVE SealGen'
  OBVIOUS
<1>1. PICK s \in Shapes :
         /\ msg_queue' = Append(msg_queue, OctetsOf(Numbered(s)))
         /\ UNCHANGED <<multi, phase, netdata, netdataIdx, frame, wire>>
  BY DEF Arrive
<1>2. msg_queue \in Seq(Seq(Octet)) /\ sent \in Seq(Packet)
  BY DEF Inv, InvTypes
<1>3. PICK p : p = Numbered(s)
  OBVIOUS
<1>4. p \in Packet /\ p.id = Len(sent) + 1 /\ Len(sent) \in Nat
  BY <1>2, <1>3, NewPacket
<1>5. OctetsOf(p) \in Seq(Octet) /\ Len(OctetsOf(p)) = p.len /\ p.len \in Nat \ {0}
  BY <1>4, OctetsOfStarts DEF Packet
<1>6. OctetsOf(p)[1].pkt.id # 0 /\ Sole(OctetsOf(p))
  <2>1. \A i \in 1..p.len : OctetsOf(p)[i].pkt = p /\ OctetsOf(p)[i].k = i - 1
    BY DEF OctetsOf
  <2>2. 1 \in 1..p.len /\ p.id # 0
    BY <1>4, <1>5
  <2> QED
    BY <1>5, <2>1, <2>2 DEF Sole
<1>7. SealQueue'
  <2>1. /\ Len(msg_queue) \in Nat /\ Len(msg_queue') = Len(msg_queue) + 1
        /\ \A i \in 1..Len(msg_queue) : msg_queue'[i] = msg_queue[i]
        /\ msg_queue'[Len(msg_queue) + 1] = OctetsOf(p)
    BY <1>1, <1>2, <1>3, <1>5, Appended
  <2>2. ASSUME NEW i \in 1..Len(msg_queue')
        PROVE  msg_queue'[i][1].pkt.id # 0 /\ Sole(msg_queue'[i])
    <3>1. CASE i \in 1..Len(msg_queue)
      BY <2>1, <3>1 DEF SealGen, SealQueue
    <3>2. CASE i = Len(msg_queue) + 1
      BY <1>6, <2>1, <3>2
    <3> QED
      BY <2>1, <3>1, <3>2
  <2> QED
    BY <2>2 DEF SealQueue, Sole
<1>8. SealUnit'
  BY <1>1 DEF SealGen, SealUnit, Sole
<1>9. SealFrame' /\ SealWire'
  BY <1>1 DEF SealGen, SealFrame, SealWire, Sealed, FillStart, Ending
<1> QED
  BY <1>7, <1>8, <1>9 DEF SealGen

LEMMA GetDataSeal == Inv /\ SealGen /\ GetData => SealGen'
<1> SUFFICES ASSUME Inv, SealGen, GetData PROVE SealGen'
  OBVIOUS
<1>1. /\ msg_queue # <<>> /\ netdata' = Head(msg_queue) /\ msg_queue' = Tail(msg_queue)
      /\ phase = "get" /\ phase' = "copy" /\ UNCHANGED <<multi, frame, wire>>
  BY DEF GetData
<1>2. /\ Len(msg_queue) \in Nat \ {0} /\ Len(msg_queue') = Len(msg_queue) - 1
      /\ netdata' = msg_queue[1]
      /\ \A i \in 1..Len(msg_queue) - 1 : msg_queue'[i] = msg_queue[i + 1]
  BY <1>1, HeadTail DEF Inv, InvTypes
<1>3. \A i \in 1..Len(msg_queue) : msg_queue[i][1].pkt.id # 0 /\ Sole(msg_queue[i])
  BY DEF SealGen, SealQueue
<1>4. SealQueue'
  <2>1. ASSUME NEW i \in 1..Len(msg_queue')
        PROVE  msg_queue'[i][1].pkt.id # 0 /\ Sole(msg_queue'[i])
    BY <1>2, <1>3
  <2> QED
    BY <2>1 DEF SealQueue, Sole
<1>5. SealUnit'
  <2>1. netdata'[1].pkt.id # 0 /\ Sole(netdata')
    BY <1>2, <1>3
  <2>2. multi' = FALSE => frame' = NoFrame
    BY <1>1 DEF SealGen, SealFrame
  <2>3. \A nd : Sole(nd) => Sole(nd)'
    BY DEF Sole
  <2> QED
    BY <2>1, <2>2 DEF SealUnit, Sole
<1>6. SealFrame' /\ SealWire'
  BY <1>1 DEF SealGen, SealFrame, SealWire, Sealed, FillStart, Ending
<1> QED
  BY <1>4, <1>5, <1>6 DEF SealGen

LEMMA TopUpSeal == Inv /\ SealGen /\ TopUp => SealGen'
<1> SUFFICES ASSUME Inv, SealGen, TopUp PROVE SealGen'
  OBVIOUS
<1>1. /\ phase = "last" /\ netdata' = Fill(DataFieldLen - Len(frame.data)) /\ phase' = "copy"
      /\ UNCHANGED <<multi, msg_queue, frame, wire>>
  BY DEF TopUp
<1>2. frame # NoFrame /\ Len(frame.data) \in 1..DataFieldLen - 1 /\ DataFieldLen \in Nat
  BY <1>1, FrameAssumption DEF Inv, InvFrame, FrameAssumption
<1>3. DataFieldLen - Len(frame.data) \in 1..DataFieldLen
  BY <1>2
<1>4. /\ Sole(netdata') /\ netdata'[1].pkt.id = 0
      /\ Len(netdata') >= DataFieldLen - Len(frame.data)
  BY <1>1, <1>3, FillSole
<1>5. SealUnit'
  BY <1>1, <1>2, <1>4 DEF SealUnit, Sole
<1>6. SealQueue'
  BY <1>1 DEF SealGen, SealQueue, Sole
<1>7. SealFrame' /\ SealWire'
  BY <1>1 DEF SealGen, SealFrame, SealWire, Sealed, FillStart, Ending
<1> QED
  BY <1>5, <1>6, <1>7 DEF SealGen

LEMMA QuietSeal == Inv /\ SealGen /\ (Wait \/ SetLink \/ UNCHANGED genvars) => SealGen'
<1> SUFFICES ASSUME Inv, SealGen, Wait \/ SetLink \/ UNCHANGED genvars PROVE SealGen'
  OBVIOUS
<1>1. /\ UNCHANGED <<multi, msg_queue, netdata, netdataIdx, frame, wire>>
      /\ phase' = phase \/ (multi = TRUE /\ phase' = "get")
  BY DEF Wait, SetLink, genvars
<1>2. SealQueue' /\ SealUnit'
  BY <1>1 DEF SealGen, SealQueue, SealUnit, Sole
<1>3. SealFrame' /\ SealWire'
  BY <1>1 DEF SealGen, SealFrame, SealWire, Sealed, FillStart, Ending
<1> QED
  BY <1>2, <1>3 DEF SealGen

LEMMA CopySeal == Inv /\ InvData /\ InvOrder /\ SealGen /\ Copy => SealGen'
<1> SUFFICES ASSUME Inv, InvData, InvOrder, SealGen, Copy PROVE SealGen'
  OBVIOUS
<1>1. PICK f, n, g : phase = "copy" /\ AtHand(f) /\ Pass(f, n, g)
  BY CopyPasses
<1>2. /\ IF Len(g.data) = DataFieldLen THEN Send(g) ELSE UNCHANGED <<wire, currentFrameNumber>>
      /\ frame' = IF Len(g.data) = DataFieldLen THEN NoFrame ELSE g
      /\ netdata' = IF netdataIdx + n = Len(netdata) THEN <<>> ELSE netdata
      /\ netdataIdx' = IF netdataIdx + n = Len(netdata) THEN 0 ELSE netdataIdx + n
      /\ phase' = IF netdataIdx + n # Len(netdata) THEN "copy"
                  ELSE IF Len(g.data) = DataFieldLen THEN "get" ELSE "last"
      /\ msg_queue' = msg_queue /\ multi' = multi
  BY <1>1 DEF Pass, Passed, Copy
<1>3. /\ g \in Frame /\ wire \in Seq(Frame) /\ f \in Frame /\ f.data \in Seq(Octet)
      /\ g.data \in Seq(Octet)
  BY <1>1 DEF Pass, Outcome, Ready, Inv, InvTypes, Frame
<1>4. /\ Unit(sent, netdata) /\ Good(sent, netdata)
      /\ n \in Nat \ {0} /\ n \in Nat /\ netdataIdx \in Nat /\ netdataIdx + n <= Len(netdata)
      /\ Joins(f.data, netdata, netdataIdx, n, g.data)
      /\ Len(g.data) # DataFieldLen => netdataIdx + n = Len(netdata)
      /\ netdata \in Seq(Octet)
  BY <1>1, PassData DEF Unit, Good
<1>5. Sole(netdata)
  BY <1>1 DEF SealGen, SealUnit
<1>6. /\ Sealed(f.data) /\ \A a \in 1..Len(f.data) : ~FillStart(f.data[a])
      /\ frame = NoFrame => Len(f.data) = 0
      /\ frame # NoFrame => f = frame
  <2>1. CASE frame = NoFrame
    <3>1. f.data = <<>>
      BY <1>1, <2>1 DEF AtHand, NewFrame
    <3>2. Len(f.data) = 0
      BY <3>1
    <3> QED
      BY <2>1, <3>2 DEF Sealed
  <2>2. CASE frame # NoFrame
    BY <1>1, <2>2 DEF AtHand, SealGen, SealFrame
  <2> QED
    BY <2>1, <2>2
<1>7. Sealed(g.data)
  <2>1. multi = FALSE /\ Len(f.data) # 0 => netdata[1].pkt.id = 0
    BY <1>1, <1>6 DEF SealGen, SealUnit
  <2> QED
    BY ONLY <1>3, <1>4, <1>5, <1>6, <2>1, SealedJoined
<1>8. ASSUME Len(g.data) # DataFieldLen, NEW a \in 1..Len(g.data) PROVE ~FillStart(g.data[a])
  <2>1. /\ Len(f.data) \in Nat /\ Len(netdata) \in Nat /\ DataFieldLen \in Nat
        /\ Len(g.data) = Len(f.data) + n /\ Len(g.data) <= DataFieldLen
    BY <1>1, <1>3, <1>4, FrameAssumption DEF Joins, Pass, Taken, FrameAssumption
  <2>2. CASE a \in 1..Len(f.data) /\ g.data[a] = f.data[a]
    BY <1>6, <2>2
  <2>3. CASE /\ a > Len(f.data) /\ netdataIdx + a - Len(f.data) \in 1..Len(netdata)
             /\ g.data[a] = netdata[netdataIdx + a - Len(f.data)]
    <3>1. PICK j : j = netdataIdx + a - Len(f.data)
      OBVIOUS
    <3>2. j \in 1..Len(netdata) /\ g.data[a] = netdata[j] /\ j > netdataIdx
      <4>1. j \in 1..Len(netdata) /\ g.data[a] = netdata[j]
        BY <2>3, <3>1
      <4>2. a \in 1..Len(g.data) /\ Len(g.data) \in Nat
        BY <1>3, <1>8
      <4>3. a \in Nat /\ Len(f.data) \in Nat /\ netdataIdx \in Nat
        BY <1>4, <2>1, <4>2
      <4>4. a > Len(f.data) /\ j = netdataIdx + a - Len(f.data)
        BY <2>3, <3>1
      <4>5. j > netdataIdx
        <5>1. PICK l, i : l = Len(f.data) /\ i = netdataIdx
          OBVIOUS
        <5>2. a \in Nat /\ l \in Nat /\ i \in Nat /\ a > l /\ j = i + a - l
          BY <4>3, <4>4, <5>1
        <5>3. j > i
          BY ONLY <5>2
        <5> QED
          BY <5>1, <5>3
      <4> QED
        BY <4>1, <4>5
    <3>3. g.data[a].pkt = netdata[1].pkt
      BY <1>5, <3>2 DEF Sole
    <3>4. CASE netdata[1].pkt.id # 0
      BY <3>3, <3>4 DEF FillStart
    <3>5. CASE netdata[1].pkt.id = 0 /\ netdataIdx # 0
      <4>1. StartsOnce(netdata)
        BY <1>1, <3>5 DEF InvOrder, OrderUnit
      <4>2. j # 1
        BY <1>4, <3>2, <3>5
      <4> QED
        BY <3>2, <4>1, <4>2 DEF StartsOnce, FillStart
    <3>6. CASE netdata[1].pkt.id = 0 /\ netdataIdx = 0
      <4>1. f = frame /\ Len(netdata) >= DataFieldLen - Len(f.data)
        BY <1>1, <1>6, <3>6 DEF SealGen, SealUnit
      <4>2. n = Len(netdata)
        BY <1>4, <1>8, <2>1, <3>6
      <4> QED
        BY <1>8, <2>1, <4>1, <4>2
    <3> QED
      BY <3>4, <3>5, <3>6
  <2>4. \/ a \in 1..Len(f.data) /\ g.data[a] = f.data[a]
        \/ /\ a > Len(f.data) /\ netdataIdx + a - Len(f.data) \in 1..Len(netdata)
           /\ g.data[a] = netdata[netdataIdx + a - Len(f.data)]
    <3>1. PICK d, e, nd, i : d = f.data /\ e = g.data /\ nd = netdata /\ i = netdataIdx
      OBVIOUS
    <3>2. /\ d \in Seq(Octet) /\ nd \in Seq(Octet) /\ i \in Nat /\ n \in Nat /\ i + n <= Len(nd)
          /\ Joins(d, nd, i, n, e) /\ a \in 1..Len(e)
      BY <1>3, <1>4, <1>8, <3>1
    <3>3. \/ a \in 1..Len(d) /\ e[a] = d[a]
          \/ a > Len(d) /\ i + a - Len(d) \in 1..Len(nd) /\ e[a] = nd[i + a - Len(d)]
      BY ONLY <3>2, JoinedAt
    <3> QED
      BY <3>1, <3>3
  <2> QED
    BY <2>2, <2>3, <2>4
<1>9. SealQueue'
  BY <1>2 DEF SealGen, SealQueue, Sole
<1>10. SealUnit'
  <2> SUFFICES ASSUME phase' = "copy" PROVE SealUnit'
    BY DEF SealUnit
  <2>1. netdataIdx + n # Len(netdata)
    BY <1>2
  <2>2. netdata' = netdata /\ netdataIdx' = netdataIdx + n /\ Len(g.data) = DataFieldLen
    BY <1>2, <1>4, <2>1
  <2>3. frame' = NoFrame /\ netdataIdx' # 0
    BY <1>2, <1>4, <2>2
  <2> QED
    BY <1>5, <2>2, <2>3 DEF SealUnit, Sole
<1>11. SealFrame'
  <2>1. frame' # NoFrame => frame' = g /\ Len(g.data) # DataFieldLen
    BY <1>2
  <2>2. phase' = "get" => frame' = NoFrame
    BY <1>2
  <2> QED
    BY <1>2, <1>7, <1>8, <2>1, <2>2 DEF SealFrame, Sealed, FillStart, Ending
<1>12. SealWire'
  <2>2. ASSUME NEW i \in 1..Len(wire'), wire'[i].fhp # OnlyIdleData
        PROVE  \/ i \in 1..Len(wire) /\ wire'[i] = wire[i]
               \/ wire'[i] = g
    <3>1. CASE wire' = wire
      BY <2>2, <3>1
    <3>2. CASE wire' = Append(wire, g)
      BY <1>3, <2>2, <3>2, Appended
    <3> QED
      BY <1>2, <3>1, <3>2 DEF Send
  <2>3. ASSUME NEW i \in 1..Len(wire'), wire'[i].fhp # OnlyIdleData PROVE Sealed(wire'[i].data)
    BY <1>7, <2>2, <2>3 DEF SealGen, SealWire
  <2> QED
    BY <1>2, <2>3 DEF SealWire, Sealed, FillStart, Ending
<1> QED
  BY <1>9, <1>10, <1>11, <1>12 DEF SealGen

LEMMA GenSeal ==
    Inv /\ InvData /\ InvOrder /\ SealGen /\ [GenNext]_genvars => SealGen'
  BY ArriveSeal, GetDataSeal, CopySeal, TopUpSeal, QuietSeal DEF GenNext, GenStep

\* The seal at both ends.
SealLink == SealGen /\ (received # NoFrame => Sealed(received.data))

LEMMA SealWireKept ==
    ASSUME SealGen, GenSame, multi' = multi,
           \A a \in 1..Len(wire') : wire'[a].fhp # OnlyIdleData => Sealed(wire'[a].data)
    PROVE  SealGen'
<1>1. UNCHANGED <<multi, msg_queue, phase, netdata, netdataIdx, frame>>
  BY DEF GenSame
<1>2. SealQueue' /\ SealUnit'
  BY <1>1 DEF SealGen, SealQueue, SealUnit, Sole
<1>3. SealFrame'
  BY <1>1 DEF SealGen, SealFrame, Sealed, FillStart, Ending
<1>4. SealWire'
  BY <1>1 DEF SealWire, Sealed, FillStart, Ending
<1> QED
  BY <1>2, <1>3, <1>4 DEF SealGen

LEMMA SealGone ==
    ASSUME LinkInv, SealLink, Gone, multi' = multi
    PROVE  SealGen' /\ (wire[1].fhp # OnlyIdleData => Sealed(wire[1].data))
<1>1. /\ wire \in Seq(Frame) /\ wire # <<>> /\ wire' = Tail(wire) /\ GenSame
      /\ \A a \in 1..Len(wire) : wire[a].fhp # OnlyIdleData => Sealed(wire[a].data)
  BY DEF Gone, LinkInv, Inv, InvTypes, SealLink, SealGen, SealWire
<1>2. /\ Len(wire) \in Nat \ {0} /\ Len(wire') = Len(wire) - 1
      /\ \A a \in 1..Len(wire) - 1 : wire'[a] = wire[a + 1]
  BY <1>1, HeadTail
<1>3. ASSUME NEW a \in 1..Len(wire'), wire'[a].fhp # OnlyIdleData PROVE Sealed(wire'[a].data)
  <2>1. a + 1 \in 1..Len(wire) /\ wire'[a] = wire[a + 1]
    BY <1>2, <1>3
  <2> QED
    BY <1>1, <1>3, <2>1
<1>4. 1 \in 1..Len(wire)
  BY <1>2
<1> QED
  BY <1>1, <1>3, <1>4, SealWireKept DEF SealLink

LEMMA SealLinkInit == Init => SealLink
<1> SUFFICES ASSUME Init PROVE SealLink
  OBVIOUS
<1>1. GenInit /\ received = NoFrame
  BY DEF Init, R!RcvInit
<1> QED
  BY <1>1, SealInit DEF SealLink

\* The generator, the channel, and the frames that are not taken.
LEMMA SealGenerate ==
    ASSUME LinkInv, Kept, SealLink, [GenNext]_genvars, UNCHANGED received
    PROVE  SealLink' /\ multi' = multi
<1>1. multi' = multi
  BY GenOthers DEF LinkInv, Others
<1>2. SealGen'
  BY GenSeal DEF LinkInv, Kept, SealLink
<1> QED
  BY <1>1, <1>2 DEF SealLink, Sealed, FillStart, Ending

LEMMA SealSpoil == LinkInv /\ Kept /\ SealLink /\ Spoil => SealLink'
<1> SUFFICES ASSUME LinkInv, Kept, SealLink, Spoil PROVE SealLink'
  OBVIOUS
<1>1. /\ GenSame /\ multi' = multi /\ received' = received
      /\ wire \in Seq(Frame) /\ wire' = [wire EXCEPT ![1].ok = FALSE]
  BY DEF Spoil, Unhurt, rcvonly, GenSame, LinkInv, Inv, InvTypes
<1>2. Len(wire') = Len(wire)
      /\ \A a \in 1..Len(wire) : wire'[a].data = wire[a].data /\ wire'[a].fhp = wire[a].fhp
  BY <1>1 DEF Frame
<1>3. \A a \in 1..Len(wire') : wire'[a].fhp # OnlyIdleData => Sealed(wire'[a].data)
  BY <1>2 DEF SealLink, SealGen, SealWire
<1> QED
  BY <1>1, <1>3, SealWireKept DEF SealLink, Sealed, FillStart, Ending

LEMMA SealIdle == LinkInv /\ Kept /\ SealLink /\ InsertIdle => SealLink'
<1> SUFFICES ASSUME LinkInv, Kept, SealLink, InsertIdle PROVE SealLink'
  OBVIOUS
<1>1. multi' = multi /\ received' = received
  BY DEF InsertIdle, Unhurt, rcvonly
<1>2. /\ GenSame /\ Len(wire) \in Nat /\ Len(wire') = Len(wire) + 1
      /\ \A a \in 1..Len(wire) : wire'[a] = wire[a]
      /\ wire'[Len(wire) + 1] = IdleFrame
  BY IdleKeeps DEF LinkInv, Kept
<1>3. ASSUME NEW a \in 1..Len(wire'), wire'[a].fhp # OnlyIdleData PROVE Sealed(wire'[a].data)
  <2>1. CASE a \in 1..Len(wire)
    BY <1>2, <1>3, <2>1 DEF SealLink, SealGen, SealWire
  <2>2. CASE a = Len(wire) + 1
    BY <1>2, <1>3, <2>2, IdleFrameGood
  <2> QED
    BY <1>2, <2>1, <2>2
<1> QED
  BY <1>1, <1>2, <1>3, SealWireKept DEF SealLink, Sealed, FillStart, Ending

LEMMA SealLoseIgnore ==
    ASSUME LinkInv, SealLink, Gone, multi' = multi, received' = received
    PROVE  SealLink'
<1>1. SealGen'
  BY SealGone
<1> QED
  BY <1>1 DEF SealLink, Sealed, FillStart, Ending

LEMMA SealTake ==
    ASSUME LinkInv, SealLink, Gone, multi' = multi, received' = wire[1],
           wire[1].fhp # OnlyIdleData
    PROVE  SealLink'
<1>1. SealGen' /\ Sealed(received'.data)
  BY SealGone
<1> QED
  BY <1>1 DEF SealLink, Sealed, FillStart, Ending

LEMMA SealAssemble ==
    ASSUME LinkInv, SealLink, GenSame, multi' = multi, wire' = wire,
           received' \in {received, NoFrame}
    PROVE  SealLink'
<1>1. SealGen'
  BY SealWireKept DEF SealLink, SealGen, SealWire
<1> QED
  BY <1>1 DEF SealLink, Sealed, FillStart, Ending

-----------------------------------------------------------------------------
(* While nothing is in doubt the receiver keeps up with what is sent.      *)

\* The octets of o's packet up to o, or up to the octet before it, are at hand.
Carried(o) == /\ packet # NoPacket /\ packet.pvn = o.pkt.pvn
              /\ Len(packet.octets) = o.k + 1
              /\ \A i \in 1..o.k + 1 : packet.octets[i] = [pkt |-> o.pkt, k |-> i - 1]
Led(o) == /\ packet # NoPacket /\ packet.pvn = o.pkt.pvn /\ Len(packet.octets) = o.k
          /\ \A i \in 1..o.k : packet.octets[i] = [pkt |-> o.pkt, k |-> i - 1]

\* Nothing before o, or o itself, is wanted by a packet yet to come.
Clear(o) == Ending(o) \/ Carried(o) \/ (multi = FALSE /\ o.pkt.id = 0)

\* The next frame goes on where the frames taken so far left off.
CaughtUp == gap = FALSE /\ doubt = FALSE => \E o \in Octet :
    /\ o.k < o.pkt.len /\ Follows(0, rcvFrameNumber, o, TRUE)
    /\ IF received # NoFrame THEN o = Last(received.data) ELSE Clear(o)

\* A frame that begins with the middle of a packet goes on with what is at hand.
InStepHere == received # NoFrame /\ doubt = FALSE /\ headerPointer = 0 /\ received.data[1].k # 0 =>
    Led(received.data[1]) \/ (multi = FALSE /\ received.data[1].pkt.id = 0)

\* The packets that end behind position h of the frame at hand.
EndsAt(n, j) == received.data[j].pkt.id = n /\ Ending(received.data[j])
Ends(h) == {n \in 1..Len(sent) : \E j \in 1..Len(received.data) : h < j /\ EndsAt(n, j)}
ToCome == IF received # NoFrame /\ doubt = FALSE THEN Ends(headerPointer) ELSE {}
DueKept == due \subseteq DeliveredIds \cup ToCome

Steady == SealLink /\ CaughtUp /\ InStepHere /\ DueKept

LEMMA SteadyInit == Init => CaughtUp /\ InStepHere /\ DueKept
<1> SUFFICES ASSUME Init PROVE CaughtUp /\ InStepHere /\ DueKept
  OBVIOUS
<1>1. /\ Len(wire) = 0 /\ frame = NoFrame /\ phase = "get" /\ currentFrameNumber = 0
      /\ rcvFrameNumber = 0 /\ received = NoFrame /\ due = {}
  BY DEF Init, GenInit, R!RcvInit
<1>2. PICK o : o = [pkt |-> FillPacket, k |-> 0]
  OBVIOUS
<1>3. o \in Octet /\ o.k + 1 = o.pkt.len /\ o.k < o.pkt.len
  BY <1>2 DEF Octet, Packet, PVNs, FillPacket, pvnEncapsulationPacket
<1>4. Follows(0, 0, o, TRUE)
  BY <1>1, <1>3 DEF Follows, GenAfter
<1> QED
  BY <1>1, <1>3, <1>4 DEF CaughtUp, InStepHere, DueKept, Clear, Ending

LEMMA ClearSame ==
    ASSUME UNCHANGED <<packet, multi>>
    PROVE  \A o : (Clear(o)' <=> Clear(o)) /\ (Led(o)' <=> Led(o))
  BY DEF Clear, Carried, Led, Ending

\* The receiver stands still.
LEMMA StillSteady ==
    ASSUME RcvStill, UNCHANGED <<multi, doubt, due>>,
           Len(sent) \in Nat, Len(sent') \in Nat, Len(sent) <= Len(sent'),
           InStepHere, DueKept
    PROVE  InStepHere' /\ DueKept'
<1>1. UNCHANGED <<received, headerPointer, packet, delivered, multi, doubt, due>>
  BY DEF RcvStill
<1>2. InStepHere'
  BY <1>1 DEF InStepHere, Led
<1>3. DeliveredIds' = DeliveredIds /\ \A h : Ends(h) \subseteq Ends(h)'
  BY <1>1 DEF DeliveredIds, Ends, EndsAt, Ending
<1>4. ToCome \subseteq ToCome'
  BY <1>1, <1>3 DEF ToCome
<1> QED
  BY <1>1, <1>2, <1>3, <1>4 DEF DueKept

LEMMA StillCaught ==
    ASSUME LinkInv, CaughtUp, RcvStill, FollowsKept, UNCHANGED <<multi, doubt, gap>>
    PROVE  CaughtUp'
<1> SUFFICES ASSUME gap = FALSE, doubt = FALSE PROVE CaughtUp'
  BY DEF CaughtUp
<1>1. PICK o \in Octet : /\ o.k < o.pkt.len /\ Follows(0, rcvFrameNumber, o, TRUE)
                         /\ IF received # NoFrame THEN o = Last(received.data) ELSE Clear(o)
  BY DEF CaughtUp
<1>2. PICK z, a, known : z = 0 /\ a = rcvFrameNumber /\ known = TRUE
  OBVIOUS
<1>8. Follows(z, a, o, known)
  BY <1>1, <1>2
<1>9. known \in BOOLEAN
  BY <1>2
<1>3. z \in Nat /\ z <= Len(wire)
  BY <1>2 DEF LinkInv, Inv, InvTypes
<1>4. Follows(z, a, o, known)'
  BY <1>3, <1>8, <1>9 DEF FollowsKept
<1>5. UNCHANGED <<rcvFrameNumber, received, packet, multi>>
  BY DEF RcvStill
<1>6. IF received' # NoFrame THEN o = Last(received'.data) ELSE Clear(o)'
  BY <1>1, <1>5, ClearSame
<1>7. Follows(0, rcvFrameNumber, o, TRUE)'
  BY <1>2, <1>4, <1>5
<1> QED
  BY <1>1, <1>6, <1>7 DEF CaughtUp

\* An idle frame is gone.
LEMMA IdleCaught ==
    ASSUME LinkInv, CaughtUp, RcvStill, Gone, ~Busy(1), UNCHANGED <<multi, doubt, gap>>
    PROVE  CaughtUp'
<1> SUFFICES ASSUME gap = FALSE, doubt = FALSE PROVE CaughtUp'
  BY DEF CaughtUp
<1>1. PICK o \in Octet : /\ o.k < o.pkt.len /\ Follows(0, rcvFrameNumber, o, TRUE)
                         /\ IF received # NoFrame THEN o = Last(received.data) ELSE Clear(o)
  BY DEF CaughtUp
<1>2. PICK z, a, known : z = 0 /\ a = rcvFrameNumber /\ known = TRUE
  OBVIOUS
<1>8. Follows(z, a, o, known)
  BY <1>1, <1>2
<1>9. z + 1 = 1 /\ ~Busy(z + 1)
  BY <1>2
<1>3. z \in Nat /\ wire \in Seq(Frame)
  BY <1>2 DEF LinkInv, Inv, InvTypes
<1>4. Follows(z, a, o, known)'
  BY <1>2, <1>3, <1>8, <1>9, IdleHead, GoneFollows
<1>5. UNCHANGED <<rcvFrameNumber, received, packet, multi>>
  BY DEF RcvStill
<1>6. IF received' # NoFrame THEN o = Last(received'.data) ELSE Clear(o)'
  BY <1>1, <1>5, ClearSame
<1>7. Follows(0, rcvFrameNumber, o, TRUE)'
  BY <1>2, <1>4, <1>5
<1> QED
  BY <1>1, <1>6, <1>7 DEF CaughtUp

LEMMA SteadyGenerate ==
    ASSUME LinkInv, Kept, Undisturbed, Steady, [GenNext]_genvars,
           UNCHANGED <<rcvonly, envvars, history>>
    PROVE  Steady'
<1>1. /\ Inv /\ InvData /\ Flow /\ MaxUnplugs = 0 /\ RcvStill /\ UNCHANGED <<gap, doubt, due>>
      /\ received' = received
  BY DEF LinkInv, Kept, Undisturbed, RcvStill, rcvonly, history
<1>2. SealLink' /\ multi' = multi
  BY <1>1, SealGenerate DEF Steady
<1>3. FollowsKept
  BY <1>1, GenFlow
<1>4. CaughtUp'
  BY <1>1, <1>2, <1>3, StillCaught DEF Steady
<1>5. Len(sent) \in Nat /\ Len(sent') \in Nat /\ Len(sent) <= Len(sent')
  <2>1. Inv'
    BY <1>1, GenData
  <2> QED
    BY <1>1, <2>1, OwnKept DEF Inv, InvTypes
<1>6. InStepHere' /\ DueKept'
  BY <1>1, <1>2, <1>5, StillSteady DEF Steady
<1> QED
  BY <1>2, <1>4, <1>6 DEF Steady

LEMMA SteadyChannel ==
    ASSUME LinkInv, Kept, Steady, Lose \/ Spoil \/ InsertIdle
    PROVE  Steady'
<1>1. /\ RcvStill /\ UNCHANGED <<multi, doubt, due>> /\ sent' = sent /\ Len(sent) \in Nat
      /\ received' = received
  BY DEF Lose, Spoil, InsertIdle, Unhurt, rcvonly, RcvStill, LinkInv, Inv, InvTypes
<1>2. InStepHere' /\ DueKept'
  BY <1>1, StillSteady DEF Steady
<1>3. CASE Lose
  <2>1. Gone /\ gap' = (gap \/ wire[1].fhp # OnlyIdleData)
    BY <1>3, HeadFrame DEF Lose, Unhurt, Gone, GenSame, LinkInv
  <2>2. SealLink'
    BY <1>1, <2>1, SealLoseIgnore DEF Steady
  <2>3. CaughtUp'
    <3>1. CASE gap' = FALSE
      <4>1. gap \in BOOLEAN
        BY DEF LinkInv, Others
      <4>2. gap = FALSE /\ wire[1].fhp = OnlyIdleData
        BY <2>1, <3>1, <4>1
      <4> QED
        BY <1>1, <2>1, <3>1, <4>2, IdleCaught DEF Steady, Busy
    <3>2. CASE gap' # FALSE
      BY <3>2 DEF CaughtUp
    <3> QED
      BY <3>1, <3>2
  <2> QED
    BY <1>2, <2>2, <2>3 DEF Steady
<1>4. CASE Spoil \/ InsertIdle
  <2>1. FollowsKept /\ gap' = gap
    BY <1>4, SpoilKeeps, IdleKeeps DEF LinkInv, Kept, Spoil, InsertIdle
  <2>2. CaughtUp'
    BY <1>1, <2>1, StillCaught DEF Steady
  <2>3. SealLink'
    BY <1>4, SealSpoil, SealIdle DEF Steady
  <2> QED
    BY <1>2, <2>2, <2>3 DEF Steady
<1> QED
  BY <1>3, <1>4

LEMMA SteadyIgnore ==
    ASSUME LinkInv, Kept, Steady, Ignore, RcvSame
    PROVE  Steady'
<1>1. /\ RcvStill /\ UNCHANGED <<multi, doubt, due>> /\ sent' = sent /\ Len(sent) \in Nat
      /\ received' = received /\ Gone /\ R!Ignored(wire[1])
      /\ gap' = (gap \/ R!Rejected(wire[1]))
  <2>1. wire # <<>> /\ Head(wire) = wire[1]
    BY HeadFrame DEF Ignore, R!Ignore, LinkInv
  <2> QED
    BY <2>1 DEF Ignore, R!Ignore, RcvSame, RcvStill, Gone, GenSame, LinkInv, Inv, InvTypes
<1>2. InStepHere' /\ DueKept'
  BY <1>1, StillSteady DEF Steady
<1>3. SealLink'
  BY <1>1, SealLoseIgnore DEF Steady
<1>4. CaughtUp'
  <2>1. CASE gap' = FALSE
    <3>1. gap \in BOOLEAN
      BY DEF LinkInv, Others
    <3>2. gap = FALSE /\ ~R!Rejected(wire[1])
      BY <1>1, <2>1, <3>1
    <3>3. ~Busy(1)
      BY <1>1, <3>2 DEF R!Ignored, R!Uncounted, R!OnlyIdleData, OnlyIdleData, Busy
    <3> QED
      BY <1>1, <2>1, <3>2, <3>3, IdleCaught DEF Steady
  <2>2. CASE gap' # FALSE
    BY <2>2 DEF CaughtUp
  <2> QED
    BY <2>1, <2>2
<1> QED
  BY <1>2, <1>3, <1>4 DEF Steady

\* A frame is taken.
LEMMA TakenDue ==
    ASSUME LinkInv, NEW f, f.data \in Seq(Octet)
    PROVE  \A n \in EndingIn(f) : n \in 1..Len(sent) /\ \E j \in 1..Len(f.data) :
               f.data[j].pkt.id = n /\ Ending(f.data[j])
<1> SUFFICES ASSUME NEW n \in EndingIn(f)
             PROVE  n \in 1..Len(sent) /\ \E j \in 1..Len(f.data) :
                        f.data[j].pkt.id = n /\ Ending(f.data[j])
  OBVIOUS
<1>1. PICK j \in DOMAIN f.data : /\ n \in 1..Len(sent)
                                 /\ f.data[j] = [pkt |-> sent[n], k |-> sent[n].len - 1]
  BY DEF EndingIn
<1>2. sent \in Seq(Packet) /\ sent[n].id = n
  BY <1>1 DEF LinkInv, Inv, InvTypes, InvData, DataSent
<1>3. sent[n].len \in Nat
  <2>1. sent[n] \in Packet
    BY <1>1, <1>2
  <2> QED
    BY <2>1 DEF Packet
<1>4. j \in 1..Len(f.data)
  BY <1>1
<1> QED
  BY <1>1, <1>2, <1>3, <1>4 DEF Ending

LEMMA SteadyTake ==
    ASSUME LinkInv, Kept, Steady, Take, RcvSame
    PROVE  Steady'
<1>1. PICK f : f = Head(wire)
  OBVIOUS
<1>2. /\ received = NoFrame /\ wire # <<>> /\ f.fhp # OnlyIdleData
      /\ wire' = Tail(wire) /\ received' = f /\ headerPointer' = 0
      /\ f \in Frame /\ f = wire[1] /\ Right(f) /\ Good(sent, f.data)
      /\ rcvFrameNumber' = IncFrameNumber(f.num)
      /\ packet' = IF f.num # rcvFrameNumber THEN NoPacket ELSE packet
      /\ UNCHANGED <<multi, delivered>>
  BY <1>1, DidTake DEF Take
<1>3. /\ Gone /\ sent' = sent /\ gap' = FALSE
      /\ doubt' = StillInDoubt(f)
      /\ due' = IF StillInDoubt(f) THEN due ELSE due \cup EndingIn(f)
  BY <1>1, <1>2 DEF Gone, GenSame, RcvSame, Take
<1>4. /\ f # NoFrame /\ f.data \in Seq(Octet) /\ Len(f.data) = DataFieldLen
      /\ DataFieldLen \in Nat \ {0} /\ 1 \in 1..Len(f.data) /\ Len(f.data) \in 1..Len(f.data)
  BY <1>2, GenAssumption, FrameAssumption DEF GenAssumption, Frame, Right, FrameAssumption
<1>5. doubt \in BOOLEAN /\ gap \in BOOLEAN /\ doubt' \in BOOLEAN
  BY <1>3 DEF LinkInv, Others, StillInDoubt
<1>6. SealLink'
  BY <1>2, <1>3, SealTake DEF Steady
<1>7. CaughtUp'
  <2>1. PICK o : o = Last(f.data)
    OBVIOUS
  <2>2. o \in Octet /\ o.k < o.pkt.len
    BY <1>2, <1>4, <2>1 DEF Last, Good, Own
  <2>3. PICK z, b : z = 0 /\ b = IncFrameNumber(f.num)
    OBVIOUS
  <2>4. Follows(z + 1, b, o, TRUE)
    BY <1>2, <2>1, <2>3, BusyNext
  <2>5. Follows(z, b, o, TRUE)'
    BY <1>3, <2>3, <2>4, GoneFollows
  <2>6. Follows(0, rcvFrameNumber, o, TRUE)'
    BY <1>2, <2>3, <2>5
  <2>7. received' # NoFrame /\ o = Last(received'.data)
    BY <1>2, <1>4, <2>1
  <2> QED
    BY <2>2, <2>6, <2>7 DEF CaughtUp
<1>8. InStepHere'
  <2> SUFFICES ASSUME doubt' = FALSE, f.data[1].k # 0
               PROVE  Led(f.data[1])' \/ (multi = FALSE /\ f.data[1].pkt.id = 0)
    BY <1>2 DEF InStepHere
  <2>1. f.fhp # 0
    <3>1. Settled(f.data, f.fhp) => f.data[f.fhp + 1].k = 0
      BY DEF Settled
    <3>2. f.fhp # 0 \/ ~Settled(f.data, f.fhp)
      BY <3>1
    <3> QED
      BY <1>2, <3>2 DEF Right, NoPacketStart
  <2>2. doubt = FALSE /\ gap = FALSE
    BY <1>3, <1>5, <2>1 DEF StillInDoubt
  <2>3. PICK o \in Octet : /\ o.k < o.pkt.len /\ Follows(0, rcvFrameNumber, o, TRUE) /\ Clear(o)
    BY <1>2, <2>2 DEF Steady, CaughtUp
  <2>4. PICK z : z = 0
    OBVIOUS
  <2>5. wire[1].num = rcvFrameNumber /\ GoesOn(o, wire[1].data, 1)
    <3>1. Follows(z, rcvFrameNumber, o, TRUE) /\ wire \in Seq(Frame)
      BY <2>3, <2>4 DEF LinkInv, Inv, InvTypes
    <3> QED
      BY <1>2, <2>4, <3>1, BusyHead
  <2>6. packet' = packet
    BY <1>2, <2>5
  <2>7. o.k \in Nat /\ o.pkt.len \in Nat
    BY <2>3, OctetFields
  <2>8. /\ o.k + 1 < o.pkt.len => f.data[1] = [pkt |-> o.pkt, k |-> o.k + 1]
        /\ o.k + 1 = o.pkt.len => f.data[1].k = 0
    <3>1. o.k + 1 + 1 - 1 = o.k + 1
      BY <2>7
    <3> QED
      BY <1>2, <1>4, <2>5, <3>1 DEF GoesOn
  <2>9. o.k + 1 < o.pkt.len /\ f.data[1] = [pkt |-> o.pkt, k |-> o.k + 1]
    BY <2>3, <2>7, <2>8
  <2>10. f.data[1].pkt = o.pkt /\ f.data[1].k = o.k + 1
    BY <2>9
  <2>11. CASE Carried(o)
    BY <2>6, <2>10, <2>11 DEF Carried, Led
  <2>12. CASE multi = FALSE /\ o.pkt.id = 0
    BY <2>10, <2>12
  <2>13. ~Ending(o)
    BY <2>7, <2>9 DEF Ending
  <2> QED
    BY <2>3, <2>11, <2>12, <2>13 DEF Clear
<1>9. DueKept'
  <2>1. DeliveredIds' = DeliveredIds /\ due \subseteq DeliveredIds
    BY <1>2 DEF DeliveredIds, Steady, DueKept, ToCome
  <2>2. CASE doubt' = TRUE
    BY <1>3, <2>1, <2>2 DEF DueKept
  <2>3. CASE doubt' = FALSE
    <3>1. due' = due \cup EndingIn(f)
      BY <1>3, <2>3
    <3>2. \A n \in EndingIn(f) : n \in 1..Len(sent) /\ \E j \in 1..Len(f.data) :
              f.data[j].pkt.id = n /\ Ending(f.data[j])
      BY <1>4, TakenDue
    <3>3. \A j \in 1..Len(f.data) : 0 < j
      BY <1>4
    <3>4. EndingIn(f) \subseteq ToCome'
      BY <1>2, <1>3, <1>4, <2>3, <3>2, <3>3 DEF ToCome, Ends, EndsAt, Ending
    <3> QED
      BY <2>1, <3>1, <3>4 DEF DueKept
  <2> QED
    BY <1>5, <2>2, <2>3
<1> QED
  BY <1>6, <1>7, <1>8, <1>9 DEF Steady

-----------------------------------------------------------------------------
(* A pass over a frame that is not in doubt delivers what ends in the part *)
(* it passes over.                                                         *)

\* Packets of the kind that is sent and read back with its length, and an output for them.
OnlyEncapsulation ==
    /\ pvnEncapsulationPacket \in OutputPVNs
    /\ \A s \in Shapes : s.pvn = pvnEncapsulationPacket /\ s.hdr > 1

LEMMA OctetKinds ==
    ASSUME OnlyEncapsulation, NEW o, Own(sent, o)
    PROVE  /\ o.pkt.pvn \in {pvnSpacePacket, pvnEncapsulationPacket}
           /\ o.pkt.id # 0 => o.pkt.pvn = pvnEncapsulationPacket /\ o.pkt.hdr > 1
           /\ o.pkt.id = 0 => \/ o.pkt.len = 1
                              \/ o.pkt.pvn = pvnSpacePacket /\ o.pkt.len <= DataFieldLen
<1>1. CASE o.pkt.id = 0
  <2>1. o.pkt = FillPacket \/ (o.pkt.pvn = pvnSpacePacket /\ o.pkt.len <= DataFieldLen)
    BY <1>1 DEF Own, Filler
  <2>2. FillPacket.pvn = pvnEncapsulationPacket /\ FillPacket.len = 1
    BY DEF FillPacket
  <2> QED
    BY <1>1, <2>1, <2>2
<1>2. CASE o.pkt.id # 0
  <2>1. Shape(o.pkt) \in Shapes
    BY <1>2 DEF Own
  <2>2. Shape(o.pkt).pvn = o.pkt.pvn /\ Shape(o.pkt).hdr = o.pkt.hdr
    BY DEF Shape
  <2> QED
    BY <1>2, <2>1, <2>2 DEF OnlyEncapsulation
<1> QED
  BY <1>1, <1>2

LEMMA FrameOctets ==
    ASSUME LinkInv, received # NoFrame
    PROVE  /\ Len(received.data) \in Nat \ {0} /\ Len(received.data) \in 1..Len(received.data)
           /\ 1 \in 1..Len(received.data)
           /\ \A j \in 1..Len(received.data) :
                  LET o == received.data[j] IN
                  /\ o \in Octet /\ Own(sent, o) /\ o.k \in Nat /\ o.pkt.id \in Nat
                  /\ o.pkt.len \in Nat \ {0} /\ o.k < o.pkt.len
                  /\ o = [pkt |-> o.pkt, k |-> o.k]
<1>1. received.data \in Seq(Octet) /\ Len(received.data) \in Nat \ {0}
  BY AtHandFrame
<1>2. ASSUME NEW j \in 1..Len(received.data), NEW o, o = received.data[j]
      PROVE  /\ o \in Octet /\ Own(sent, o) /\ o.k \in Nat /\ o.pkt.id \in Nat
             /\ o.pkt.len \in Nat \ {0} /\ o.k < o.pkt.len
             /\ o = [pkt |-> o.pkt, k |-> o.k]
  <2>1. o \in Octet /\ Own(sent, o)
    BY <1>1, <1>2 DEF LinkInv, RcvFrame, Good
  <2>2. o = [pkt |-> o.pkt, k |-> o.k]
    BY <2>1 DEF Octet
  <2> QED
    BY <2>1, <2>2, OctetFields DEF Own
<1>3. Len(received.data) \in 1..Len(received.data) /\ 1 \in 1..Len(received.data)
  BY <1>1
<1> QED
  BY <1>1, <1>2, <1>3

\* What a pass does: with all that ended delivered and nothing wanted of the octets before
\* the next frame, or with the rest still to come.
Swept ==
    /\ received # NoFrame /\ RestSame /\ DeliveredIds \subseteq DeliveredIds'
    /\ \/ /\ FrameDone /\ Ends(headerPointer) \subseteq DeliveredIds'
          /\ \A o : o = Last(received.data) => Clear(o)'
       \/ /\ received' = received
          /\ Ends(headerPointer) \subseteq DeliveredIds' \cup Ends(headerPointer')
          /\ headerPointer' = 0 =>
                 (headerPointer = 0 /\ packet' = packet) \/ received.data[1].k = 0

\* With one packet to a frame, fill and what ends in it are followed by fill.
LEMMA FillBehind ==
    ASSUME LinkInv, SealLink, received # NoFrame, multi = FALSE,
           NEW i \in 1..Len(received.data),
           received.data[i].pkt.id = 0 \/ Ending(received.data[i])
    PROVE  /\ \A j \in i + 1..Len(received.data) : received.data[j].pkt.id = 0
           /\ i < Len(received.data) => Last(received.data).pkt.id = 0
<1>1. \A j \in i + 1..Len(received.data) : received.data[j].pkt.id = 0
  BY DEF SealLink, Sealed
<1>2. Len(received.data) \in Nat
  BY FrameOctets
<1>3. i < Len(received.data) => Len(received.data) \in i + 1..Len(received.data)
  BY <1>2
<1> QED
  BY <1>1, <1>3 DEF Last

LEMMA HandedIds ==
    ASSUME delivered \in Seq(Seq(Octet)), NEW p, p.octets \in Seq(Octet), Hand(p)
    PROVE  /\ DeliveredIds \subseteq DeliveredIds'
           /\ p.octets[1].pkt.id # 0 /\ p.pvn \in OutputPVNs
                  => p.octets[1].pkt.id \in DeliveredIds'
<1>1. CASE delivered' = delivered /\ (p.octets[1].pkt.id = 0 \/ p.pvn \notin OutputPVNs)
  BY <1>1 DEF DeliveredIds
<1>2. CASE delivered' = Append(delivered, p.octets)
  <2>1. /\ Len(delivered) \in Nat /\ Len(delivered') = Len(delivered) + 1
        /\ \A i \in 1..Len(delivered) : delivered'[i] = delivered[i]
        /\ delivered'[Len(delivered) + 1] = p.octets /\ delivered' \in Seq(Seq(Octet))
    BY <1>2, Appended
  <2>2. DOMAIN delivered = 1..Len(delivered) /\ DOMAIN delivered' = 1..Len(delivered) + 1
    BY <2>1
  <2>3. Len(delivered) + 1 \in DOMAIN delivered' /\ DOMAIN delivered \subseteq DOMAIN delivered'
    BY <2>1, <2>2
  <2>4. DeliveredIds \subseteq DeliveredIds'
    BY <2>1, <2>2, <2>3 DEF DeliveredIds
  <2>5. p.octets[1].pkt.id \in DeliveredIds'
    BY <2>1, <2>3 DEF DeliveredIds
  <2> QED
    BY <2>4, <2>5
<1> QED
  BY <1>1, <1>2 DEF Hand

\* Fill that starts here goes on to the end of the frame.
LEMMA FillToEnd ==
    ASSUME LinkInv, SealLink, received # NoFrame, Here.k = 0, Here.pkt.id = 0
    PROVE  /\ Ends(headerPointer) = {} /\ Last(received.data).pkt = Here.pkt
           /\ Here.pkt.len # 1 =>
                  \A j \in 1..Len(Left) :
                      received.data[headerPointer + j] = [pkt |-> Here.pkt, k |-> j - 1]
<1>1. /\ headerPointer \in Nat /\ headerPointer + 1 \in 1..Len(received.data)
      /\ Len(received.data) \in Nat
  BY AtHandFrame
<1>2. ASSUME NEW j \in 1..Len(received.data), headerPointer < j
      PROVE  /\ received.data[j].pkt = Here.pkt
             /\ Here.pkt.len # 1 => received.data[j].k = j - headerPointer - 1
  <2>1. CASE j = headerPointer + 1
    BY <1>1, <2>1 DEF Here
  <2>2. CASE j # headerPointer + 1
    <3>1. j \in (headerPointer + 1) + 1..Len(received.data)
      BY <1>1, <1>2, <2>2
    <3>2. FillStart(received.data[headerPointer + 1])
      BY DEF Here, FillStart
    <3>3. /\ received.data[j].pkt = Here.pkt
          /\ Here.pkt.len # 1 => received.data[j].k = j - (headerPointer + 1)
      BY <1>1, <3>1, <3>2 DEF SealLink, Sealed, Here
    <3>4. j - (headerPointer + 1) = j - headerPointer - 1
      BY <1>1
    <3> QED
      BY <3>3, <3>4
  <2> QED
    BY <2>1, <2>2
<1>3. Ends(headerPointer) = {}
  <2> SUFFICES ASSUME NEW n \in 1..Len(sent), NEW j \in 1..Len(received.data),
                      headerPointer < j, EndsAt(n, j)
               PROVE  FALSE
    BY DEF Ends
  <2>1. n = 0
    BY <1>2 DEF EndsAt
  <2>2. Len(sent) \in Nat
    BY DEF LinkInv, Inv, InvTypes
  <2> QED
    BY <2>1, <2>2
<1>4. Last(received.data).pkt = Here.pkt
  <2>1. Len(received.data) \in 1..Len(received.data) /\ headerPointer < Len(received.data)
    BY <1>1
  <2> QED
    BY <1>2, <2>1 DEF Last
<1>5. ASSUME Here.pkt.len # 1, NEW j \in 1..Len(Left)
      PROVE  received.data[headerPointer + j] = [pkt |-> Here.pkt, k |-> j - 1]
  <2>1. PICK i : i = headerPointer + j
    OBVIOUS
  <2>2. i \in 1..Len(received.data) /\ headerPointer < i /\ i - headerPointer - 1 = j - 1
    BY <1>1, <2>1, LeftLen
  <2>3. received.data[i].pkt = Here.pkt /\ received.data[i].k = j - 1
    BY <1>2, <1>5, <2>2
  <2>4. received.data[i] = [pkt |-> received.data[i].pkt, k |-> received.data[i].k]
    BY <2>2, FrameOctets
  <2> QED
    BY <2>1, <2>3, <2>4
<1> QED
  BY <1>3, <1>4, <1>5

\* What is left of the frame is kept: it is carried to the next one.
LEMMA LeftCarried ==
    ASSUME LinkInv, received # NoFrame, NEW c \in Nat, packet' = Piece(Len(Left), c),
           \A j \in 1..Len(Left) :
               received.data[headerPointer + j] = [pkt |-> Here.pkt, k |-> j - 1]
    PROVE  \A o : o = Last(received.data) => Carried(o)'
<1> SUFFICES ASSUME NEW o, o = Last(received.data) PROVE Carried(o)'
  OBVIOUS
<1>1. PICK n, p : n = Len(Left) /\ p = Piece(n, c) /\ o = Last(received.data)
  OBVIOUS
<1>2. n \in 1..Len(Left) /\ n \in Nat \ {0} /\ headerPointer + n = Len(received.data)
  <2>1. /\ Len(Left) \in 1..DataFieldLen /\ Len(Left) = Len(received.data) - headerPointer
        /\ DataFieldLen \in Nat /\ headerPointer \in Nat /\ Len(received.data) \in Nat
    BY LeftLen, AtHandFrame
  <2> QED
    BY <1>1, <2>1
<1>3. /\ p \in Fragment /\ Len(p.octets) = n /\ p.pvn = Here.pkt.pvn
      /\ \A j \in 1..n : p.octets[j] = received.data[headerPointer + j]
  BY <1>1, <1>2, PieceIs
<1>4. p # NoPacket
  BY <1>3, LinkAssumption, SameData DEF LinkAssumption, R!RcvAssumption
<1>5. o = [pkt |-> Here.pkt, k |-> n - 1]
  <2>1. received.data[headerPointer + n] = [pkt |-> Here.pkt, k |-> n - 1]
    BY <1>1, <1>2
  <2> QED
    BY <1>1, <1>2, <2>1 DEF Last
<1>6. o.pkt = Here.pkt /\ o.k + 1 = n
  BY <1>2, <1>5
<1>7. \A j \in 1..n : p.octets[j] = [pkt |-> o.pkt, k |-> j - 1]
  BY <1>1, <1>3, <1>6
<1>8. packet' = p
  BY <1>1
<1> QED
  BY <1>3, <1>4, <1>6, <1>7, <1>8 DEF Carried

\* A pass that stops after the end of what it passes over, all of it delivered.
LEMMA SweptTo ==
    ASSUME LinkInv, SealLink, received # NoFrame, RestSame,
           DeliveredIds \subseteq DeliveredIds', NEW idx \in 1..Len(received.data),
           MoveTo(idx), Finishes(idx), Ending(received.data[idx]),
           \A n \in 1..Len(sent) : \A j \in 1..idx :
               headerPointer < j /\ EndsAt(n, j) => n \in DeliveredIds'
    PROVE  Swept
<1>1. Len(received.data) \in Nat /\ multi' = multi /\ Len(sent) \in Nat
  BY FrameOctets DEF RestSame, LinkInv, Inv, InvTypes
<1>2. Ends(headerPointer) \subseteq DeliveredIds' \cup Ends(idx)
  <2> SUFFICES ASSUME NEW n \in 1..Len(sent), NEW j \in 1..Len(received.data),
                      headerPointer < j, EndsAt(n, j)
               PROVE  n \in DeliveredIds' \/ n \in Ends(idx)
    BY DEF Ends
  <2>1. CASE j <= idx
    <3>1. j \in 1..idx
      BY <1>1, <2>1
    <3> QED
      BY <3>1
  <2>2. CASE idx < j
    BY <2>2 DEF Ends
  <2> QED
    BY <1>1, <2>1, <2>2
<1>3. CASE FrameDone
  <2>1. received' = NoFrame
    BY <1>3 DEF FrameDone
  <2>2. CASE idx = Len(received.data)
    <3>1. Ends(idx) = {}
      BY <1>1, <2>2 DEF Ends
    <3>2. \A o : o = Last(received.data) => Clear(o)'
      BY <2>2 DEF Last, Clear, Ending
    <3> QED
      BY <1>2, <1>3, <3>1, <3>2 DEF Swept
  <2>3. CASE idx # Len(received.data)
    <3>1. idx < Len(received.data) /\ multi = FALSE
      BY <1>1, <2>1, <2>3 DEF Finishes
    <3>2. /\ \A j \in idx + 1..Len(received.data) : received.data[j].pkt.id = 0
          /\ Last(received.data).pkt.id = 0
      BY <3>1, FillBehind
    <3>3. Ends(idx) = {}
      <4> SUFFICES ASSUME NEW n \in 1..Len(sent), NEW j \in 1..Len(received.data),
                          idx < j, EndsAt(n, j)
                   PROVE  FALSE
        BY DEF Ends
      <4>1. j \in idx + 1..Len(received.data)
        BY <1>1
      <4>2. n = 0
        BY <3>2, <4>1 DEF EndsAt
      <4> QED
        BY <1>1, <4>2
    <3>4. \A o : o = Last(received.data) => Clear(o)'
      BY <1>1, <3>1, <3>2 DEF Clear
    <3> QED
      BY <1>2, <1>3, <3>3, <3>4 DEF Swept
  <2> QED
    BY <2>2, <2>3
<1>4. CASE idx < Len(received.data) /\ headerPointer' = idx /\ UNCHANGED received
  <2>1. headerPointer' # 0
    BY <1>1, <1>4
  <2> QED
    BY <1>2, <1>4, <2>1 DEF Swept
<1> QED
  BY <1>3, <1>4 DEF MoveTo

\* A frame of fill only, dropped.
LEMMA SweptFrame ==
    ASSUME LinkInv, SealLink, received # NoFrame, RestSame,
           DeliveredIds \subseteq DeliveredIds', FrameDone,
           multi = FALSE, received.data[1].pkt.id = 0
    PROVE  Swept
<1>1. Len(received.data) \in Nat \ {0} /\ multi' = multi /\ Len(sent) \in Nat
      /\ 1 \in 1..Len(received.data)
  BY FrameOctets DEF RestSame, LinkInv, Inv, InvTypes
<1>2. \A j \in 1 + 1..Len(received.data) : received.data[j].pkt.id = 0
  BY <1>1, FillBehind
<1>3. \A j \in 1..Len(received.data) : received.data[j].pkt.id = 0
  BY <1>1, <1>2
<1>4. Ends(headerPointer) = {}
  <2> SUFFICES ASSUME NEW n \in 1..Len(sent), NEW j \in 1..Len(received.data), EndsAt(n, j)
               PROVE  FALSE
    BY DEF Ends
  <2>1. n = 0
    BY <1>3 DEF EndsAt
  <2> QED
    BY <1>1, <2>1
<1>5. \A o : o = Last(received.data) => Clear(o)'
  <2>1. Len(received.data) \in 1..Len(received.data)
    BY <1>1
  <2> QED
    BY <1>1, <1>3, <2>1 DEF Clear, Last
<1> QED
  BY <1>4, <1>5 DEF Swept

\* Fill that starts here.
LEMMA SweptFill ==
    ASSUME LinkInv, SealLink, received # NoFrame, RestSame,
           DeliveredIds \subseteq DeliveredIds', Here.k = 0, Here.pkt.id = 0,
           \/ Here.pkt.len = 1 /\ \E idx \in Nat \ {0} : MoveTo(idx)
           \/ FrameDone /\ \E c \in Nat : packet' = Piece(Len(Left), c)
    PROVE  Swept
<1>1. /\ Ends(headerPointer) = {} /\ Last(received.data).pkt = Here.pkt
      /\ Here.pkt.len # 1 =>
             \A j \in 1..Len(Left) :
                 received.data[headerPointer + j] = [pkt |-> Here.pkt, k |-> j - 1]
  BY FillToEnd
<1>2. CASE FrameDone
  <2>1. CASE Here.pkt.len = 1
    <3>1. Ending(Last(received.data))
      <4>1. Len(received.data) \in 1..Len(received.data)
        BY FrameOctets
      <4>2. /\ Last(received.data).k \in Nat
            /\ Last(received.data).k < Last(received.data).pkt.len
        BY <4>1, FrameOctets DEF Last
      <4> QED
        BY <1>1, <2>1, <4>2 DEF Ending
    <3>2. \A o : o = Last(received.data) => Clear(o)'
      BY <3>1 DEF Clear, Ending
    <3> QED
      BY <1>1, <1>2, <3>2 DEF Swept
  <2>2. CASE Here.pkt.len # 1
    <3>1. PICK c \in Nat : packet' = Piece(Len(Left), c)
      BY <2>2
    <3>2. \A o : o = Last(received.data) => Carried(o)'
      BY <1>1, <2>2, <3>1, LeftCarried
    <3>3. \A o : o = Last(received.data) => Clear(o)'
      BY <3>2 DEF Clear
    <3> QED
      BY <1>1, <1>2, <3>3 DEF Swept
  <2> QED
    BY <2>1, <2>2
<1>3. CASE ~FrameDone
  <2>1. PICK idx \in Nat \ {0} : headerPointer' = idx /\ received' = received
    BY <1>3 DEF MoveTo
  <2>2. headerPointer' # 0
    BY <2>1
  <2> QED
    BY <1>1, <2>1, <2>2 DEF Swept
<1> QED
  BY <1>2, <1>3

\* A packet that starts here and ends in a later frame.
LEMMA SweptBegun ==
    ASSUME LinkInv, SealLink, received # NoFrame, RestSame,
           DeliveredIds \subseteq DeliveredIds', Here.k = 0, FrameDone,
           Here.pkt.len > Len(Left), NEW c \in Nat, packet' = Piece(Len(Left), c)
    PROVE  Swept
<1>1. /\ headerPointer \in Nat /\ Len(received.data) \in Nat /\ Here.pkt.len \in Nat
      /\ Len(Left) = Len(received.data) - headerPointer /\ Len(Left) \in Nat
  BY AtHandFrame, OctetFields, LeftLen
<1>2. \A j \in 1..Len(Left) : received.data[headerPointer + j] = [pkt |-> Here.pkt, k |-> j - 1]
  <2> SUFFICES ASSUME NEW j \in 1..Len(Left)
               PROVE  received.data[headerPointer + j] = [pkt |-> Here.pkt, k |-> j - 1]
    OBVIOUS
  <2>1. j <= Here.pkt.len
    BY <1>1
  <2> QED
    BY <2>1, RunsOn
<1>3. \A o : o = Last(received.data) => Carried(o)'
  BY <1>2, LeftCarried
<1>4. Ends(headerPointer) = {}
  <2> SUFFICES ASSUME NEW n \in 1..Len(sent), NEW j \in 1..Len(received.data),
                      headerPointer < j, EndsAt(n, j)
               PROVE  FALSE
    BY DEF Ends
  <2>1. PICK i : i = j - headerPointer
    OBVIOUS
  <2>2. i \in 1..Len(Left) /\ headerPointer + i = j
    BY <1>1, <2>1
  <2>3. received.data[j] = [pkt |-> Here.pkt, k |-> i - 1]
    BY <1>2, <2>2
  <2>4. received.data[j].pkt = Here.pkt /\ received.data[j].k = i - 1
    BY <2>3
  <2>5. i - 1 + 1 = Here.pkt.len
    BY <2>4 DEF EndsAt, Ending
  <2> QED
    BY <1>1, <2>2, <2>5
<1>5. \A o : o = Last(received.data) => Clear(o)'
  BY <1>3 DEF Clear
<1> QED
  BY <1>4, <1>5 DEF Swept

\* A packet that starts and ends here.
LEMMA SweptWhole ==
    ASSUME LinkInv, SealLink, received # NoFrame, RestSame,
           Here.k = 0, Here.pkt.id # 0, Here.pkt.pvn \in OutputPVNs,
           Here.pkt.len <= Len(Left), NEW c \in Nat,
           Hand(Piece(Here.pkt.len, c)),
           MoveTo(headerPointer + Here.pkt.len), Finishes(headerPointer + Here.pkt.len)
    PROVE  Swept
<1>1. /\ headerPointer \in Nat /\ Len(received.data) \in Nat /\ Here.pkt.len \in Nat \ {0}
      /\ Len(Left) = Len(received.data) - headerPointer /\ Len(Left) \in Nat
      /\ Here \in Octet
  BY AtHandFrame, OctetFields, LeftLen
<1>2. PICK len, p, idx : len = Here.pkt.len /\ p = Piece(len, c) /\ idx = headerPointer + len
  OBVIOUS
<1>3. len \in 1..Len(Left) /\ idx \in 1..Len(received.data) /\ 1 \in 1..len
  BY <1>1, <1>2
<1>4. \A j \in 1..len : received.data[headerPointer + j] = [pkt |-> Here.pkt, k |-> j - 1]
  <2> SUFFICES ASSUME NEW j \in 1..len
               PROVE  received.data[headerPointer + j] = [pkt |-> Here.pkt, k |-> j - 1]
    OBVIOUS
  <2>1. j \in 1..Len(Left) /\ j <= Here.pkt.len
    BY <1>1, <1>2, <1>3
  <2> QED
    BY <2>1, RunsOn
<1>5. /\ p \in Fragment /\ p.pvn = Here.pkt.pvn
      /\ \A j \in 1..len : p.octets[j] = received.data[headerPointer + j]
  BY <1>2, <1>3, PieceIs
<1>6. p.octets[1].pkt = Here.pkt /\ p.octets \in Seq(Octet)
  BY <1>3, <1>5, FragmentFields DEF Here
<1>7. DeliveredIds \subseteq DeliveredIds' /\ Here.pkt.id \in DeliveredIds'
  <2>1. delivered \in Seq(Seq(Octet)) /\ Hand(p)
    BY <1>2 DEF LinkInv, RcvTypes
  <2> QED
    BY <1>5, <1>6, <2>1, HandedIds
<1>8. Ending(received.data[idx])
  <2>1. len \in 1..len
    BY <1>3
  <2>2. received.data[idx] = [pkt |-> Here.pkt, k |-> len - 1]
    BY <1>2, <1>4, <2>1
  <2> QED
    BY <1>1, <1>2, <2>2 DEF Ending
<1>9. ASSUME NEW n \in 1..Len(sent), NEW j \in 1..idx, headerPointer < j, EndsAt(n, j)
      PROVE  n \in DeliveredIds'
  <2>1. PICK i : i = j - headerPointer
    OBVIOUS
  <2>2. i \in 1..len /\ headerPointer + i = j
    BY <1>1, <1>2, <1>9, <2>1
  <2>3. received.data[j] = [pkt |-> Here.pkt, k |-> i - 1]
    BY <1>4, <2>2
  <2>4. received.data[j].pkt = Here.pkt
    BY <2>3
  <2> QED
    BY <1>7, <1>9, <2>4 DEF EndsAt
<1>10. MoveTo(idx) /\ Finishes(idx)
  BY <1>2
<1> QED
  BY <1>3, <1>7, <1>8, <1>9, <1>10, SweptTo

-----------------------------------------------------------------------------
(* Every pass sweeps what it passes over.                                  *)

LEMMA FillAtHand ==
    ASSUME InStepHere, received # NoFrame, doubt = FALSE, headerPointer = 0,
           received.data[1].k # 0, packet = NoPacket
    PROVE  multi = FALSE /\ received.data[1].pkt.id = 0
  BY DEF InStepHere, Led

LEMMA KnownPVN ==
    ASSUME LinkInv, OnlyEncapsulation, received # NoFrame, NEW j \in 1..Len(received.data)
    PROVE  received.data[j].pkt.pvn \in {pvnSpacePacket, pvnEncapsulationPacket}
<1>1. Own(sent, received.data[j])
  BY FrameOctets
<1> QED
  BY <1>1, OctetKinds

LEMMA SameDelivered ==
    ASSUME delivered' = delivered PROVE DeliveredIds \subseteq DeliveredIds'
  BY DEF DeliveredIds

LEMMA DiscardSweeps ==
    ASSUME LinkInv, Kept, OnlyEncapsulation, SealLink, InStepHere, doubt = FALSE, R!Discard
    PROVE  Swept
<1>1. /\ received # NoFrame /\ FrameDone /\ RestSame /\ UNCHANGED <<packet, delivered>>
      /\ DeliveredIds \subseteq DeliveredIds'
  BY DidDiscard, SameDelivered
<1>2. ~R!Supported
  BY DEF R!Discard
<1>3. packet = NoPacket
  <2> SUFFICES ASSUME packet # NoPacket PROVE FALSE
    OBVIOUS
  <2>1. packet.octets[1].pkt.pvn \in {pvnSpacePacket, pvnEncapsulationPacket}
    BY DEF Kept, HandRight, Sound
  <2> QED
    BY <1>2, <2>1 DEF R!Supported, R!CurrentPVN, R!pvnSpacePacket, R!pvnEncapsulationPacket,
                      pvnSpacePacket, pvnEncapsulationPacket
<1>4. headerPointer = 0
  <2> SUFFICES ASSUME headerPointer # 0 PROVE FALSE
    OBVIOUS
  <2>1. headerPointer + 1 \in 1..Len(received.data)
    BY <1>1, AtHandFrame
  <2>2. received.data[headerPointer + 1].pkt.pvn \in {pvnSpacePacket, pvnEncapsulationPacket}
    BY <1>1, <2>1, KnownPVN
  <2> QED
    BY <1>2, <1>3, <2>2 DEF R!Supported, R!CurrentPVN, R!pvnSpacePacket,
                            R!pvnEncapsulationPacket, pvnSpacePacket, pvnEncapsulationPacket
<1>5. received.data[1].k # 0
  <2> SUFFICES ASSUME received.data[1].k = 0 PROVE FALSE
    OBVIOUS
  <2>1. leadPVN = received.data[1].pkt.pvn
    BY <1>1 DEF LinkInv, RcvFrame
  <2>2. 1 \in 1..Len(received.data)
    BY <1>1, FrameOctets
  <2>3. leadPVN \in {pvnSpacePacket, pvnEncapsulationPacket}
    BY <1>1, <2>1, <2>2, KnownPVN
  <2> QED
    BY <1>2, <1>3, <1>4, <2>3 DEF R!Supported, R!CurrentPVN, R!pvnSpacePacket,
                            R!pvnEncapsulationPacket, pvnSpacePacket, pvnEncapsulationPacket
<1>6. multi = FALSE /\ received.data[1].pkt.id = 0
  BY <1>1, <1>3, <1>4, <1>5, FillAtHand
<1> QED
  BY <1>1, <1>6, SweptFrame

\* A frame that is not begun with a packet begins with the middle of one.
LEMMA MiddleFirst ==
    ASSUME LinkInv, received # NoFrame, received.fhp > 0
    PROVE  received.data[1].k # 0
<1>1. /\ received.fhp \in Nat /\ 1 \in 1..Len(received.data) /\ Len(received.data) \in Nat
      /\ IF received.fhp = NoPacketStart THEN Unsettled(received.data)
              ELSE Settled(received.data, received.fhp)
  BY AtHandFrame, FrameOctets
<1>2. CASE received.fhp = NoPacketStart
  BY <1>1, <1>2 DEF Unsettled
<1>3. CASE received.fhp # NoPacketStart
  <2>1. 1 \in 1..received.fhp
    BY <1>1
  <2> QED
    BY <1>1, <1>3, <2>1 DEF Settled
<1> QED
  BY <1>2, <1>3

LEMMA SkipSweeps ==
    ASSUME LinkInv, SealLink, InStepHere, doubt = FALSE, R!Skip
    PROVE  Swept
<1>1. /\ received # NoFrame /\ packet = NoPacket /\ headerPointer = 0
      /\ RestSame /\ UNCHANGED <<packet, delivered>>
      /\ DeliveredIds \subseteq DeliveredIds'
  BY DidSkip, SameDelivered
<1>2. received.fhp > 0
  BY DEF R!Skip, R!Continued
<1>3. received.data[1].k # 0
  BY <1>1, <1>2, MiddleFirst
<1>4. multi = FALSE /\ received.data[1].pkt.id = 0
  BY <1>1, <1>3, FillAtHand
<1>5. FrameDone
  BY <1>4, GoesOnTo DEF R!Skip
<1> QED
  BY <1>1, <1>4, <1>5, SweptFrame

LEMMA PassFillSweeps ==
    ASSUME LinkInv, OnlyEncapsulation, SealLink, R!PassFill
    PROVE  Swept
<1>1. /\ received # NoFrame /\ RestSame /\ UNCHANGED <<packet, delivered>>
      /\ DeliveredIds \subseteq DeliveredIds'
      /\ Here.k = 0 /\ Here.pkt.len = 1 /\ MoveTo(headerPointer + Here.pkt.len)
  BY DidPassFill, SameDelivered
<1>2. Here.pkt.hdr = 1
  BY DEF R!PassFill, Here
<1>3. Here.pkt.id = 0
  <2>1. Own(sent, Here)
    BY <1>1, AtHandFrame
  <2> QED
    BY <1>2, <2>1, OctetKinds
<1>4. headerPointer + Here.pkt.len \in Nat \ {0}
  <2>1. headerPointer \in Nat
    BY <1>1, AtHandFrame
  <2> QED
    BY <1>1, <2>1
<1> QED
  BY <1>1, <1>3, <1>4, SweptFill

LEMMA LostTailSweeps ==
    ASSUME LinkInv, R!LostTail
    PROVE  Swept
<1>1. /\ received # NoFrame /\ headerPointer = 0 /\ received.fhp = 0
      /\ RestSame /\ UNCHANGED delivered /\ DeliveredIds \subseteq DeliveredIds'
  BY DidLostTail, SameDelivered
<1>2. Settled(received.data, 0) /\ Len(received.data) \in Nat \ {0}
  <2>1. IF received.fhp = NoPacketStart THEN Unsettled(received.data)
              ELSE Settled(received.data, received.fhp)
    BY <1>1, AtHandFrame
  <2>2. received.fhp # NoPacketStart
    BY <1>1 DEF NoPacketStart
  <2> QED
    BY <1>1, <2>1, <2>2, FrameOctets
<1>3. received.data[1].k = 0
  BY <1>2 DEF Settled
<1>4. headerPointer' = headerPointer /\ received' = received
  BY <1>1, <1>2 DEF R!LostTail, R!GoOn
<1>5. Ends(headerPointer') = Ends(headerPointer)
  BY <1>4
<1> QED
  BY <1>1, <1>3, <1>4, <1>5 DEF Swept

LEMMA AbortSweeps ==
    ASSUME received # NoFrame, R!Abort
    PROVE  Swept
<1>1. /\ RestSame /\ UNCHANGED <<received, headerPointer, packet, delivered>>
      /\ DeliveredIds \subseteq DeliveredIds'
  BY SameDelivered DEF R!Abort, RestSame
<1>2. Ends(headerPointer') = Ends(headerPointer)
  BY <1>1
<1> QED
  BY <1>1, <1>2 DEF Swept

LEMMA StartSweeps ==
    ASSUME LinkInv, OnlyEncapsulation, SealLink, R!Start
    PROVE  Swept
<1>1. received # NoFrame /\ Here.k = 0
  BY DidStart, HeaderRead
<1>2. /\ Here \in Octet /\ Own(sent, Here) /\ headerPointer \in Nat /\ Here.pkt.hdr \in Nat
      /\ Here.pkt.len \in Nat \ {0} /\ Len(Left) \in Nat
  BY <1>1, AtHandFrame, OctetFields, LeftLen
<1>3. CASE R!Abort
  BY <1>1, <1>3, AbortSweeps
<1>4. CASE /\ FrameDone /\ RestSame /\ UNCHANGED delivered
           /\ \/ Here.pkt.hdr > Len(Left) /\ packet' = Piece(Len(Left), Len(Left))
              \/ /\ Here.pkt.hdr <= Len(Left)
                 /\ packet' = Piece(Len(Left), Here.pkt.hdr)
                 /\ Here.pkt.pvn = pvnSpacePacket \/ Here.pkt.len > Len(Left)
  <2>1. PICK c \in Nat : packet' = Piece(Len(Left), c)
    BY <1>2, <1>4
  <2>2. DeliveredIds \subseteq DeliveredIds'
    BY <1>4, SameDelivered
  <2>3. CASE Here.pkt.id = 0
    BY <1>1, <1>4, <2>1, <2>2, <2>3, SweptFill
  <2>4. CASE Here.pkt.id # 0
    <3>1. Here.pkt.pvn # pvnSpacePacket
      BY <1>2, <2>4, OctetKinds DEF pvnSpacePacket, pvnEncapsulationPacket
    <3>2. Here.pkt.hdr <= Here.pkt.len
      BY <1>1, AtHandFrame DEF Formed
    <3>3. Here.pkt.len > Len(Left)
      BY <1>2, <1>4, <3>1, <3>2
    <3> QED
      BY <1>1, <1>4, <2>1, <2>2, <3>3, SweptBegun
  <2> QED
    BY <2>3, <2>4
<1>5. CASE /\ Here.pkt.pvn # pvnSpacePacket /\ Here.pkt.len <= Len(Left)
           /\ Hand(Piece(Here.pkt.len, Here.pkt.hdr))
           /\ MoveTo(headerPointer + Here.pkt.len) /\ Finishes(headerPointer + Here.pkt.len)
           /\ RestSame
  <2>1. CASE Here.pkt.id = 0
    <3>1. Here.pkt.len = 1
      BY <1>2, <1>5, <2>1, OctetKinds
    <3>2. DeliveredIds \subseteq DeliveredIds'
      <4>1. PICK p : p = Piece(Here.pkt.len, Here.pkt.hdr)
        OBVIOUS
      <4>2. Here.pkt.len \in 1..Len(Left)
        BY <1>2, <1>5
      <4>3. p.octets \in Seq(Octet)
        BY <1>1, <1>2, <4>1, <4>2, PieceIs, FragmentFields
      <4>4. delivered \in Seq(Seq(Octet)) /\ Hand(p)
        BY <1>5, <4>1 DEF LinkInv, RcvTypes
      <4> QED
        BY <4>3, <4>4, HandedIds
    <3>3. headerPointer + Here.pkt.len \in Nat \ {0}
      BY <1>2
    <3> QED
      BY <1>1, <1>5, <2>1, <3>1, <3>2, <3>3, SweptFill
  <2>2. CASE Here.pkt.id # 0
    <3>1. Here.pkt.pvn \in OutputPVNs
      BY <1>2, <2>2, OctetKinds DEF OnlyEncapsulation
    <3> QED
      BY <1>1, <1>2, <1>5, <2>2, <3>1, SweptWhole
  <2> QED
    BY <2>1, <2>2
<1> QED
  BY <1>3, <1>4, <1>5, DidStart

\* More of the packet at hand.
LEMMA LedFirst ==
    ASSUME LinkInv, Kept, Goes, Led(received.data[1])
    PROVE  First = received.data[1].pkt
<1>1. Len(packet.octets) \in Nat \ {0} /\ Len(packet.octets) = received.data[1].k
      /\ \A i \in 1..received.data[1].k :
             packet.octets[i] = [pkt |-> received.data[1].pkt, k |-> i - 1]
  BY FirstOctet DEF Goes, Kept, Led
<1>2. 1 \in 1..received.data[1].k
  BY <1>1
<1>3. packet.octets[1] = [pkt |-> received.data[1].pkt, k |-> 1 - 1]
  BY <1>1, <1>2
<1> QED
  BY <1>3 DEF First

LEMMA FollowingOctets ==
    ASSUME LinkInv, Kept, Goes, NEW o, o = Last(packet.octets)
    PROVE  /\ MoreLen \in 1..Len(received.data) /\ 1 \in 1..MoreLen
           /\ \A j \in 1..MoreLen : /\ received.data[j] = [pkt |-> o.pkt, k |-> o.k + j]
                                    /\ received.data[j].pkt = received.data[1].pkt
           /\ received.data[1].pkt = o.pkt
<1>1. \A j \in 1..MoreLen : received.data[j] = [pkt |-> o.pkt, k |-> o.k + j]
  BY GoesThrough
<1>2. /\ MoreLen \in Nat \ {0} /\ MoreLen <= Len(received.data) /\ Len(received.data) \in Nat
  BY LongerIs, FrameOctets DEF Goes
<1>3. \A j \in 1..MoreLen : received.data[j].pkt = o.pkt
  <2> SUFFICES ASSUME NEW j \in 1..MoreLen PROVE received.data[j].pkt = o.pkt
    OBVIOUS
  <2>1. received.data[j] = [pkt |-> o.pkt, k |-> o.k + j]
    BY <1>1
  <2> QED
    BY <2>1
<1>4. 1 \in 1..MoreLen
  BY <1>2
<1> QED
  BY <1>1, <1>2, <1>3, <1>4

LEMMA ContinueSweeps ==
    ASSUME LinkInv, Kept, Undisturbed, OnlyEncapsulation, SealLink, InStepHere,
           doubt = FALSE, R!Continue
    PROVE  Swept
<1>1. received # NoFrame /\ packet # NoPacket /\ headerPointer = 0 /\ received.fhp > 0 /\ Goes
  BY DidContinue DEF Goes
<1>2. CASE R!Abort
  BY <1>1, <1>2, AbortSweeps
<1>3. SUFFICES ASSUME ~R!Abort PROVE Swept
  BY <1>2
<1>4. PICK e \in R!ExpectedLengths(Longer) :
          /\ RestSame /\ MoveTo(MoreLen)
          /\ \/ /\ Len(Longer.octets) = e /\ Finishes(MoreLen) /\ Hand(Longer)
             \/ /\ Len(Longer.octets) # e /\ UNCHANGED delivered
                /\ \/ received.fhp # NoPacketStart /\ Finishes(MoreLen)
                   \/ received.fhp = NoPacketStart /\ Len(Longer.octets) > e
             \/ /\ Len(Longer.octets) < e /\ received.fhp = NoPacketStart
                /\ packet' = Longer /\ UNCHANGED delivered
  BY <1>3, DidContinue
<1>5. PICK o, n, m, t, data :
          /\ o = Last(packet.octets) /\ n = Len(packet.octets) /\ m = MoreLen
          /\ t = Len(Longer.octets) /\ data = received.data
  OBVIOUS
<1>6. /\ m \in Nat \ {0} /\ n \in Nat \ {0} /\ t = n + m /\ m \in 1..m
      /\ m \in 1..Len(data) /\ Len(data) \in Nat
      /\ Longer \in Fragment /\ Longer.pvn = packet.pvn /\ Longer.octets \in Seq(Octet)
      /\ \A j \in 1..n : Longer.octets[j] = packet.octets[j]
      /\ \A j \in 1..m : Longer.octets[n + j] = data[j]
      /\ received.fhp = NoPacketStart => m = Len(data)
  <2>1. Longer \in Fragment
    BY <1>1, LongerIs
  <2>2. received.fhp = NoPacketStart => m = Len(data)
    BY <1>5 DEF MoreLen
  <2>3. n \in Nat \ {0}
    BY <1>1, <1>5, FirstOctet DEF Kept
  <2>4. Len(data) \in Nat
    BY <1>1, <1>5, FrameOctets
  <2>5. /\ m \in Nat \ {0} /\ m <= Len(data) /\ t = n + m /\ Longer.pvn = packet.pvn
        /\ \A j \in 1..n : Longer.octets[j] = packet.octets[j]
        /\ \A j \in 1..m : Longer.octets[n + j] = data[j]
    BY <1>1, <1>5, LongerIs
  <2>6. m \in 1..m /\ m \in 1..Len(data)
    BY <2>4, <2>5
  <2> QED
    BY <2>1, <2>2, <2>3, <2>4, <2>5, <2>6, FragmentFields
<1>7. /\ o \in Octet /\ Own(sent, o) /\ o.k \in Nat /\ o.pkt.len \in Nat /\ o.k + 1 + m <= o.pkt.len
      /\ received.fhp # NoPacketStart => o.k + 1 + m = o.pkt.len
      /\ \A j \in 1..m : data[j] = [pkt |-> o.pkt, k |-> o.k + j]
  BY <1>1, <1>5, GoesThrough
<1>8. /\ \A j \in 1..m : data[j].pkt = o.pkt
      /\ data[1].pkt = o.pkt /\ data[m].k = o.k + m /\ data[m].pkt = o.pkt
  <2>1. \A j \in 1..m : data[j].pkt = o.pkt /\ data[j].k = o.k + j
    <3> SUFFICES ASSUME NEW j \in 1..m PROVE data[j].pkt = o.pkt /\ data[j].k = o.k + j
      OBVIOUS
    <3>1. data[j] = [pkt |-> o.pkt, k |-> o.k + j]
      BY <1>7
    <3> QED
      BY <3>1
  <2>2. 1 \in 1..m
    BY <1>6
  <2> QED
    BY <1>6, <2>1, <2>2
<1>9. DeliveredIds \subseteq DeliveredIds'
  <2>1. CASE UNCHANGED delivered
    BY <2>1, SameDelivered
  <2>2. CASE Hand(Longer)
    <3>1. delivered \in Seq(Seq(Octet))
      BY DEF LinkInv, RcvTypes
    <3> QED
      BY <1>6, <2>2, <3>1, HandedIds
  <2> QED
    BY <1>4, <2>1, <2>2
<1>10. Len(sent) \in Nat
  BY DEF LinkInv, Inv, InvTypes
<1>11. ASSUME Finishes(MoreLen), o.k + 1 + m = o.pkt.len,
              o.pkt.id # 0 => o.pkt.id \in DeliveredIds'
       PROVE  Swept
  <2>1. Ending(data[m])
    <3>1. o.k + m + 1 = o.pkt.len
      BY <1>6, <1>7, <1>11
    <3> QED
      BY <1>8, <3>1 DEF Ending
  <2>2. \A x \in 1..Len(sent) : \A j \in 1..m :
            headerPointer < j /\ EndsAt(x, j) => x \in DeliveredIds'
    <3> SUFFICES ASSUME NEW x \in 1..Len(sent), NEW j \in 1..m, EndsAt(x, j)
                 PROVE  x \in DeliveredIds'
      OBVIOUS
    <3>1. x = o.pkt.id
      BY <1>5, <1>8 DEF EndsAt
    <3>2. x # 0
      BY <1>10
    <3> QED
      BY <1>11, <3>1, <3>2
  <2>3. /\ m \in 1..Len(received.data) /\ MoveTo(m) /\ Finishes(m) /\ Ending(received.data[m])
    BY <1>4, <1>5, <1>6, <1>11, <2>1
  <2> QED
    BY <1>1, <1>4, <1>9, <2>2, <2>3, SweptTo
<1>12. CASE o.pkt.id = 0
  <2>1. received.fhp # NoPacketStart
    <3> SUFFICES ASSUME received.fhp = NoPacketStart PROVE FALSE
      OBVIOUS
    <3>1. m = DataFieldLen /\ DataFieldLen \in Nat
      BY <1>1, <1>5, <1>6, AtHandFrame
    <3>2. o.pkt.len = 1 \/ o.pkt.len <= DataFieldLen
      BY <1>7, <1>12, OctetKinds
    <3> QED
      BY <1>6, <1>7, <3>1, <3>2
  <2>2. Finishes(MoreLen) /\ o.k + 1 + m = o.pkt.len
    BY <1>4, <1>7, <2>1
  <2> QED
    BY <1>11, <1>12, <2>2
<1>13. CASE o.pkt.id # 0
  <2>1. Led(data[1])
    <3>1. data[1].k # 0
      BY <1>1, <1>5, MiddleFirst
    <3> QED
      BY <1>1, <1>5, <1>8, <1>13, <3>1 DEF InStepHere
  <2>2. First = o.pkt /\ packet.pvn = First.pvn
    <3>1. First = data[1].pkt /\ packet.pvn = data[1].pkt.pvn
      BY <1>1, <1>5, <2>1, LedFirst DEF Led
    <3> QED
      BY <1>8, <3>1
  <2>3. First.pvn = pvnEncapsulationPacket /\ First.id # 0
    BY <1>7, <1>13, <2>2, OctetKinds
  <2>4. ~Overlong(packet)
    BY <2>3 DEF Overlong, First, pvnSpacePacket, pvnEncapsulationPacket
  <2>5. Begins(packet)
    BY <1>1, <2>3, <2>4 DEF Kept, HandRight, Sound, First
  <2>6. e = First.len
    BY <1>1, <2>3, <2>4, <2>5, BeginsExpected
  <2>7. /\ t <= First.len
        /\ received.fhp # NoPacketStart => t = First.len
        /\ \A i \in 1..t : Longer.octets[i] = [pkt |-> First, k |-> i - 1]
    BY <1>1, <1>5, <2>5, BeginsOn
  <2>8. First.len \in Nat /\ t \in 1..t /\ 1 \in 1..t
    BY <1>6, <1>7, <2>2
  <2>9. ASSUME NEW j \in 1..m PROVE data[j].k = n + j - 1
    <3>1. PICK i : i = n + j
      OBVIOUS
    <3>2. i \in 1..t
      BY <1>6, <3>1
    <3>3. data[j] = [pkt |-> First, k |-> i - 1]
      BY <1>6, <2>7, <3>1, <3>2
    <3>4. data[j].k = i - 1
      BY <3>3
    <3>5. i - 1 = n + j - 1
      BY <1>6, <2>9, <3>1
    <3> QED
      BY <3>4, <3>5
  <2>10. CASE t = e
    <3>1. Finishes(MoreLen) /\ Hand(Longer)
      BY <1>4, <1>5, <1>6, <2>6, <2>8, <2>10
    <3>2. o.k + 1 + m = o.pkt.len
      <4>1. o.k + m = n + m - 1
        <5>1. data[m].k = n + m - 1
          BY <1>6, <2>9
        <5> QED
          BY <1>8, <5>1
      <4>2. o.k \in Nat /\ m \in Nat /\ n \in Nat /\ t = n + m
        BY <1>6, <1>7
      <4>3. o.pkt.len = t
        BY <2>2, <2>6, <2>10
      <4> QED
        BY <4>1, <4>2, <4>3
    <3>3. Longer.octets[1].pkt = First
      <4>1. Longer.octets[1] = [pkt |-> First, k |-> 1 - 1]
        BY <2>7, <2>8
      <4> QED
        BY <4>1
    <3>4. First.id \in DeliveredIds'
      <4>1. delivered \in Seq(Seq(Octet)) /\ Longer.pvn \in OutputPVNs
        BY <1>6, <2>2, <2>3 DEF LinkInv, RcvTypes, OnlyEncapsulation
      <4> QED
        BY <1>6, <2>3, <3>1, <3>3, <4>1, HandedIds
    <3> QED
      BY <1>11, <2>2, <3>1, <3>2, <3>4
  <2>11. CASE t # e
    <3>1. t < e /\ t < First.len
      BY <1>6, <2>6, <2>7, <2>8, <2>11
    <3>2. received.fhp = NoPacketStart /\ packet' = Longer
      BY <1>4, <1>5, <1>6, <2>6, <2>7, <2>8, <2>11, <3>1
    <3>3. FrameDone
      BY <1>4, <1>5, <1>6, <3>2 DEF MoveTo
    <3>4. Ends(headerPointer) = {}
      <4> SUFFICES ASSUME NEW x \in 1..Len(sent), NEW j \in 1..m, EndsAt(x, j)
                   PROVE  FALSE
        BY <1>5, <1>6, <3>2 DEF Ends
      <4>1. data[j].k = n + j - 1 /\ data[j].pkt = First
        BY <1>8, <2>2, <2>9
      <4>2. n + j - 1 + 1 = First.len
        BY <1>5, <4>1 DEF EndsAt, Ending
      <4> QED
        BY <1>6, <2>8, <3>1, <4>2
    <3>5. ASSUME NEW z, z = Last(received.data) PROVE Carried(z)'
      <4>1. z = data[m]
        BY <1>5, <1>6, <3>2, <3>5 DEF Last
      <4>2. z.pkt = First /\ z.k + 1 = t
        <5>1. data[m].k = n + m - 1
          BY <1>6, <2>9
        <5> QED
          BY <1>6, <1>8, <2>2, <4>1, <5>1
      <4>3. PICK p : p = Longer
        OBVIOUS
      <4>4. /\ p.pvn = z.pkt.pvn /\ Len(p.octets) = z.k + 1 /\ p # NoPacket
            /\ \A i \in 1..z.k + 1 : p.octets[i] = [pkt |-> z.pkt, k |-> i - 1]
        <5>1. NoPacket \notin Fragment
          BY LinkAssumption, SameData DEF LinkAssumption, R!RcvAssumption
        <5> QED
          BY <1>5, <1>6, <2>2, <2>7, <4>2, <4>3, <5>1
      <4>5. packet' = p
        BY <3>2, <4>3
      <4> QED
        BY <4>4, <4>5 DEF Carried
    <3>6. \A z : z = Last(received.data) => Clear(z)'
      BY <3>5 DEF Clear
    <3> QED
      BY <1>1, <1>4, <1>9, <3>3, <3>4, <3>6 DEF Swept
  <2> QED
    BY <2>10, <2>11
<1> QED
  BY <1>12, <1>13

LEMMA AssembleSweeps ==
    ASSUME LinkInv, Kept, Undisturbed, OnlyEncapsulation, SealLink, InStepHere,
           doubt = FALSE, R!Assemble
    PROVE  Swept
  BY DiscardSweeps, SkipSweeps, PassFillSweeps, LostTailSweeps, StartSweeps, ContinueSweeps
  DEF R!Assemble

LEMMA AssembleDelivers ==
    ASSUME LinkInv, Kept, Undisturbed, R!Assemble
    PROVE  /\ DeliveredIds \subseteq DeliveredIds' /\ RestSame
           /\ received' \in {received, NoFrame}
<1>1. CASE R!Abort
  BY <1>1, SameDelivered DEF R!Abort, RestSame
<1>2. CASE \E idx : PassedTo(idx)
  <2>1. PICK idx : PassedTo(idx)
    BY <1>2
  <2>2. RestSame /\ received' \in {received, NoFrame}
    BY <2>1 DEF PassedTo, MoveTo, FrameDone
  <2>3. CASE delivered' = delivered
    BY <2>2, <2>3, SameDelivered
  <2>4. CASE delivered' # delivered
    <3>1. PICK y : HandsOn(y)
      BY <2>1, <2>4 DEF PassedTo
    <3>2. y \in 1..Len(sent) /\ delivered' = Append(delivered, OctetsOf(sent[y]))
      BY <3>1 DEF HandsOn
    <3>3. delivered \in Seq(Seq(Octet)) /\ sent \in Seq(Packet)
      BY DEF LinkInv, RcvTypes, Inv, InvTypes
    <3>4. \A i \in DOMAIN delivered : i \in DOMAIN delivered' /\ delivered'[i] = delivered[i]
      BY <3>2, <3>3
    <3>5. DeliveredIds \subseteq DeliveredIds'
      BY <3>4 DEF DeliveredIds
    <3> QED
      BY <2>2, <3>5
  <2> QED
    BY <2>3, <2>4
<1> QED
  BY <1>1, <1>2, AssemblePasses

LEMMA SteadyAssemble ==
    ASSUME LinkInv, Kept, Undisturbed, OnlyEncapsulation, Steady, Assemble, RcvSame
    PROVE  Steady'
<1>1. /\ R!Assemble /\ UNCHANGED <<gap, doubt, due>> /\ GenSame /\ sent' = sent
      /\ doubt \in BOOLEAN
  BY DEF Assemble, history, RcvSame, GenSame, LinkInv, Others
<1>2. /\ DeliveredIds \subseteq DeliveredIds' /\ received' \in {received, NoFrame}
      /\ UNCHANGED <<wire, multi, rcvFrameNumber>>
  BY <1>1, AssembleDelivers DEF RestSame
<1>3. SealLink'
  BY <1>1, <1>2, SealAssemble DEF Steady
<1>4. CASE doubt = TRUE
  <2>1. CaughtUp' /\ InStepHere'
    BY <1>1, <1>4 DEF CaughtUp, InStepHere
  <2>2. due \subseteq DeliveredIds
    BY <1>4 DEF Steady, DueKept, ToCome
  <2>3. DueKept'
    BY <1>1, <1>2, <2>2 DEF DueKept
  <2> QED
    BY <1>3, <2>1, <2>3 DEF Steady
<1>5. CASE doubt = FALSE
  <2>1. Swept
    BY <1>1, <1>5, AssembleSweeps DEF Steady
  <2>2. received # NoFrame
    BY <2>1 DEF Swept
  <2>3. due \subseteq DeliveredIds \cup Ends(headerPointer)
    BY <1>5, <2>2 DEF Steady, DueKept, ToCome
  <2>4. ASSUME NEW o \in Octet, o.k < o.pkt.len, Follows(0, rcvFrameNumber, o, TRUE),
               IF received' # NoFrame THEN o = Last(received'.data) ELSE Clear(o)'
        PROVE  CaughtUp'
    <3>1. PICK z, a, known : z = 0 /\ a = rcvFrameNumber /\ known = TRUE
      OBVIOUS
    <3>2. Follows(z, a, o, known)
      BY <2>4, <3>1
    <3>3. Follows(z, a, o, known)'
      BY <1>1, <1>2, <3>2, StandStill
    <3>4. Follows(0, rcvFrameNumber, o, TRUE)'
      BY <1>2, <3>1, <3>3
    <3> QED
      BY <2>4, <3>4 DEF CaughtUp
  <2>5. CASE /\ FrameDone /\ Ends(headerPointer) \subseteq DeliveredIds'
             /\ \A o : o = Last(received.data) => Clear(o)'
    <3>1. received' = NoFrame
      BY <2>5 DEF FrameDone
    <3>2. CaughtUp'
      <4> SUFFICES ASSUME gap = FALSE PROVE CaughtUp'
        BY <1>1 DEF CaughtUp
      <4>1. PICK o \in Octet : /\ o.k < o.pkt.len /\ Follows(0, rcvFrameNumber, o, TRUE)
                               /\ o = Last(received.data)
        BY <1>5, <2>2 DEF Steady, CaughtUp
      <4>2. Clear(o)'
        BY <2>5, <4>1
      <4> QED
        BY <2>4, <3>1, <4>1, <4>2
    <3>3. InStepHere'
      BY <3>1 DEF InStepHere
    <3>4. DueKept'
      BY <1>1, <1>2, <2>3, <2>5 DEF DueKept
    <3> QED
      BY <1>3, <3>2, <3>3, <3>4 DEF Steady
  <2>6. CASE /\ received' = received
             /\ Ends(headerPointer) \subseteq DeliveredIds' \cup Ends(headerPointer')
             /\ headerPointer' = 0 =>
                    (headerPointer = 0 /\ packet' = packet) \/ received.data[1].k = 0
    <3>1. CaughtUp'
      <4> SUFFICES ASSUME gap = FALSE PROVE CaughtUp'
        BY <1>1 DEF CaughtUp
      <4>1. PICK o \in Octet : /\ o.k < o.pkt.len /\ Follows(0, rcvFrameNumber, o, TRUE)
                               /\ o = Last(received.data)
        BY <1>5, <2>2 DEF Steady, CaughtUp
      <4> QED
        BY <2>2, <2>4, <2>6, <4>1
    <3>2. InStepHere'
      <4> SUFFICES ASSUME headerPointer' = 0, received.data[1].k # 0
                   PROVE  InStepHere'
        BY <2>6 DEF InStepHere
      <4>1. headerPointer = 0 /\ packet' = packet
        BY <2>6
      <4>2. Led(received.data[1]) \/ (multi = FALSE /\ received.data[1].pkt.id = 0)
        BY <1>5, <2>2, <4>1 DEF Steady, InStepHere
      <4> QED
        BY <1>2, <2>6, <4>1, <4>2 DEF InStepHere, Led
    <3>3. DueKept'
      <4>1. PICK h : h = headerPointer'
        OBVIOUS
      <4>2. Ends(h)' = Ends(h)
        BY <1>1, <2>6 DEF Ends, EndsAt, Ending
      <4>3. ToCome' = Ends(h)
        BY <1>1, <1>5, <2>2, <2>6, <4>1, <4>2 DEF ToCome
      <4>4. Ends(headerPointer) \subseteq DeliveredIds' \cup Ends(h)
        BY <2>6, <4>1
      <4> QED
        BY <1>1, <1>2, <2>3, <4>3, <4>4 DEF DueKept
    <3> QED
      BY <1>3, <3>1, <3>2, <3>3 DEF Steady
  <2> QED
    BY <2>1, <2>5, <2>6 DEF Swept
<1> QED
  BY <1>1, <1>4, <1>5

-----------------------------------------------------------------------------
(* Only gaps cost packets.                                                 *)

LEMMA SteadyNext ==
    LinkInv /\ Kept /\ Undisturbed /\ OnlyEncapsulation /\ Steady /\ [Next]_vars => Steady'
<1> SUFFICES ASSUME LinkInv, Kept, Undisturbed, OnlyEncapsulation, Steady, [Next]_vars
             PROVE  Steady'
  OBVIOUS
<1>1. CASE Generate
  BY <1>1, SteadyGenerate DEF Generate
<1>2. CASE Receive
  <2>1. RcvSame /\ (Take \/ Ignore \/ Assemble)
    BY <1>2 DEF Receive, RcvSame
  <2> QED
    BY <2>1, SteadyTake, SteadyIgnore, SteadyAssemble
<1>3. CASE Lose \/ Spoil \/ InsertIdle
  BY <1>3, SteadyChannel
<1>4. CASE UNCHANGED vars
  <2>1. UNCHANGED genvars /\ UNCHANGED <<rcvonly, envvars, history>>
    BY <1>4 DEF vars
  <2> QED
    BY <2>1, SteadyGenerate
<1> QED
  BY <1>1, <1>2, <1>3, <1>4 DEF Next

\* A gap costs the packets in it and those up to the next frame that begins with the start of
\* a packet, and nothing else is ever lost: every other packet _assemblePacket() has had the
\* octets of is delivered by the time it is done with the frame they end in, however long
\* packets and Data Fields are, with one packet to a frame or several -- if the packets are
\* Encapsulation Packets with an output, of more than one octet of header, and, as before, the
\* output is never disconnected, no gap is as long as the frame count, and every header is in
\* the frame it starts in or the next one.
THEOREM OnlyGapsLosePackets ==
    Undisturbed /\ OnlyEncapsulation => (Spec => []NothingElseLost)
<1> SUFFICES ASSUME Undisturbed, OnlyEncapsulation PROVE Spec => []NothingElseLost
  OBVIOUS
<1>1. Init => LinkInv /\ Kept /\ Steady
  BY LinkInit, KeptInit, SealLinkInit, SteadyInit DEF Steady
<1>2. LinkInv /\ Kept /\ Steady /\ [Next]_vars => LinkInv' /\ Kept' /\ Steady'
  BY KeptNext, SteadyNext, GenerateLink, ReceiveLink, LoseLink, StutterLink DEF Next
<1>3. Steady => NothingElseLost
  BY DEF Steady, DueKept, ToCome, NothingElseLost
<1> QED
  BY <1>1, <1>2, <1>3, PTL DEF Spec
=============================================================================
