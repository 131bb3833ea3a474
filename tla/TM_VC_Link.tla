----------------------------- MODULE TM_VC_Link -----------------------------
(***************************************************************************)
(* A virtual channel from end to end: modTM_VC_Gen_Packet at one end,      *)
(* modTM_VC_Rcv_Packet at the other, each with its service thread, and     *)
(* between them whatever the rest of the channel does to frames: lose      *)
(* them, spoil their headers, insert frames of idle data.                  *)
(***************************************************************************)
EXTENDS TM_VC_Gen_Packet, FiniteSets

CONSTANTS
    DropBadFrames, AllowPacketsAfterFill, OutputPVNs, NoPacket,
    MaxHits,    \* bound: frames lost or spoilt between two that are taken
    MaxIdles    \* bound: idle frames inserted

VARIABLES
    rcvFrameNumber, received, headerPointer, leadPVN, packet, delivered, aborted,
    hits, idles,
    gap,        \* history: a frame has been lost since the last one that was taken
    doubt,      \* history: no frame since the last gap began with a new packet
    due         \* history: packets the receiver has had every octet of, free of doubt

envvars == <<hits, idles>>
history == <<gap, doubt, due>>
rcvonly == <<rcvFrameNumber, received, headerPointer, leadPVN, packet, delivered, aborted>>
vars    == <<genvars, rcvonly, envvars, history>>

R == INSTANCE TM_VC_Rcv_Packet WITH multiDataField <- multi

ASSUME LinkAssumption ==
    /\ R!RcvAssumption
    /\ MaxHits \in Nat /\ MaxIdles \in Nat

\* Types of both ends and of the history.
TypeOK ==
    /\ GenTypeOK /\ R!RcvTypeOK
    /\ hits \in 0..MaxHits /\ idles \in 0..MaxIdles
    /\ gap \in BOOLEAN /\ doubt \in BOOLEAN /\ due \subseteq Nat

Init ==
    /\ GenInit /\ R!RcvInit
    /\ hits = 0 /\ idles = 0
    /\ gap = FALSE /\ doubt = FALSE /\ due = {}

Generate == GenNext /\ UNCHANGED <<rcvonly, envvars, history>>

\* After a gap nothing is certain until a frame begins with the start of a packet.
StillInDoubt(f) == (doubt \/ gap) /\ f.fhp # 0
EndingIn(f) == {o.pkt.id : o \in {f.data[i] : i \in DOMAIN f.data}} \cap
               {i \in 1..Len(sent) : \E j \in DOMAIN f.data :
                    f.data[j] = [pkt |-> sent[i], k |-> sent[i].len - 1]}

Take ==
    /\ R!Take
    /\ LET f == Head(wire) IN
       /\ doubt' = StillInDoubt(f)
       /\ due' = IF StillInDoubt(f) THEN due ELSE due \cup EndingIn(f)
    /\ gap' = FALSE /\ hits' = 0
    /\ UNCHANGED idles

Ignore ==
    /\ R!Ignore
    /\ gap' = (gap \/ R!Rejected(Head(wire)))
    /\ UNCHANGED <<doubt, due, envvars>>

Assemble == R!Assemble /\ UNCHANGED <<envvars, history>>

Receive == /\ ~aborted
           /\ Take \/ Ignore \/ Assemble
           /\ UNCHANGED <<msg_queue, sent, phase, netdata, netdataIdx, frame,
                          firstHeaderIndexSet, currentFrameNumber, linked, unplugs>>

-----------------------------------------------------------------------------
\* The channel in between.
Unhurt == UNCHANGED <<multi, msg_queue, sent, phase, netdata, netdataIdx, frame,
                      firstHeaderIndexSet, currentFrameNumber, linked, unplugs, rcvonly,
                      doubt, due>>

Lose ==
    /\ wire # <<>> /\ hits < MaxHits
    /\ wire' = Tail(wire) /\ hits' = hits + 1
    /\ gap' = (gap \/ Head(wire).fhp # OnlyIdleData)
    /\ UNCHANGED idles /\ Unhurt

Spoil ==
    /\ wire # <<>> /\ hits < MaxHits /\ Head(wire).ok
    /\ wire' = [wire EXCEPT ![1].ok = FALSE] /\ hits' = hits + 1
    /\ UNCHANGED <<idles, gap>> /\ Unhurt

InsertIdle ==
    /\ idles < MaxIdles /\ Len(wire) < WireMax
    /\ wire' = Append(wire, IdleFrame) /\ idles' = idles + 1
    /\ UNCHANGED <<hits, gap>> /\ Unhurt

Next == Generate \/ Receive \/ Lose \/ Spoil \/ InsertIdle

Spec == Init /\ [][Next]_vars

\* Both service threads keep running; a queue that is not empty wakes its reader.
Fairness ==
    /\ WF_vars(GenStep /\ UNCHANGED <<rcvonly, envvars, history>>)
    /\ WF_vars(Receive)
FairSpec == Spec /\ Fairness

-----------------------------------------------------------------------------
\* The pair of modules is a packet service: whatever is lost, spoilt or inserted on the
\* way, what comes out is packets that went in, whole, in order, none twice.
Service == INSTANCE TM_PacketLink
PacketService == Service!Spec

\* _assemblePacket() takes a header only where a packet starts, so the lengths and
\* version numbers it acts on are never octets of somebody's data.
ReadsHeaders ==
    R!AtStart => received.data[headerPointer + 1].k = 0

\* The state is of its types, the position in a frame is within it, and headers are headers.
OnlyHeadersRead == TypeOK /\ ReadsHeaders

DeliveredIds == {delivered[i][1].pkt.id : i \in DOMAIN delivered}

\* A gap costs the packets in it and those up to the next frame that begins with the
\* start of a packet; every other packet is delivered once its last frame is done with.
NothingElseLost == received = NoFrame => due \subseteq DeliveredIds

\* With nothing lost and the output always connected every packet sent comes out, however
\* it was cut up and topped up (modTM_VC_Gen_Packet.cpp:249-292).
AllArrive == \A n \in 1..MaxPackets :
    [](hits = 0 /\ unplugs = 0) => (Len(sent) >= n ~> n \in DeliveredIds)

\* "Nothing else to process, get out." (modTM_VC_Rcv_Packet.cpp:361): the loop over a frame
\* whose Data Field is the middle of a packet nobody has begun comes to its end.
FrameFinished == received # NoFrame ~> received = NoFrame

\* "frameBuf Pointer to bufLen octets to copy to the new buffer" (SpacePacket.hpp:84): the
\* length a Space Packet was sent with is the length the receiver waits for.
LengthKept == packet # NoPacket =>
    LET first == packet.octets[1].pkt IN
    Len(packet.octets) >= first.hdr => R!ExpectedLengths(packet) = {first.len}

\* "@throw LogicError If there's not enough date to determine the expected length."
\* (NetworkData.hpp:437): hasAllParts() throws only for a packet whose header is not all
\* in the frame it starts in.
ThrowsForWantOfHeader ==
    aborted /\ packet = NoPacket =>
        Len(R!Rest(headerPointer)) < received.data[headerPointer + 1].pkt.hdr

\* "Just ignore the first chunk and move on." (modTM_VC_Rcv_Packet.cpp:362): when the
\* start of a packet was lost, the packets that start behind its end in the same frame are
\* gone on to, if they are of a kind the module knows.
Resumed ==
    received # NoFrame /\ received.fhp # NoPacketStart
    /\ (\A i \in DOMAIN received.data :
            received.data[i].pkt.pvn \in {pvnSpacePacket, pvnEncapsulationPacket})
    => R!Supported
=============================================================================
