---------------------------- MODULE TM_PacketLink ----------------------------
(***************************************************************************)
(* What a packet service over a TM virtual channel promises: every data    *)
(* unit that comes out is one of the packets put in, whole and unchanged,  *)
(* and packets come out in the order they went in, each at most once; any  *)
(* of them may be lost.                                                    *)
(***************************************************************************)
EXTENDS TM_Transfer_Frame

VARIABLES
    sent,      \* the packets put in, in order
    delivered  \* the octets of every data unit that came out

\* How much of sent is behind the last packet delivered.
Behind(k) == delivered = <<>> \/ \E i \in 1..k : OctetsOf(sent[i]) = delivered[Len(delivered)]

Init == sent = <<>> /\ delivered = <<>>

Put == /\ Len(sent) < Len(sent') /\ SubSeq(sent', 1, Len(sent)) = sent
       /\ UNCHANGED delivered
Deliver == /\ \E i \in DOMAIN sent : /\ Behind(i - 1)
                                     /\ delivered' = Append(delivered, OctetsOf(sent[i]))
           /\ UNCHANGED sent

Spec == Init /\ [][Put \/ Deliver]_<<sent, delivered>>
=============================================================================
