---------------------------- MODULE MCTM_VC_Link ----------------------------
(* Packets for the runs of TM_VC_Link. *)
EXTENDS TM_VC_Link, TLC

Encap(h, n) == [pvn |-> pvnEncapsulationPacket, hdr |-> h, len |-> n]
Space(n)    == [pvn |-> pvnSpacePacket, hdr |-> 6, len |-> n]
Other(n)    == [pvn |-> pvnUnknown, hdr |-> 6, len |-> n]

\* Data Field of 6: shorter than it, exactly it, in parts of three frames or four.
EncapShapes == {Encap(4, 5), Encap(4, 6), Encap(4, 14)}
\* Data Field of 14: every kind of version number, headers cut in two, a header of two octets.
MixedShapes == {Encap(2, 3), Space(13), Space(7), Other(9)}
\* Data Field of 14, fill is an idle Space Packet: a packet that leaves less room than the
\* fill takes, one that fills a frame, one that ends exactly with a later frame.
LiveShapes == {Encap(8, 9), Encap(4, 14), Encap(4, 19)}
\* Data Field of 6, for the violations: one packet in a frame, one in three.
TwoShapes == {Encap(4, 5), Encap(4, 13)}
\* A header of two octets, and a Data Field with room for four such packets.
ShortShapes == {Encap(2, 3)}
AllPVNs == PVNs
=============================================================================
