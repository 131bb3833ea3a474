---------------------------- MODULE MCAOS_VC_Link ----------------------------
(* Packets and lengths for the runs of AOS_VC_Link. *)
EXTENDS AOS_VC_Link, TLC

Encap(h, n) == [hdr |-> h, len |-> n]
\* Zones of 3 and 8: a packet that shares a zone or is cut in its header, one that takes two
\* zones or four.
LinkShapes   == {Encap(4, 4), Encap(4, 10)}
\* Zone of 5: a packet shorter than it, in parts of two and of three or four.
ThreeShapes  == {Encap(4, 4), Encap(4, 7), Encap(4, 12)}
\* Zone of 5: packets whose parts are of the same lengths.
SpliceShapes == {Encap(4, 7), Encap(4, 8)}
OneLength    == {5}
TwoLengths   == {3, 8}
=============================================================================
