---------------------------- MODULE MCASM_Stream ----------------------------
(* A marker whose second octet repeats its first, and units that may contain it. *)
EXTENDS ASM_Stream, TLC

AAB        == <<"A", "A", "B">>
Octets     == {"A", "B", "C"}
TwoContents == {<<"C", "A">>, <<"B", "C">>}
=============================================================================
