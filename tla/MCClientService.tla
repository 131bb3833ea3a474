-------------------------- MODULE MCClientService ---------------------------
(* Definitions for the runs of ClientService. *)
EXTENDS ClientService

Get    == [method |-> "GET", lines |-> TRUE, body |-> 0, close |-> FALSE, file |-> "", overwrite |-> FALSE]
OldGet == [Get EXCEPT !.close = TRUE]
BareGet == [OldGet EXCEPT !.lines = FALSE]
PutIt  == [Get EXCEPT !.method = "PUT", !.body = 1]
RpcCall == [Get EXCEPT !.method = "POST", !.body = 1]
Upload == [RpcCall EXCEPT !.file = "a"]
OldUpload == [Upload EXCEPT !.close = TRUE]
Replace == [Upload EXCEPT !.overwrite = TRUE]
LongUpload == [Replace EXCEPT !.body = 2, !.close = TRUE]

Some    == {Get, OldUpload, LongUpload}
Whole   == {OldGet, BareGet, PutIt, RpcCall, Upload, Replace}
Plain   == {RpcCall, PutIt}
Unequal == {Replace, LongUpload}
=============================================================================
