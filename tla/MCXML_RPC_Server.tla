-------------------------- MODULE MCXML_RPC_Server --------------------------
(* Modules and configuration files for XML_RPC_Server. *)
EXTENDS XML_RPC_Server, TLC

CONSTANTS devTcp4Server, devFile, modTcp4Receiver, modTcp4Transmitter, modFdReceiver, d1, d2, s1, s2

TheDevModules == {devTcp4Server, devFile}
TheSegModules == {modTcp4Receiver, modTcp4Transmitter, modFdReceiver}
IsTcp(m) == m \in {modTcp4Receiver, modTcp4Transmitter}
TheDeps  == [m \in TheSegModules |-> IF IsTcp(m) THEN devTcp4Server ELSE None]
TheSides == [m \in TheSegModules |-> IF m = modTcp4Transmitter THEN "writer" ELSE "reader"]
TheTakes == [m \in TheSegModules |-> IF IsTcp(m) THEN {devTcp4Server} ELSE TheDevModules]

\* A receiver and a transmitter on one device.
Sound   == [devType |-> (d1 :> devTcp4Server @@ d2 :> None),
            dllName |-> (s1 :> modTcp4Receiver @@ s2 :> modTcp4Transmitter),
            deviceName |-> (s1 :> d1 @@ s2 :> d1)]
\* A segment that names a device nothing describes, and one without a device.
Dangles == [Sound EXCEPT !.deviceName = (s1 :> None @@ s2 :> d2)]
\* A module that cannot be loaded behind one that can.
Missing == [Sound EXCEPT !.dllName[s2] = modFdReceiver, !.deviceName[s2] = None]
\* Two receivers on one device: the later one has it.
Shared == [Sound EXCEPT !.dllName[s2] = modTcp4Receiver]
\* The device of a segment that is not described.
Left == [Sound EXCEPT !.dllName[s2] = None]
TheFiles == {Sound, Dangles, Missing, Shared, Left}
=============================================================================
