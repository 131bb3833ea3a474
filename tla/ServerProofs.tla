---------------------------- MODULE ServerProofs ----------------------------
(***************************************************************************)
(* Proofs about the server: what it manages, for any modules, devices and  *)
(* segments (nothing refers to code that is not loaded, the records of who *)
(* uses a device agree, and a switch makes of a file what it says); and    *)
(* its HTTP side, for any clients, threads and requests, however they come *)
(* in pieces (each is done once, as asked, and a file is made of uploads). *)
(***************************************************************************)
EXTENDS XML_RPC_Server, ClientService, FiniteSetTheorems, TLAPS

\* The objects of a module.
Places(S, f, m) == {x \in S : f[x] = m}
DevicesOf(m)  == Places(Devices, _devices, m)
SegmentsOf(m) == Places(Segments, _handlers, m)

\* _referenceCount counts the objects there are.
Counted == \A m \in Modules : refs[m] = Cardinality(DevicesOf(m)) + Cardinality(SegmentsOf(m))

\* The dependency of a module that is loaded is loaded and told of it.
Recorded ==
    "refreshed" \in mishaps \/
    \A m \in _dllRegister, d \in DevModules : d \in DepsOf(m) => d \in _dllRegister /\ m \in rdeps[d]

CodeInv == TypeOK /\ MethodsHaveCode /\ Counted /\ ObjectsHaveCode /\ Recorded

Wirings == [user : [Sides -> [Devices -> NoneOr(Segments)]], device : [Segments -> NoneOr(Devices)],
            deviceName : [Segments -> NoneOr(Devices)]]

-----------------------------------------------------------------------------
(* Types.                                                                  *)

LEMMA DepsType == \A m \in Modules : DepsOf(m) \subseteq DevModules
BY ServerAssumption DEF DepsOf, NoneOr, ServerAssumption

LEMMA WiringType == TypeOK => Wiring \in Wirings
BY DEF TypeOK, Wiring, Wirings, Settings

LEMMA SetUserType ==
    ASSUME NEW w \in Wirings, NEW i \in Sides, NEW d \in Devices, NEW h \in NoneOr(Segments)
    PROVE  SetUser(w, i, d, h) \in Wirings
<1>1. [w.user EXCEPT ![i][d] = h] \in [Sides -> [Devices -> NoneOr(Segments)]]
  BY DEF Wirings
<1>2. \A f \in [Segments -> NoneOr(Devices)] :
          [s \in Segments |-> IF s = w.user[i][d] THEN None ELSE f[s]] \in [Segments -> NoneOr(Devices)]
  BY DEF NoneOr
<1> QED
  BY <1>1, <1>2 DEF SetUser, Wirings

LEMMA ConnectType ==
    ASSUME NEW w \in Wirings, NEW i \in Sides, NEW h \in Segments, NEW d \in Devices
    PROVE  ConnectDevice(w, i, h, d) \in Wirings
<1>1. SetUser(w, i, d, h) \in Wirings
  BY SetUserType DEF NoneOr
<1> QED
  BY <1>1 DEF ConnectDevice, Wirings, NoneOr

LEMMA DisconnectType ==
    ASSUME TypeOK, NEW w \in Wirings, NEW h \in Segments, _handlers[h] # None
    PROVE  DisconnectDevice(w, h) \in Wirings
<1>1. Side[_handlers[h]] \in Sides
  BY ServerAssumption DEF TypeOK, NoneOr, Sides, ServerAssumption
<1>2. CASE w.device[h] # None
  <2>1. w.device[h] \in Devices /\ None \in NoneOr(Segments)
    BY <1>2 DEF Wirings, NoneOr
  <2>2. SetUser(w, Side[_handlers[h]], w.device[h], None) \in Wirings
    BY <1>1, <2>1, SetUserType
  <2> QED
    BY <1>2, <2>2 DEF DisconnectDevice, Wirings, NoneOr
<1>3. CASE w.device[h] = None
  BY <1>3 DEF DisconnectDevice
<1> QED
  BY <1>2, <1>3

-----------------------------------------------------------------------------
(* Counting.                                                               *)

\* From B to A, by one element that may have been in and may be in now.
CountMoves(B, A, was, is) ==
    /\ Cardinality(B) \in Nat /\ Cardinality(A) \in Nat
    /\ was = is => Cardinality(A) = Cardinality(B)
    /\ is /\ ~was => Cardinality(A) = Cardinality(B) + 1
    /\ was /\ ~is => Cardinality(A) = Cardinality(B) - 1 /\ Cardinality(B) > 0

\* How the number of places that hold m changes when one of them is set.
LEMMA PlaceSet ==
    ASSUME NEW S, IsFiniteSet(S), NEW T, NEW f \in [S -> T], NEW x \in S, NEW v, NEW m
    PROVE  CountMoves(Places(S, f, m), Places(S, [f EXCEPT ![x] = v], m), f[x] = m, v = m)
<1> DEFINE B == Places(S, f, m)
           A == Places(S, [f EXCEPT ![x] = v], m)
<1> USE DEF Places
<1>1. IsFiniteSet(B) /\ IsFiniteSet(A)
  BY FS_Subset
<1>2. Cardinality(B) \in Nat /\ Cardinality(A) \in Nat
  BY <1>1, FS_CardinalityType
<1>3. /\ f[x] = m /\ v = m => A = B
      /\ f[x] # m /\ v # m => A = B
      /\ f[x] # m /\ v = m => A = B \cup {x} /\ x \notin B
      /\ f[x] = m /\ v # m => A = B \ {x} /\ x \in B /\ B # {}
  OBVIOUS
<1> HIDE DEF A, B, Places
<1>4. ASSUME f[x] # m, v = m PROVE Cardinality(A) = Cardinality(B) + 1
  BY <1>1, <1>3, <1>4, FS_AddElement
<1>5. ASSUME f[x] = m, v # m PROVE Cardinality(A) = Cardinality(B) - 1 /\ Cardinality(B) > 0
  <2>1. Cardinality(A) = Cardinality(B) - 1
    BY <1>1, <1>3, <1>5, FS_RemoveElement
  <2>2. Cardinality(B) # 0
    BY <1>1, <1>3, <1>5, FS_EmptySet
  <2> QED
    BY <1>2, <2>1, <2>2
<1> QED
  BY <1>2, <1>3, <1>4, <1>5 DEF A, B, CountMoves

LEMMA Finite ==
    /\ IsFiniteSet(Devices) /\ IsFiniteSet(Segments)
    /\ \A m : Cardinality(DevicesOf(m)) \in Nat /\ Cardinality(SegmentsOf(m)) \in Nat
<1>1. IsFiniteSet(Devices) /\ IsFiniteSet(Segments)
  BY ServerAssumption DEF ServerAssumption
<1>2. ASSUME NEW m PROVE Cardinality(DevicesOf(m)) \in Nat /\ Cardinality(SegmentsOf(m)) \in Nat
  BY <1>1, FS_Subset, FS_CardinalityType DEF DevicesOf, SegmentsOf, Places
<1> QED
  BY <1>1, <1>2

\* A module of which there is an object is counted at least once.
LEMMA ObjectCounts ==
    ASSUME TypeOK, Counted, NEW m \in Modules,
           m \in {_devices[d] : d \in Devices} \cup {_handlers[h] : h \in Segments}
    PROVE  refs[m] > 0
<1>1. DevicesOf(m) # {} \/ SegmentsOf(m) # {}
  BY DEF DevicesOf, SegmentsOf, Places
<1>2. IsFiniteSet(DevicesOf(m)) /\ IsFiniteSet(SegmentsOf(m))
  BY Finite, FS_Subset DEF DevicesOf, SegmentsOf, Places
<1>3. Cardinality(DevicesOf(m)) # 0 \/ Cardinality(SegmentsOf(m)) # 0
  BY <1>1, <1>2, FS_EmptySet
<1> QED
  BY <1>3, Finite DEF Counted

-----------------------------------------------------------------------------
(* What each operation on objects does to the counts, and which objects    *)
(* there are afterwards.                                                   *)

ObjectTypes == /\ refs \in [Modules -> Nat] /\ _devices \in [Devices -> NoneOr(DevModules)]
               /\ _handlers \in [Segments -> NoneOr(SegModules)]
HasObject(m) == m \in {_devices[d] : d \in Devices} \cup {_handlers[h] : h \in Segments}

LEMMA CreateDeviceKeeps ==
    ASSUME TypeOK, Counted, NEW d \in Devices, NEW m \in DevModules, CreateDevice(d, m)
    PROVE  /\ ObjectTypes' /\ Counted' /\ cfg' \in Settings
           /\ \A n \in Modules : HasObject(n)' => HasObject(n) \/ n = m
<1>1. cfg' \in Settings
  BY DEF CreateDevice, TypeOK, Settings, NoneOr
<1>2. m \in Modules /\ m # None
  BY ServerAssumption DEF Modules, ServerAssumption
<1>3. CASE _devices[d] # None
  <2>1. UNCHANGED <<_devices, refs, _handlers>>
    BY <1>3 DEF CreateDevice
  <2> QED
    BY <1>1, <2>1 DEF TypeOK, ObjectTypes, Counted, DevicesOf, SegmentsOf, HasObject
<1>4. CASE _devices[d] = None
  <2>1. /\ _devices' = [_devices EXCEPT ![d] = m] /\ refs' = [refs EXCEPT ![m] = refs[m] + 1]
        /\ UNCHANGED _handlers
    BY <1>4 DEF CreateDevice
  <2>2. ObjectTypes'
    BY <1>2, <2>1 DEF TypeOK, ObjectTypes, NoneOr
  <2>3. ASSUME NEW n \in Modules
        PROVE  refs'[n] = Cardinality(DevicesOf(n)') + Cardinality(SegmentsOf(n)')
    <3>1. SegmentsOf(n)' = SegmentsOf(n)
      BY <2>1 DEF SegmentsOf
    <3>2. /\ n = m => Cardinality(DevicesOf(n)') = Cardinality(DevicesOf(n)) + 1
          /\ n # m => Cardinality(DevicesOf(n)') = Cardinality(DevicesOf(n))
      <4>1. _devices \in [Devices -> NoneOr(DevModules)] /\ n # None
        BY ServerAssumption DEF TypeOK, ServerAssumption
      <4>2. CountMoves(Places(Devices, _devices, n), Places(Devices, [_devices EXCEPT ![d] = m], n),
                       _devices[d] = n, m = n)
        BY <4>1, Finite, PlaceSet
      <4> QED
        BY <1>4, <2>1, <4>1, <4>2 DEF DevicesOf, CountMoves
    <3>3. refs[n] = Cardinality(DevicesOf(n)) + Cardinality(SegmentsOf(n)) /\ refs[n] \in Nat
      BY DEF Counted, TypeOK
    <3>4. refs'[n] = IF n = m THEN refs[n] + 1 ELSE refs[n]
      BY <2>1 DEF TypeOK
    <3> QED
      BY <3>1, <3>2, <3>3, <3>4, Finite
  <2>4. \A n \in Modules : HasObject(n)' => HasObject(n) \/ n = m
    BY <2>1 DEF HasObject, TypeOK
  <2> QED
    BY <1>1, <2>2, <2>3, <2>4 DEF Counted
<1> QED
  BY <1>3, <1>4

LEMMA DeleteDeviceKeeps ==
    ASSUME TypeOK, Counted, NEW d \in Devices, _devices[d] # None, DeleteDevice(d)
    PROVE  /\ ObjectTypes' /\ Counted'
           /\ \A n \in Modules : HasObject(n)' => HasObject(n)
           /\ user' \in [Sides -> [Devices -> NoneOr(Segments)]]
           /\ device' \in [Segments -> NoneOr(Devices)]
<1> DEFINE m == _devices[d]
<1>1. m \in DevModules /\ m \in Modules /\ None \notin Modules
  BY ServerAssumption DEF TypeOK, Modules, NoneOr, ServerAssumption
<1>2. /\ _devices' = [_devices EXCEPT ![d] = None] /\ refs' = [refs EXCEPT ![m] = refs[m] - 1]
      /\ UNCHANGED _handlers
  BY DEF DeleteDevice
<1>3. user' \in [Sides -> [Devices -> NoneOr(Segments)]] /\ device' \in [Segments -> NoneOr(Devices)]
  <2>1. \A i \in Sides : [user[i] EXCEPT ![d] = None] \in [Devices -> NoneOr(Segments)]
    BY DEF TypeOK, NoneOr
  <2>2. user' \in [Sides -> [Devices -> NoneOr(Segments)]]
    BY <2>1 DEF DeleteDevice
  <2>3. device' \in [Segments -> NoneOr(Devices)]
    BY DEF DeleteDevice, TypeOK, NoneOr
  <2> QED
    BY <2>2, <2>3
<1> HIDE DEF m
<1>4. ASSUME NEW n \in Modules
      PROVE  /\ refs'[n] = Cardinality(DevicesOf(n)') + Cardinality(SegmentsOf(n)')
             /\ refs'[n] \in Nat
  <2>1. SegmentsOf(n)' = SegmentsOf(n)
    BY <1>2 DEF SegmentsOf
  <2>2. /\ Cardinality(DevicesOf(n)') \in Nat
        /\ n = m => Cardinality(DevicesOf(n)') = Cardinality(DevicesOf(n)) - 1
                    /\ Cardinality(DevicesOf(n)) > 0
        /\ n # m => Cardinality(DevicesOf(n)') = Cardinality(DevicesOf(n))
    <3>1. _devices \in [Devices -> NoneOr(DevModules)] /\ n # None /\ _devices[d] = m
      BY <1>1 DEF TypeOK, m
    <3>2. CountMoves(Places(Devices, _devices, n), Places(Devices, [_devices EXCEPT ![d] = None], n),
                     _devices[d] = n, None = n)
      BY <3>1, Finite, PlaceSet
    <3> QED
      BY <1>2, <3>1, <3>2 DEF DevicesOf, CountMoves
  <2>3. refs[n] = Cardinality(DevicesOf(n)) + Cardinality(SegmentsOf(n)) /\ refs[n] \in Nat
    BY DEF Counted, TypeOK
  <2>4. refs'[n] = IF n = m THEN refs[n] - 1 ELSE refs[n]
    BY <1>2 DEF TypeOK
  <2> QED
    BY <2>1, <2>2, <2>3, <2>4, Finite
<1>5. ObjectTypes'
  <2>1. refs' \in [Modules -> Nat]
    <3>1. refs' = [n \in Modules |-> refs'[n]]
      BY <1>2 DEF TypeOK
    <3> QED
      BY <1>4, <3>1
  <2> QED
    BY <1>2, <2>1 DEF ObjectTypes, TypeOK, NoneOr
<1>6. \A n \in Modules : HasObject(n)' => HasObject(n)
  BY <1>1, <1>2 DEF HasObject, TypeOK
<1> QED
  BY <1>3, <1>4, <1>5, <1>6 DEF Counted

LEMMA CreateSegmentKeeps ==
    ASSUME TypeOK, Counted, NEW h \in Segments, _handlers[h] = None, NEW m \in SegModules,
           CreateSegment(h, m)
    PROVE  /\ ObjectTypes' /\ Counted' /\ cfg' \in Settings
           /\ user' \in [Sides -> [Devices -> NoneOr(Segments)]]
           /\ device' \in [Segments -> NoneOr(Devices)]
           /\ \A n \in Modules : HasObject(n)' => HasObject(n) \/ n = m
<1>1. m \in Modules /\ None \notin Modules /\ Side[m] \in Sides
  BY ServerAssumption DEF Modules, ServerAssumption, Sides
<1>2. /\ _handlers' = [_handlers EXCEPT ![h] = m] /\ refs' = [refs EXCEPT ![m] = refs[m] + 1]
      /\ UNCHANGED _devices
  BY DEF CreateSegment
<1>3. PICK w \in Wirings : /\ user' = w.user /\ device' = w.device
                           /\ cfg' = [cfg EXCEPT !.dllName[h] = m, !.deviceName = w.deviceName]
  <2> DEFINE d == cfg.deviceName[h]
             w == IF d = None \/ NoSuchDevice(h) THEN Wiring ELSE ConnectDevice(Wiring, Side[m], h, d)
  <2>1. w \in Wirings
    <3>1. d \in NoneOr(Devices)
      BY DEF TypeOK, Settings
    <3>2. CASE d # None
      <4>1. d \in Devices /\ Wiring \in Wirings
        BY <3>1, <3>2, WiringType DEF NoneOr
      <4>2. ConnectDevice(Wiring, Side[m], h, d) \in Wirings
        BY <1>1, <4>1, ConnectType
      <4> QED
        BY <4>1, <4>2
    <3>3. CASE d = None
      BY <3>3, WiringType
    <3> QED
      BY <3>2, <3>3
  <2>2. /\ user' = w.user /\ device' = w.device
        /\ cfg' = [cfg EXCEPT !.dllName[h] = m, !.deviceName = w.deviceName]
    BY DEF CreateSegment
  <2> HIDE DEF w
  <2> QED
    BY <2>1, <2>2
<1>4. /\ cfg' \in Settings /\ user' \in [Sides -> [Devices -> NoneOr(Segments)]]
      /\ device' \in [Segments -> NoneOr(Devices)]
  <2>1. w.deviceName \in [Segments -> NoneOr(Devices)]
    BY DEF Wirings
  <2>2. cfg' \in Settings
    BY <1>3, <2>1 DEF TypeOK, Settings, NoneOr
  <2> QED
    BY <1>3, <2>2 DEF Wirings
<1>5. ObjectTypes'
  BY <1>1, <1>2 DEF TypeOK, ObjectTypes, NoneOr
<1>6. ASSUME NEW n \in Modules
      PROVE  refs'[n] = Cardinality(DevicesOf(n)') + Cardinality(SegmentsOf(n)')
  <2>1. DevicesOf(n)' = DevicesOf(n)
    BY <1>2 DEF DevicesOf
  <2>2. /\ n = m => Cardinality(SegmentsOf(n)') = Cardinality(SegmentsOf(n)) + 1
        /\ n # m => Cardinality(SegmentsOf(n)') = Cardinality(SegmentsOf(n))
    <3>1. _handlers \in [Segments -> NoneOr(SegModules)] /\ n # None
      BY <1>1 DEF TypeOK
    <3>2. CountMoves(Places(Segments, _handlers, n), Places(Segments, [_handlers EXCEPT ![h] = m], n),
                     _handlers[h] = n, m = n)
      BY <3>1, Finite, PlaceSet
    <3> QED
      BY <1>2, <3>1, <3>2 DEF SegmentsOf, CountMoves
  <2>3. refs[n] = Cardinality(DevicesOf(n)) + Cardinality(SegmentsOf(n)) /\ refs[n] \in Nat
    BY DEF Counted, TypeOK
  <2>4. refs'[n] = IF n = m THEN refs[n] + 1 ELSE refs[n]
    BY <1>2 DEF TypeOK
  <2> QED
    BY <2>1, <2>2, <2>3, <2>4, Finite
<1>7. \A n \in Modules : HasObject(n)' => HasObject(n) \/ n = m
  BY <1>2 DEF HasObject, TypeOK
<1> QED
  BY <1>4, <1>5, <1>6, <1>7 DEF Counted

LEMMA DeleteSegmentKeeps ==
    ASSUME TypeOK, Counted, NEW h \in Segments, _handlers[h] # None, DeleteSegment(h)
    PROVE  ObjectTypes' /\ Counted' /\ \A n \in Modules : HasObject(n)' => HasObject(n)
<1> DEFINE m == _handlers[h]
<1>1. m \in SegModules /\ m \in Modules /\ None \notin Modules
  BY ServerAssumption DEF TypeOK, Modules, NoneOr, ServerAssumption
<1>2. /\ _handlers' = [_handlers EXCEPT ![h] = None] /\ refs' = [refs EXCEPT ![m] = refs[m] - 1]
      /\ UNCHANGED _devices
  BY DEF DeleteSegment
<1> HIDE DEF m
<1>3. ASSUME NEW n \in Modules
      PROVE  /\ refs'[n] = Cardinality(DevicesOf(n)') + Cardinality(SegmentsOf(n)')
             /\ refs'[n] \in Nat
  <2>1. DevicesOf(n)' = DevicesOf(n)
    BY <1>2 DEF DevicesOf
  <2>2. /\ Cardinality(SegmentsOf(n)') \in Nat
        /\ n = m => Cardinality(SegmentsOf(n)') = Cardinality(SegmentsOf(n)) - 1
                    /\ Cardinality(SegmentsOf(n)) > 0
        /\ n # m => Cardinality(SegmentsOf(n)') = Cardinality(SegmentsOf(n))
    <3>1. _handlers \in [Segments -> NoneOr(SegModules)] /\ n # None /\ _handlers[h] = m
      BY <1>1 DEF TypeOK, m
    <3>2. CountMoves(Places(Segments, _handlers, n), Places(Segments, [_handlers EXCEPT ![h] = None], n),
                     _handlers[h] = n, None = n)
      BY <3>1, Finite, PlaceSet
    <3> QED
      BY <1>2, <3>1, <3>2 DEF SegmentsOf, CountMoves
  <2>3. refs[n] = Cardinality(DevicesOf(n)) + Cardinality(SegmentsOf(n)) /\ refs[n] \in Nat
    BY DEF Counted, TypeOK
  <2>4. refs'[n] = IF n = m THEN refs[n] - 1 ELSE refs[n]
    BY <1>2 DEF TypeOK
  <2> QED
    BY <2>1, <2>2, <2>3, <2>4, Finite
<1>4. ObjectTypes'
  <2>1. refs' \in [Modules -> Nat]
    <3>1. refs' = [n \in Modules |-> refs'[n]]
      BY <1>2 DEF TypeOK
    <3> QED
      BY <1>3, <3>1
  <2> QED
    BY <1>2, <2>1 DEF ObjectTypes, TypeOK, NoneOr
<1>5. \A n \in Modules : HasObject(n)' => HasObject(n)
  BY <1>1, <1>2 DEF HasObject, TypeOK
<1> QED
  BY <1>3, <1>4, <1>5 DEF Counted

LEMMA DeleteChannelKeeps ==
    ASSUME TypeOK, Counted, DeleteChannel
    PROVE  /\ ObjectTypes' /\ Counted' /\ \A n \in Modules : HasObject(n)' => HasObject(n)
           /\ channel' \in BOOLEAN /\ user' \in [Sides -> [Devices -> NoneOr(Segments)]]
           /\ device' \in [Segments -> NoneOr(Devices)]
<1>1. /\ _handlers' = Empty(Segments) /\ UNCHANGED _devices
      /\ refs' = [m \in Modules |-> refs[m] - Cardinality(SegmentsOf(m))]
  BY DEF DeleteChannel, SegmentsOf, Places
<1>2. ASSUME NEW n \in Modules
      PROVE  /\ refs'[n] = Cardinality(DevicesOf(n)') + Cardinality(SegmentsOf(n)')
             /\ refs'[n] \in Nat
  <2>1. DevicesOf(n)' = DevicesOf(n)
    BY <1>1 DEF DevicesOf
  <2>2. SegmentsOf(n)' = {} /\ Cardinality({}) = 0
    BY <1>1, ServerAssumption, FS_EmptySet DEF SegmentsOf, Places, Empty, ServerAssumption
  <2>3. refs[n] = Cardinality(DevicesOf(n)) + Cardinality(SegmentsOf(n)) /\ refs[n] \in Nat
    BY DEF Counted, TypeOK
  <2> QED
    BY <1>1, <2>1, <2>2, <2>3, Finite
<1>3. ObjectTypes'
  <2>1. refs' \in [Modules -> Nat]
    <3>1. refs' = [n \in Modules |-> refs'[n]]
      BY <1>1
    <3> QED
      BY <1>2, <3>1
  <2> QED
    BY <1>1, <2>1 DEF ObjectTypes, TypeOK, NoneOr, Empty
<1>4. \A n \in Modules : HasObject(n)' => HasObject(n)
  BY <1>1, ServerAssumption DEF HasObject, TypeOK, Empty, ServerAssumption
<1>5. /\ channel' \in BOOLEAN /\ user' \in [Sides -> [Devices -> NoneOr(Segments)]]
      /\ device' \in [Segments -> NoneOr(Devices)]
  BY DEF DeleteChannel, Empty, NoneOr
<1> QED
  BY <1>2, <1>3, <1>4, <1>5 DEF Counted

-----------------------------------------------------------------------------
(* The register.                                                           *)

RegisterTypes == /\ _dllRegister \subseteq Modules /\ rpcRegistry \subseteq Modules
                 /\ rdeps \in [DevModules -> SUBSET SegModules]

LEMMA LoadKeeps ==
    ASSUME TypeOK, MethodsHaveCode, Recorded, NEW m \in Modules, Load(m), mishaps \subseteq mishaps'
    PROVE  RegisterTypes' /\ MethodsHaveCode' /\ Recorded' /\ _dllRegister \subseteq _dllRegister'
<1>1. DepsOf(m) \subseteq DevModules /\ DevModules \cap SegModules = {} /\ NewlyLoaded(m) \subseteq Modules
      /\ \A n \in Modules : DepsOf(n) # {} => n \in SegModules
  BY DepsType, ServerAssumption DEF NewlyLoaded, Modules, DepsOf, ServerAssumption
<1>2. RegisterTypes'
  BY <1>1 DEF Load, RegisterTypes, TypeOK
<1>3. MethodsHaveCode'
  BY DEF Load, MethodsHaveCode
<1>4. Recorded'
  <2> SUFFICES ASSUME "refreshed" \notin mishaps', NEW n \in _dllRegister', NEW d \in DevModules, d \in DepsOf(n)
               PROVE  d \in _dllRegister' /\ n \in rdeps'[d]
    BY DEF Recorded
  <2>1. CASE n \in _dllRegister
    <3>1. d \in _dllRegister /\ n \in rdeps[d]
      BY <2>1 DEF Recorded
    <3> QED
      BY <3>1 DEF Load
  <2>2. CASE n \notin _dllRegister
    <3>1. n \in NewlyLoaded(m)
      BY <2>2 DEF Load
    <3>2. n = m
      BY <1>1, <3>1 DEF NewlyLoaded, DepsOf
    <3>3. d \notin Broken /\ m \notin _dllRegister /\ d \in NewlyLoaded(m) \cup _dllRegister
      BY <3>1, <3>2 DEF NewlyLoaded
    <3> QED
      BY <3>2, <3>3 DEF Load
  <2> QED
    BY <2>1, <2>2
<1> QED
  BY <1>2, <1>3, <1>4 DEF Load

LEMMA UnloadKeeps ==
    ASSUME TypeOK, MethodsHaveCode, Recorded, NEW m \in Modules, Unload(m), mishaps \subseteq mishaps'
    PROVE  /\ RegisterTypes' /\ MethodsHaveCode' /\ Recorded' /\ UNCHANGED rdeps
           /\ _dllRegister' \subseteq _dllRegister
           /\ \A n \in _dllRegister \ _dllRegister' : refs[n] = 0
<1> DEFINE dependents == IF m \in DevModules THEN rdeps[m] ELSE {}
<1>0. /\ m \in _dllRegister /\ refs[m] = 0 /\ UNCHANGED rdeps /\ dependents \subseteq SegModules
      /\ \A n \in _dllRegister : refs[n] \in Nat
      /\ DevModules \cap SegModules = {} /\ _dllRegister \subseteq Modules
  BY ServerAssumption DEF Unload, TypeOK, ServerAssumption
<1>1. CASE Refuses(m) = {}
  <2>1. _dllRegister' = _dllRegister \ ({m} \cup dependents) /\ rpcRegistry' = _dllRegister'
    BY <1>1 DEF Unload
  <2>2. \A n \in _dllRegister \ _dllRegister' : refs[n] = 0
    BY <1>0, <1>1, <2>1 DEF Refuses
  <2>3. ASSUME "refreshed" \notin mishaps', NEW n \in _dllRegister', NEW d \in DevModules, d \in DepsOf(n)
        PROVE  d \in _dllRegister' /\ n \in rdeps'[d]
    <3>1. d \in _dllRegister /\ n \in rdeps[d]
      BY <2>1, <2>3 DEF Recorded
    <3> QED
      BY <1>0, <2>1, <3>1
  <2> QED
    BY <1>0, <2>1, <2>2, <2>3 DEF RegisterTypes, TypeOK, MethodsHaveCode, Recorded
<1>2. CASE Refuses(m) # {}
  <2>1. PICK before \in SUBSET (dependents \ Refuses(m)) :
           /\ _dllRegister' = _dllRegister \ before
           /\ rpcRegistry' = IF before \cap _dllRegister = {} THEN rpcRegistry ELSE _dllRegister'
    BY <1>2 DEF Unload
  <2>2. \A n \in _dllRegister \ _dllRegister' : refs[n] = 0
    BY <1>0, <2>1 DEF Refuses
  <2>3. ASSUME "refreshed" \notin mishaps', NEW n \in _dllRegister', NEW d \in DevModules, d \in DepsOf(n)
        PROVE  d \in _dllRegister' /\ n \in rdeps'[d]
    <3>1. d \in _dllRegister /\ n \in rdeps[d]
      BY <2>1, <2>3 DEF Recorded
    <3> QED
      BY <1>0, <2>1, <3>1
  <2>4. rpcRegistry' = _dllRegister'
    BY <2>1 DEF MethodsHaveCode
  <2> QED
    BY <1>0, <2>1, <2>2, <2>3, <2>4 DEF RegisterTypes, TypeOK, MethodsHaveCode, Recorded
<1> QED
  BY <1>1, <1>2

-----------------------------------------------------------------------------
(* Steps.                                                                  *)

WiringTypes == /\ user \in [Sides -> [Devices -> NoneOr(Segments)]]
               /\ device \in [Segments -> NoneOr(Devices)] /\ cfg \in Settings
ProgressTypes == /\ channel \in BOOLEAN /\ pc \in Stages
                 /\ todo \subseteq IF pc = "addSegments" THEN Segments ELSE Devices
                 /\ paused \in BOOLEAN /\ exit_requested \in BOOLEAN
                 /\ calls \in 0..MaxCalls /\ switches \in 0..MaxSwitches
                 /\ mishaps \subseteq {"lateCall", "noModule", "noDevice", "refreshed"}

LEMMA TypeParts == /\ TypeOK <=> RegisterTypes /\ ObjectTypes /\ WiringTypes /\ ProgressTypes
                   /\ TypeOK' <=> RegisterTypes' /\ ObjectTypes' /\ WiringTypes' /\ ProgressTypes'
BY DEF TypeOK, RegisterTypes, ObjectTypes, WiringTypes, ProgressTypes

LEMMA CodeParts == /\ CodeInv <=> /\ TypeOK /\ MethodsHaveCode /\ Counted /\ Recorded
                                  /\ \A n \in Modules : HasObject(n) => n \in _dllRegister
                   /\ CodeInv' <=> /\ TypeOK' /\ MethodsHaveCode' /\ Counted' /\ Recorded'
                                   /\ \A n \in Modules : HasObject(n)' => n \in _dllRegister'
BY DEF CodeInv, ObjectsHaveCode, HasObject

\* The register stays, and objects of loaded modules come and go.
LEMMA RegisterStays ==
    ASSUME CodeInv, UNCHANGED registry, mishaps \subseteq mishaps',
           ObjectTypes', WiringTypes', ProgressTypes', Counted',
           \A n \in Modules : HasObject(n)' => HasObject(n) \/ n \in _dllRegister
    PROVE  CodeInv'
<1>1. RegisterTypes' /\ MethodsHaveCode'
  BY TypeParts DEF CodeInv, RegisterTypes, MethodsHaveCode, registry
<1>2. Recorded'
  BY DEF CodeInv, Recorded, registry
<1>3. TypeOK'
  BY <1>1, TypeParts
<1>4. \A n \in Modules : HasObject(n)' => n \in _dllRegister'
  BY CodeParts DEF registry
<1> QED
  BY <1>1, <1>2, <1>3, <1>4, CodeParts

\* Objects stay as they are.
LEMMA ObjectsStay ==
    ASSUME CodeInv, UNCHANGED <<_devices, _handlers, refs>>
    PROVE  ObjectTypes' /\ Counted' /\ \A n \in Modules : HasObject(n)' => HasObject(n) /\ refs[n] > 0
<1>1. \A n \in Modules : HasObject(n) => refs[n] > 0
  BY ObjectCounts DEF CodeInv, HasObject
<1> QED
  BY <1>1, TypeParts DEF CodeInv, ObjectTypes, Counted, DevicesOf, SegmentsOf, HasObject

LEMMA NotedType ==
    ASSUME CodeInv, NEW what \in {"lateCall", "noModule", "noDevice", "refreshed"}, Noted(what)
    PROVE  mishaps \subseteq mishaps' /\ mishaps' \subseteq {"lateCall", "noModule", "noDevice", "refreshed"}
BY DEF CodeInv, TypeOK, Noted

LEMMA CallTypes ==
    ASSUME CodeInv, Call, channel' \in BOOLEAN,
           mishaps' \subseteq {"lateCall", "noModule", "noDevice", "refreshed"}
    PROVE  ProgressTypes'
<1>1. calls' \in 0..MaxCalls
  BY ServerAssumption DEF CodeInv, TypeOK, Call, ServerAssumption
<1> QED
  BY <1>1, TypeParts DEF CodeInv, ProgressTypes, Call, progress

LEMMA RegistryCalls ==
    ASSUME CodeInv, RefreshAvailable \/ \E m \in Modules : LoadModule(m) \/ UnloadModule(m)
    PROVE  CodeInv'
<1>1. UNCHANGED <<objects, use, cfg>> /\ Call
  BY DEF LoadModule, UnloadModule, RefreshAvailable
<1>2. mishaps \subseteq mishaps' /\ mishaps' \subseteq {"lateCall", "noModule", "noDevice", "refreshed"}
  BY NotedType DEF LoadModule, UnloadModule, RefreshAvailable, CodeInv, TypeOK
<1>3. ObjectTypes' /\ Counted' /\ \A n \in Modules : HasObject(n)' => HasObject(n) /\ refs[n] > 0
  BY <1>1, ObjectsStay DEF objects
<1>4. WiringTypes' /\ ProgressTypes'
  <2>1. channel' \in BOOLEAN
    BY <1>1 DEF objects, CodeInv, TypeOK
  <2> QED
    BY <1>1, <1>2, <2>1, CallTypes DEF CodeInv, TypeOK, WiringTypes, use
<1>5. /\ RegisterTypes' /\ MethodsHaveCode' /\ Recorded'
      /\ \A n \in _dllRegister \ _dllRegister' : refs[n] = 0
  <2>1. ASSUME NEW m \in Modules, LoadModule(m)
        PROVE  RegisterTypes' /\ MethodsHaveCode' /\ Recorded' /\ _dllRegister \subseteq _dllRegister'
    BY <1>2, <2>1, LoadKeeps DEF LoadModule, CodeInv
  <2>2. ASSUME NEW m \in Modules, UnloadModule(m)
        PROVE  /\ RegisterTypes' /\ MethodsHaveCode' /\ Recorded'
               /\ \A n \in _dllRegister \ _dllRegister' : refs[n] = 0
    BY <1>2, <2>2, UnloadKeeps DEF UnloadModule, CodeInv
  <2>3. CASE RefreshAvailable
    BY <2>3 DEF RefreshAvailable, CodeInv, TypeOK, RegisterTypes, MethodsHaveCode, Recorded
  <2> QED
    BY <2>1, <2>2, <2>3
<1>6. \A n \in Modules : HasObject(n)' => n \in _dllRegister'
  BY <1>3, <1>5, CodeParts
<1> QED
  BY <1>3, <1>4, <1>5, <1>6, TypeParts, CodeParts

LEMMA DeviceCalls ==
    ASSUME CodeInv, NEW d \in Devices, RemoveDevice(d) \/ \E m \in DevModules : AddDevice(d, m)
    PROVE  CodeInv'
<1>1. /\ mishaps \subseteq mishaps' /\ mishaps' \subseteq {"lateCall", "noModule", "noDevice", "refreshed"}
      /\ UNCHANGED registry /\ Call
  BY NotedType DEF AddDevice, RemoveDevice
<1>2. TypeOK /\ Counted /\ DevModules \subseteq Modules /\ None \notin rpcRegistry
  BY ServerAssumption DEF CodeInv, TypeOK, Modules, ServerAssumption
<1>3. ASSUME NEW m \in DevModules, AddDevice(d, m) PROVE CodeInv'
  <2>1. CreateDevice(d, m) /\ m \in rpcRegistry
    BY <1>3 DEF AddDevice
  <2>2. UNCHANGED <<use, channel>>
    BY <2>1 DEF CreateDevice
  <2>3. ProgressTypes'
    BY <1>1, <1>2, <2>2, CallTypes DEF TypeOK
  <2>4. /\ ObjectTypes' /\ Counted' /\ cfg' \in Settings
        /\ \A n \in Modules : HasObject(n)' => HasObject(n) \/ n = m
    BY <1>2, <2>1, CreateDeviceKeeps
  <2>5. WiringTypes'
    BY <1>2, <2>2, <2>4 DEF TypeOK, WiringTypes, use
  <2>6. m \in _dllRegister
    BY <2>1 DEF CodeInv, MethodsHaveCode
  <2> QED
    BY <1>1, <2>3, <2>4, <2>5, <2>6, RegisterStays
<1>4. CASE RemoveDevice(d)
  <2>1. DeleteDevice(d) /\ _devices[d] # None /\ cfg' = [cfg EXCEPT !.devType[d] = None]
    BY <1>2, <1>4 DEF RemoveDevice
  <2>2. UNCHANGED channel
    BY <2>1 DEF DeleteDevice
  <2>3. ProgressTypes'
    BY <1>1, <1>2, <2>2, CallTypes DEF TypeOK
  <2>4. /\ ObjectTypes' /\ Counted' /\ \A n \in Modules : HasObject(n)' => HasObject(n)
        /\ user' \in [Sides -> [Devices -> NoneOr(Segments)]]
        /\ device' \in [Segments -> NoneOr(Devices)]
    BY <1>2, <2>1, DeleteDeviceKeeps
  <2>5. cfg' \in Settings
    BY <1>2, <2>1 DEF TypeOK, Settings, NoneOr
  <2> QED
    BY <1>1, <2>3, <2>4, <2>5, RegisterStays DEF WiringTypes
<1> QED
  BY <1>3, <1>4

LEMMA ChannelCalls ==
    ASSUME CodeInv, AddChannel \/ RemoveChannel
    PROVE  CodeInv'
<1>1. /\ mishaps \subseteq mishaps' /\ mishaps' \subseteq {"lateCall", "noModule", "noDevice", "refreshed"}
      /\ UNCHANGED registry /\ Call
  BY NotedType DEF AddChannel, RemoveChannel
<1>2. TypeOK /\ Counted
  BY DEF CodeInv
<1>3. CASE AddChannel
  <2>1. channel' \in BOOLEAN /\ UNCHANGED <<_devices, _handlers, refs, use, cfg>>
    BY <1>3 DEF AddChannel
  <2>2. ProgressTypes'
    BY <1>1, <2>1, CallTypes
  <2>3. ObjectTypes' /\ Counted' /\ \A n \in Modules : HasObject(n)' => HasObject(n)
    BY <2>1, ObjectsStay
  <2>4. WiringTypes'
    BY <1>2, <2>1 DEF TypeOK, WiringTypes, use
  <2> QED
    BY <1>1, <2>2, <2>3, <2>4, RegisterStays
<1>4. CASE RemoveChannel
  <2>1. DeleteChannel /\ cfg' = [cfg EXCEPT !.dllName = Empty(Segments), !.deviceName = Empty(Segments)]
    BY <1>4 DEF RemoveChannel
  <2>2. /\ ObjectTypes' /\ Counted' /\ \A n \in Modules : HasObject(n)' => HasObject(n)
        /\ channel' \in BOOLEAN /\ user' \in [Sides -> [Devices -> NoneOr(Segments)]]
        /\ device' \in [Segments -> NoneOr(Devices)]
    BY <1>2, <2>1, DeleteChannelKeeps
  <2>3. cfg' \in Settings
    BY <1>2, <2>1 DEF TypeOK, Settings, NoneOr, Empty
  <2>4. ProgressTypes'
    BY <1>1, <2>2, CallTypes
  <2> QED
    BY <1>1, <2>2, <2>3, <2>4, RegisterStays DEF WiringTypes
<1> QED
  BY <1>3, <1>4

LEMMA SegmentCalls ==
    ASSUME CodeInv, NEW h \in Segments, RemoveSegment(h) \/ \E m \in SegModules : AddSegment(h, m)
    PROVE  CodeInv'
<1>1. /\ mishaps \subseteq mishaps' /\ mishaps' \subseteq {"lateCall", "noModule", "noDevice", "refreshed"}
      /\ UNCHANGED registry /\ Call
  BY NotedType DEF AddSegment, RemoveSegment
<1>2. TypeOK /\ Counted
  BY DEF CodeInv
<1>3. ASSUME NEW m \in SegModules, AddSegment(h, m) PROVE CodeInv'
  <2>1. CreateSegment(h, m) /\ _handlers[h] = None /\ m \in rpcRegistry
    BY <1>3 DEF AddSegment
  <2>2. /\ ObjectTypes' /\ Counted' /\ cfg' \in Settings
        /\ user' \in [Sides -> [Devices -> NoneOr(Segments)]]
        /\ device' \in [Segments -> NoneOr(Devices)]
        /\ \A n \in Modules : HasObject(n)' => HasObject(n) \/ n = m
    BY <1>2, <2>1, CreateSegmentKeeps
  <2>3. channel' \in BOOLEAN
    BY <1>2, <2>1 DEF CreateSegment, TypeOK
  <2>4. ProgressTypes'
    BY <1>1, <2>3, CallTypes
  <2>5. m \in _dllRegister
    BY <2>1 DEF CodeInv, MethodsHaveCode
  <2> QED
    BY <1>1, <2>2, <2>4, <2>5, RegisterStays DEF WiringTypes
<1>4. CASE RemoveSegment(h)
  <2>1. DeleteSegment(h) /\ _handlers[h] # None
    BY <1>4 DEF RemoveSegment
  <2>2. ObjectTypes' /\ Counted' /\ \A n \in Modules : HasObject(n)' => HasObject(n)
    BY <1>2, <2>1, DeleteSegmentKeeps
  <2>3. channel' \in BOOLEAN
    BY <1>2, <2>1 DEF DeleteSegment, TypeOK
  <2>4. ProgressTypes'
    BY <1>1, <2>3, CallTypes
  <2>5. PICK w \in Wirings :
           /\ user' = w.user /\ device' = w.device
           /\ cfg' = [cfg EXCEPT !.dllName[h] = None, !.deviceName = [w.deviceName EXCEPT ![h] = None]]
    <3>1. DisconnectDevice(Wiring, h) \in Wirings
      BY <1>2, <2>1, WiringType, DisconnectType
    <3> QED
      BY <1>4, <3>1 DEF RemoveSegment
  <2>6. WiringTypes'
    <3>1. [w.deviceName EXCEPT ![h] = None] \in [Segments -> NoneOr(Devices)]
      BY DEF Wirings, NoneOr
    <3>2. cfg' \in Settings
      BY <1>2, <2>5, <3>1 DEF TypeOK, Settings, NoneOr
    <3> QED
      BY <2>5, <3>2 DEF WiringTypes, Wirings
  <2> QED
    BY <1>1, <2>2, <2>4, <2>6, RegisterStays
<1> QED
  BY <1>3, <1>4

LEMMA WiringCalls ==
    ASSUME CodeInv, NEW h \in Segments, ClearDevice(h) \/ \E d \in Devices : SetDevice(h, d)
    PROVE  CodeInv'
<1>1. /\ mishaps \subseteq mishaps' /\ mishaps' \subseteq {"lateCall", "noModule", "noDevice", "refreshed"}
      /\ UNCHANGED <<registry, objects>> /\ Call
  BY NotedType DEF SetDevice, ClearDevice
<1>2. TypeOK /\ _handlers[h] # None /\ Side[_handlers[h]] \in Sides
  <2>1. TypeOK /\ _handlers[h] \in rpcRegistry
    BY DEF SetDevice, ClearDevice, CodeInv
  <2>2. _handlers[h] # None
    BY <2>1, ServerAssumption DEF TypeOK, ServerAssumption
  <2>3. _handlers[h] \in SegModules
    BY <2>1, <2>2 DEF TypeOK, NoneOr
  <2> QED
    BY <2>1, <2>2, <2>3, ServerAssumption DEF Sides, ServerAssumption
<1>3. DisconnectDevice(Wiring, h) \in Wirings
  BY <1>2, WiringType, DisconnectType
<1>4. PICK w \in Wirings : Wired(w)
  <2>1. ASSUME NEW d \in Devices, SetDevice(h, d) PROVE \E w \in Wirings : Wired(w)
    <3> DEFINE c == ConnectDevice(DisconnectDevice(Wiring, h), Side[_handlers[h]], h, d)
    <3>1. c \in Wirings
      BY <1>2, <1>3, ConnectType
    <3>2. Wired([c EXCEPT !.deviceName[h] = d])
      BY <2>1 DEF SetDevice
    <3> HIDE DEF c
    <3>3. [c EXCEPT !.deviceName[h] = d] \in Wirings
      BY <3>1 DEF Wirings, NoneOr
    <3> QED
      BY <3>2, <3>3
  <2>2. CASE ClearDevice(h)
    <3> DEFINE c == DisconnectDevice(Wiring, h)
    <3>1. Wired([c EXCEPT !.deviceName[h] = None]) /\ c \in Wirings
      BY <1>3, <2>2 DEF ClearDevice
    <3> HIDE DEF c
    <3>2. [c EXCEPT !.deviceName[h] = None] \in Wirings
      BY <3>1 DEF Wirings, NoneOr
    <3> QED
      BY <3>1, <3>2
  <2> QED
    BY <2>1, <2>2
<1>5. WiringTypes'
  <2>1. /\ user' \in [Sides -> [Devices -> NoneOr(Segments)]]
        /\ device' \in [Segments -> NoneOr(Devices)]
    BY <1>4 DEF Wired, Wirings
  <2>2. w.deviceName \in [Segments -> NoneOr(Devices)]
    BY DEF Wirings
  <2>3. cfg' \in Settings
    BY <1>2, <1>4, <2>2 DEF Wired, TypeOK, Settings
  <2> QED
    BY <2>1, <2>3 DEF WiringTypes
<1>6. ObjectTypes' /\ Counted' /\ \A n \in Modules : HasObject(n)' => HasObject(n)
  BY <1>1, ObjectsStay DEF objects
<1>7. ProgressTypes'
  BY <1>1, <1>2, CallTypes DEF objects, TypeOK
<1> QED
  BY <1>1, <1>5, <1>6, <1>7, RegisterStays

LEMMA CallsKeep == CodeInv /\ Calls => CodeInv'
BY RegistryCalls, DeviceCalls, ChannelCalls, SegmentCalls, WiringCalls DEF Calls

\* The register has taken modules in, and objects only of loaded ones have been added.
LEMMA RegisterGrows ==
    ASSUME CodeInv, NEW m \in Modules, Load(m), mishaps \subseteq mishaps',
           ObjectTypes', WiringTypes', ProgressTypes', Counted',
           \A n \in Modules : HasObject(n)' => HasObject(n) \/ n \in _dllRegister'
    PROVE  CodeInv'
<1>1. RegisterTypes' /\ MethodsHaveCode' /\ Recorded' /\ _dllRegister \subseteq _dllRegister'
  BY LoadKeeps DEF CodeInv
<1>2. \A n \in Modules : HasObject(n)' => n \in _dllRegister'
  BY <1>1, CodeParts
<1> QED
  BY <1>1, <1>2, TypeParts, CodeParts

LEMMA BeginKeeps ==
    ASSUME CodeInv, SwitchToConfigFile \/ HandleSignal \/ UNCHANGED vars
    PROVE  CodeInv'
<1>1. UNCHANGED <<registry, objects, use, cfg, todo, calls, mishaps>>
  BY DEF SwitchToConfigFile, HandleSignal, Begin, vars, progress
<1>0. TypeOK
  BY DEF CodeInv
<1>2. /\ pc' \in Stages /\ paused' \in BOOLEAN /\ exit_requested' \in BOOLEAN /\ switches' \in 0..MaxSwitches
      /\ pc' = "addSegments" <=> pc = "addSegments"
  <2>1. CASE SwitchToConfigFile
    <3>1. switches' \in 0..MaxSwitches
      BY <1>0, <2>1, ServerAssumption DEF SwitchToConfigFile, TypeOK, ServerAssumption
    <3> QED
      BY <1>0, <2>1, <3>1 DEF SwitchToConfigFile, Begin, Stages, TypeOK
  <2>2. CASE HandleSignal
    BY <1>0, <2>2 DEF HandleSignal, Begin, Stages, TypeOK
  <2>3. CASE UNCHANGED vars
    BY <1>0, <2>3 DEF vars, progress, TypeOK
  <2> QED
    BY <2>1, <2>2, <2>3
<1>3. ProgressTypes' /\ WiringTypes'
  BY <1>0, <1>1, <1>2 DEF ProgressTypes, WiringTypes, TypeOK, objects, use
<1>4. ObjectTypes' /\ Counted' /\ \A n \in Modules : HasObject(n)' => HasObject(n)
  BY <1>1, ObjectsStay DEF objects
<1> QED
  BY <1>1, <1>3, <1>4, RegisterStays

LEMMA TakeDownKeeps ==
    ASSUME CodeInv, RemoveChannels \/ RemoveDevices
    PROVE  CodeInv'
<1>1. /\ UNCHANGED <<registry, todo, paused, mishaps, exit_requested, switches, calls>>
      /\ pc' \in Stages /\ pc # "addSegments" /\ pc' # "addSegments"
  BY DEF RemoveChannels, RemoveDevices, Goto, Stages
<1>2. TypeOK /\ Counted
  BY DEF CodeInv
<1>3. ASSUME channel' \in BOOLEAN PROVE ProgressTypes'
  BY <1>1, <1>2, <1>3 DEF ProgressTypes, TypeOK
<1>4. CASE UNCHANGED <<objects, use, cfg>>
  <2>1. ObjectTypes' /\ Counted' /\ \A n \in Modules : HasObject(n)' => HasObject(n)
    BY <1>4, ObjectsStay DEF objects
  <2>2. WiringTypes' /\ channel' \in BOOLEAN
    BY <1>2, <1>4 DEF WiringTypes, TypeOK, use, objects
  <2> QED
    BY <1>1, <1>3, <2>1, <2>2, RegisterStays
<1>5. CASE RemoveChannels /\ channel
  <2>1. DeleteChannel /\ cfg' = [cfg EXCEPT !.deviceName = Undisconnected]
    BY <1>5 DEF RemoveChannels
  <2>2. /\ ObjectTypes' /\ Counted' /\ \A n \in Modules : HasObject(n)' => HasObject(n)
        /\ channel' \in BOOLEAN /\ user' \in [Sides -> [Devices -> NoneOr(Segments)]]
        /\ device' \in [Segments -> NoneOr(Devices)]
    BY <1>2, <2>1, DeleteChannelKeeps
  <2>3. cfg' \in Settings
    BY <1>2, <2>1 DEF TypeOK, Settings, NoneOr, Undisconnected
  <2> QED
    BY <1>1, <1>3, <2>2, <2>3, RegisterStays DEF WiringTypes
<1>6. ASSUME NEW d \in Existing(_devices), DeleteDevice(d), UNCHANGED cfg PROVE CodeInv'
  <2>1. d \in Devices /\ _devices[d] # None
    BY <1>2 DEF Existing, TypeOK
  <2>2. /\ ObjectTypes' /\ Counted' /\ \A n \in Modules : HasObject(n)' => HasObject(n)
        /\ user' \in [Sides -> [Devices -> NoneOr(Segments)]]
        /\ device' \in [Segments -> NoneOr(Devices)]
    BY <1>2, <1>6, <2>1, DeleteDeviceKeeps
  <2>3. channel' \in BOOLEAN /\ cfg' \in Settings
    BY <1>2, <1>6 DEF DeleteDevice, TypeOK
  <2> QED
    BY <1>1, <1>3, <2>2, <2>3, RegisterStays DEF WiringTypes
<1>7. CASE RemoveChannels /\ ~channel
  BY <1>4, <1>7 DEF RemoveChannels
<1>8. CASE RemoveDevices
  <2>1. UNCHANGED cfg
    BY <1>8 DEF RemoveDevices
  <2>2. CASE Existing(_devices) # {}
    BY <1>6, <1>8, <2>1, <2>2 DEF RemoveDevices
  <2>3. CASE Existing(_devices) = {}
    BY <1>4, <1>8, <2>1, <2>3 DEF RemoveDevices
  <2> QED
    BY <2>2, <2>3
<1> QED
  BY <1>5, <1>7, <1>8

LEMMA UnloadAllKeeps ==
    ASSUME CodeInv, UnloadAll
    PROVE  CodeInv'
<1>1. /\ UNCHANGED <<objects, use, cfg, todo, paused, mishaps, exit_requested, switches, calls>>
      /\ pc' \in Stages /\ pc # "addSegments" /\ pc' # "addSegments"
  BY DEF UnloadAll, Goto, Stages
<1>2. TypeOK
  BY DEF CodeInv
<1>3. ObjectTypes' /\ Counted' /\ \A n \in Modules : HasObject(n)' => HasObject(n) /\ refs[n] > 0
  BY <1>1, ObjectsStay DEF objects
<1>4. WiringTypes' /\ ProgressTypes'
  BY <1>1, <1>2 DEF WiringTypes, ProgressTypes, TypeOK, use, objects
<1>5. CASE UNCHANGED registry
  BY <1>1, <1>3, <1>4, <1>5, RegisterStays
<1>6. ASSUME NEW m \in Modules, Unload(m) PROVE CodeInv'
  <2>1. /\ RegisterTypes' /\ MethodsHaveCode' /\ Recorded'
        /\ \A n \in _dllRegister \ _dllRegister' : refs[n] = 0
    BY <1>1, <1>2, <1>6, UnloadKeeps DEF CodeInv
  <2>2. \A n \in Modules : HasObject(n)' => n \in _dllRegister'
    BY <1>3, <2>1, CodeParts
  <2> QED
    BY <1>3, <1>4, <2>1, <2>2, TypeParts, CodeParts
<1>7. CASE _dllRegister # {}
  <2> DEFINE m == CHOOSE x \in _dllRegister : TRUE
  <2>1. m \in _dllRegister /\ m \in Modules
    BY <1>2, <1>7 DEF TypeOK
  <2>2. Unload(m) \/ UNCHANGED registry
    BY <1>7 DEF UnloadAll
  <2> HIDE DEF m
  <2> QED
    BY <1>5, <1>6, <2>1, <2>2
<1>8. CASE _dllRegister = {}
  BY <1>5, <1>8 DEF UnloadAll
<1> QED
  BY <1>7, <1>8

LEMMA ReadKeeps ==
    ASSUME CodeInv, LoadConfig \/ Unpause
    PROVE  CodeInv'
<1>1. /\ UNCHANGED <<registry, objects, use, mishaps, exit_requested, switches, calls>> /\ pc' \in Stages
      /\ paused' \in BOOLEAN
  BY DEF LoadConfig, Unpause, Goto, Stages, CodeInv, TypeOK
<1>2. cfg' \in Settings /\ todo' \subseteq IF pc' = "addSegments" THEN Segments ELSE Devices
  <2>1. CASE LoadConfig
    <3>1. NoSettings \in Settings
      BY DEF NoSettings, Settings, Empty, NoneOr
    <3>2. cfg' \in Settings
      BY <2>1, <3>1, ServerAssumption DEF LoadConfig, ServerAssumption
    <3>3. DOMAIN cfg'.devType = Devices
      BY <3>2 DEF Settings
    <3> QED
      BY <2>1, <3>2, <3>3 DEF LoadConfig, Existing, Goto
  <2>2. CASE Unpause
    BY <2>2 DEF Unpause, CodeInv, TypeOK
  <2> QED
    BY <2>1, <2>2
<1>3. ObjectTypes' /\ Counted' /\ \A n \in Modules : HasObject(n)' => HasObject(n)
  BY <1>1, ObjectsStay DEF objects
<1>4. WiringTypes' /\ ProgressTypes'
  BY <1>1, <1>2 DEF WiringTypes, ProgressTypes, CodeInv, TypeOK, use, objects
<1> QED
  BY <1>1, <1>3, <1>4, RegisterStays

LEMMA AutoLoadDeviceKeeps ==
    ASSUME CodeInv, AutoLoadDevice
    PROVE  CodeInv'
<1>1. UNCHANGED <<paused, mishaps, exit_requested, switches, calls>> /\ pc' \in Stages
  BY DEF AutoLoadDevice, Goto, Stages
<1>2. TypeOK /\ Counted /\ DOMAIN cfg.devType = Devices /\ DOMAIN cfg.dllName = Segments
  BY DEF CodeInv, TypeOK, Settings
<1>3. todo' \subseteq (IF pc' = "addSegments" THEN Segments ELSE Devices) /\ channel' \in BOOLEAN
  <2>1. CASE todo # {}
    BY <1>2, <2>1 DEF AutoLoadDevice, TypeOK, CreateDevice, objects, Goto
  <2>2. CASE todo = {}
    BY <1>2, <2>2 DEF AutoLoadDevice, Existing, Goto
  <2> QED
    BY <2>1, <2>2
<1>4. ProgressTypes'
  BY <1>1, <1>2, <1>3 DEF ProgressTypes, TypeOK
<1>5. ASSUME UNCHANGED <<_devices, _handlers, refs, use, cfg>>
      PROVE  /\ ObjectTypes' /\ Counted' /\ WiringTypes'
             /\ \A n \in Modules : HasObject(n)' => HasObject(n)
  BY <1>2, <1>5, ObjectsStay DEF WiringTypes, TypeOK, use
<1>6. CASE todo = {}
  BY <1>1, <1>4, <1>5, <1>6, RegisterStays DEF AutoLoadDevice
<1>7. CASE todo # {}
  <2> DEFINE Known(d) == cfg.devType[d] # None /\ _devices[d] = None
  <2>1. PICK d \in todo :
           IF Known(d)
           THEN /\ Load(cfg.devType[d])
                /\ IF cfg.devType[d] \in rpcRegistry' THEN CreateDevice(d, cfg.devType[d])
                   ELSE UNCHANGED <<objects, use, cfg>>
           ELSE UNCHANGED <<registry, objects, use, cfg>>
    BY <1>7 DEF AutoLoadDevice
  <2>2. CASE ~Known(d)
    BY <1>1, <1>4, <1>5, <2>1, <2>2, RegisterStays DEF objects
  <2>3. CASE Known(d)
    <3> DEFINE m == cfg.devType[d]
    <3>0. d \in Devices
      BY <1>2 DEF TypeOK, AutoLoadDevice
    <3>1. m \in DevModules /\ m \in Modules
      BY <1>2, <2>3, <3>0 DEF TypeOK, Settings, NoneOr, Modules
    <3>2. Load(m) /\ IF m \in rpcRegistry' THEN CreateDevice(d, m) ELSE UNCHANGED <<objects, use, cfg>>
      BY <2>1, <2>3
    <3> HIDE DEF m
    <3>3. CASE m \notin rpcRegistry'
      BY <1>1, <1>4, <1>5, <3>1, <3>2, <3>3, RegisterGrows DEF objects
    <3>4. CASE m \in rpcRegistry'
      <4>1. m \in _dllRegister'
        BY <1>1, <3>1, <3>2, <3>4, LoadKeeps DEF CodeInv, MethodsHaveCode
      <4>2. /\ ObjectTypes' /\ Counted' /\ cfg' \in Settings
            /\ \A n \in Modules : HasObject(n)' => HasObject(n) \/ n = m
        BY <1>2, <3>0, <3>1, <3>2, <3>4, CreateDeviceKeeps
      <4>3. WiringTypes'
        BY <1>2, <3>2, <3>4, <4>2 DEF CreateDevice, WiringTypes, TypeOK, use
      <4> QED
        BY <1>1, <1>4, <3>1, <3>2, <4>1, <4>2, <4>3, RegisterGrows
    <3> QED
      BY <3>3, <3>4
  <2> QED
    BY <2>2, <2>3
<1> QED
  BY <1>6, <1>7

LEMMA AutoLoadSegmentKeeps ==
    ASSUME CodeInv, AutoLoadSegment
    PROVE  CodeInv'
<1>1. TypeOK /\ Counted /\ DOMAIN cfg.dllName = Segments
  BY DEF CodeInv, TypeOK, Settings
<1> DEFINE Fits(h) == _handlers[h] = None /\ channel
<1>2. PICK h \in todo :
         IF cfg.dllName[h] = None
         THEN Abandon("lateCall") /\ UNCHANGED <<registry, objects, use, cfg>>
         ELSE /\ Load(cfg.dllName[h])
              /\ IF cfg.dllName[h] \notin _dllRegister'
                 THEN Abandon("noModule") /\ UNCHANGED <<objects, use, cfg>>
                 ELSE IF ~Fits(h)
                 THEN Abandon("lateCall") /\ UNCHANGED <<objects, use, cfg>>
                 ELSE /\ CreateSegment(h, cfg.dllName[h])
                      /\ IF NoSuchDevice(h) THEN Abandon("noDevice")
                         ELSE todo' = todo \ {h} /\ Goto("addSegments") /\ UNCHANGED <<paused, mishaps>>
  BY DEF AutoLoadSegment
<1> DEFINE m == cfg.dllName[h]
<1>3. /\ UNCHANGED <<paused, exit_requested, switches, calls>> /\ pc' \in Stages
      /\ todo' \subseteq IF pc' = "addSegments" THEN Segments ELSE Devices
      /\ mishaps \subseteq mishaps' /\ mishaps' \subseteq {"lateCall", "noModule", "noDevice", "refreshed"}
  BY <1>1, <1>2 DEF AutoLoadSegment, Abandon, Goto, Stages, TypeOK
<1>4. channel' \in BOOLEAN
  BY <1>1, <1>2 DEF CreateSegment, objects, TypeOK
<1>5. ProgressTypes'
  BY <1>1, <1>3, <1>4 DEF ProgressTypes, TypeOK
<1>6. ASSUME UNCHANGED <<objects, use, cfg>>
      PROVE  /\ ObjectTypes' /\ Counted' /\ WiringTypes'
             /\ \A n \in Modules : HasObject(n)' => HasObject(n)
  BY <1>1, <1>6, ObjectsStay DEF WiringTypes, TypeOK, use, objects
<1>7. CASE m = None
  BY <1>2, <1>3, <1>5, <1>6, <1>7, RegisterStays
<1>8. CASE m # None
  <2>1. h \in Segments /\ m \in SegModules /\ m \in Modules
    <3>1. h \in Segments
      BY <1>1 DEF TypeOK, AutoLoadSegment
    <3> QED
      BY <1>1, <1>8, <3>1 DEF TypeOK, Settings, NoneOr, Modules
  <2>2. Load(m)
    BY <1>2, <1>8
  <2>3. CASE m \notin _dllRegister' \/ ~Fits(h)
    <3>1. UNCHANGED <<objects, use, cfg>>
      BY <1>2, <1>8, <2>3
    <3> QED
      BY <1>3, <1>5, <1>6, <2>1, <2>2, <3>1, RegisterGrows
  <2>4. CASE m \in _dllRegister' /\ Fits(h)
    <3>1. CreateSegment(h, m) /\ _handlers[h] = None
      BY <1>2, <1>8, <2>4
    <3>2. /\ ObjectTypes' /\ Counted' /\ cfg' \in Settings
          /\ user' \in [Sides -> [Devices -> NoneOr(Segments)]]
          /\ device' \in [Segments -> NoneOr(Devices)]
          /\ \A n \in Modules : HasObject(n)' => HasObject(n) \/ n = m
      BY <1>1, <2>1, <3>1, CreateSegmentKeeps
    <3> QED
      BY <1>3, <1>5, <2>1, <2>2, <2>4, <3>2, RegisterGrows DEF WiringTypes
  <2> QED
    BY <2>3, <2>4
<1> QED
  BY <1>7, <1>8

LEMMA CodeStep == CodeInv /\ [Next]_vars => CodeInv'
BY CallsKeep, BeginKeeps, TakeDownKeeps, UnloadAllKeeps, ReadKeeps, AutoLoadDeviceKeeps,
   AutoLoadSegmentKeeps DEF Next, Step

LEMMA CodeInit == Init => CodeInv
<1> SUFFICES ASSUME Init PROVE CodeInv
  OBVIOUS
<1>1. TypeOK
  <2>1. \A S, T : Empty(S) \in [S -> NoneOr(T)]
    BY DEF Empty, NoneOr
  <2>2. NoSettings \in Settings
    BY <2>1 DEF NoSettings, Settings
  <2>3. RegisterTypes /\ ObjectTypes
    BY DEF Init, RegisterTypes, ObjectTypes, Empty, NoneOr
  <2>4. WiringTypes
    <3>1. user \in [Sides -> [Devices -> NoneOr(Segments)]]
      BY <2>1 DEF Init
    <3>2. device \in [Segments -> NoneOr(Devices)]
      BY <2>1 DEF Init
    <3> QED
      BY <2>2, <3>1, <3>2 DEF Init, WiringTypes
  <2>5. ProgressTypes
    <3>1. calls \in 0..MaxCalls /\ switches \in 0..MaxSwitches
      BY ServerAssumption DEF Init, ServerAssumption
    <3>2. channel \in BOOLEAN /\ paused \in BOOLEAN /\ exit_requested \in BOOLEAN
      BY DEF Init
    <3>3. pc \in Stages /\ todo = {} /\ mishaps = {}
      BY DEF Init, Stages
    <3> QED
      BY <3>1, <3>2, <3>3 DEF ProgressTypes
  <2> QED
    BY <2>3, <2>4, <2>5, TypeParts
<1>2. Counted
  <2>1. \A m \in Modules : DevicesOf(m) = {} /\ SegmentsOf(m) = {}
    BY ServerAssumption DEF Init, Empty, DevicesOf, SegmentsOf, Places, ServerAssumption
  <2> QED
    BY <2>1, FS_EmptySet DEF Init, Counted
<1>3. ObjectsHaveCode
  BY ServerAssumption DEF Init, ObjectsHaveCode, Empty, ServerAssumption
<1> QED
  BY <1>1, <1>2, <1>3 DEF Init, CodeInv, MethodsHaveCode, Recorded

LEMMA CodeInvariant == Spec => []CodeInv
BY CodeInit, CodeStep, PTL DEF Spec

\* However calls of other threads fall between the steps of a switch, whatever fails to
\* load and whatever refuses to be unloaded: while an object, a method or a dependent
\* module needs a module's code, it is loaded (CE_DLL_Registry.cpp:285-420,
\* XML_RPC_Server.cpp:189-247).
THEOREM CodeStaysInPlace == Spec => []CodeInPlace
<1>1. CodeInv => CodeInPlace
  <2> SUFFICES ASSUME CodeInv PROVE CodeInPlace
    OBVIOUS
  <2>1. TypeOK /\ ObjectsHaveCode /\ MethodsHaveCode
    BY DEF CodeInv
  <2>2. DependenciesLoaded
    BY <2>1, DepsType DEF CodeInv, Recorded, DependenciesLoaded, TypeOK
  <2> QED
    BY <2>1, <2>2 DEF CodeInPlace
<1> QED
  BY <1>1, CodeInvariant, PTL

-----------------------------------------------------------------------------
(* The records of who uses a device.                                       *)

\* The records of w agree, with segments of modules H and devices of modules D.
Agree(w, H, D) ==
    /\ \A s \in Segments : w.device[s] # None =>
           /\ H[s] # None /\ D[w.device[s]] # None
           /\ w.user[Side[H[s]]][w.device[s]] = s
    /\ \A i \in Sides, e \in Devices : w.user[i][e] # None =>
           w.device[w.user[i][e]] = e /\ i = Side[H[w.user[i][e]]]

\* The settings name each device in use.
Named(w) == \A s \in Segments : w.device[s] # None => w.deviceName[s] = w.device[s]

\* What the records are while a switch has taken everything down.
Down == pc \in {"devices", "modules", "load", "addDevices"}

RecordsInv ==
    /\ Agree(Wiring, _handlers, _devices)
    /\ "lateCall" \notin mishaps => Named(Wiring) /\ (Down => device = Empty(Segments))
    /\ ~channel => _handlers = Empty(Segments)

\* c is w with h connected to d: the user before it has neither d nor the setting.
Connected(c, w, i, h, d) ==
    /\ c.device[h] = d
    /\ \A s \in Segments \ {h} : c.device[s] = None \/ (c.device[s] = w.device[s] /\ s # w.user[i][d])
    /\ \A s \in Segments : c.deviceName[s] = IF s = w.user[i][d] THEN None ELSE w.deviceName[s]
    /\ w.user[i][d] # h

LEMMA ConnectAgrees ==
    ASSUME NEW w \in Wirings, NEW H, NEW H2, NEW D, NEW h \in Segments, NEW d \in Devices,
           NEW i \in Sides, Agree(w, H, D), w.device[h] = None,
           H2[h] # None, Side[H2[h]] = i, D[d] # None,
           \A s \in Segments : s # h => H2[s] = H[s]
    PROVE  Agree(ConnectDevice(w, i, h, d), H2, D) /\ Connected(ConnectDevice(w, i, h, d), w, i, h, d)
<1> DEFINE c == ConnectDevice(w, i, h, d)
           o == w.user[i][d]
<1>1. c \in Wirings
  BY ConnectType
<1>2. /\ \A s \in Segments : c.device[s] = IF s = h THEN d ELSE IF s = o THEN None ELSE w.device[s]
      /\ \A s \in Segments : c.deviceName[s] = IF s = o THEN None ELSE w.deviceName[s]
      /\ \A j \in Sides, e \in Devices :
            c.user[j][e] = IF j = i /\ e = d THEN h ELSE w.user[j][e]
  BY DEF ConnectDevice, SetUser, Wirings
<1>3. h # None /\ \A e \in Devices : e # None
  BY ServerAssumption DEF ServerAssumption
<1>4. \A j \in Sides, e \in Devices : w.user[j][e] # h /\ w.user[j][e] \in Segments \cup {None}
  <2> SUFFICES ASSUME NEW j \in Sides, NEW e \in Devices
               PROVE  w.user[j][e] # h /\ w.user[j][e] \in Segments \cup {None}
    OBVIOUS
  <2>1. w.user[j][e] \in Segments \cup {None}
    BY DEF Wirings, NoneOr
  <2>2. w.user[j][e] = h => w.device[h] = e
    BY <1>3 DEF Agree
  <2> QED
    BY <1>3, <2>1, <2>2
<1> HIDE DEF c
<1>5. \A s \in Segments : c.device[s] # None =>
           /\ H2[s] # None /\ D[c.device[s]] # None
           /\ c.user[Side[H2[s]]][c.device[s]] = s
  <2> SUFFICES ASSUME NEW s \in Segments, c.device[s] # None
               PROVE  /\ H2[s] # None /\ D[c.device[s]] # None
                      /\ c.user[Side[H2[s]]][c.device[s]] = s
    OBVIOUS
  <2>1. CASE s = h
    BY <1>2, <2>1
  <2>2. CASE s # h
    <3>1. c.device[s] = w.device[s] /\ s # o /\ H2[s] = H[s] /\ w.device[s] \in Devices
      BY <1>2, <2>2 DEF Wirings, NoneOr
    <3>2. H[s] # None /\ D[w.device[s]] # None /\ w.user[Side[H[s]]][w.device[s]] = s
      BY <3>1 DEF Agree
    <3>3. c.user[Side[H[s]]][w.device[s]] = s
      <4>1. ~(Side[H[s]] = i /\ w.device[s] = d)
        BY <3>1, <3>2
      <4>2. c.user = [w.user EXCEPT ![i][d] = h]
        BY DEF c, ConnectDevice, SetUser, Wirings
      <4> QED
        BY <3>1, <3>2, <4>1, <4>2 DEF Wirings
    <3> QED
      BY <3>1, <3>2, <3>3
  <2> QED
    BY <2>1, <2>2
<1>6. \A j \in Sides, e \in Devices : c.user[j][e] # None =>
           c.device[c.user[j][e]] = e /\ j = Side[H2[c.user[j][e]]]
  <2> SUFFICES ASSUME NEW j \in Sides, NEW e \in Devices, c.user[j][e] # None
               PROVE  c.device[c.user[j][e]] = e /\ j = Side[H2[c.user[j][e]]]
    OBVIOUS
  <2>1. CASE j = i /\ e = d
    BY <1>2, <2>1
  <2>2. CASE ~(j = i /\ e = d)
    <3> DEFINE s == w.user[j][e]
    <3>1. c.user[j][e] = s /\ s \in Segments /\ s # h
      BY <1>2, <1>4, <2>2
    <3>2. w.device[s] = e /\ j = Side[H[s]]
      BY <1>2, <2>2 DEF Agree
    <3>3. s # o
      <4>1. s = o => w.device[s] = d /\ i = Side[H[s]]
        BY <3>1 DEF Agree
      <4> QED
        BY <2>2, <3>2, <4>1
    <3> HIDE DEF s
    <3> QED
      BY <1>2, <3>1, <3>2, <3>3
  <2> QED
    BY <2>1, <2>2
<1>7. Agree(c, H2, D)
  BY <1>5, <1>6 DEF Agree
<1>8. \A s \in Segments \ {h} : c.device[s] = None \/ (c.device[s] = w.device[s] /\ s # o)
  BY <1>2
<1>9. c.device[h] = d /\ o # h
  BY <1>2, <1>4
<1>a. \A s \in Segments : c.deviceName[s] = IF s = o THEN None ELSE w.deviceName[s]
  BY <1>2
<1> QED
  BY <1>7, <1>8, <1>9, <1>a DEF c, Connected

LEMMA DisconnectAgrees ==
    ASSUME NEW w \in Wirings, NEW D, NEW h \in Segments, Side[_handlers[h]] \in Sides, Agree(w, _handlers, D)
    PROVE  LET c == DisconnectDevice(w, h)
           IN  /\ Agree(c, _handlers, D)
               /\ \A s \in Segments : c.device[s] = IF s = h THEN None ELSE w.device[s]
               /\ \A s \in Segments \ {h} : c.deviceName[s] = w.deviceName[s]
<1> DEFINE c == DisconnectDevice(w, h)
           i == Side[_handlers[h]]
           d == w.device[h]
<1>0. h # None
  BY ServerAssumption DEF ServerAssumption
<1>1. CASE d = None
  <2>1. c = w
    BY <1>1 DEF DisconnectDevice
  <2> QED
    BY <1>1, <2>1
<1>2. CASE d # None
  <2>1. d \in Devices /\ w.user[i][d] = h
    BY <1>2 DEF Wirings, NoneOr, Agree
  <2>2. /\ \A s \in Segments : c.device[s] = IF s = h THEN None ELSE w.device[s]
        /\ \A s \in Segments : c.deviceName[s] = IF s = h THEN None ELSE w.deviceName[s]
        /\ c.user = [w.user EXCEPT ![i][d] = None]
    BY <1>2, <2>1 DEF DisconnectDevice, SetUser, Wirings
  <2>3. \A j \in Sides, e \in Devices :
            c.user[j][e] = IF j = i /\ e = d THEN None ELSE w.user[j][e]
    BY <2>1, <2>2 DEF Wirings
  <2> HIDE DEF c
  <2>4. ASSUME NEW s \in Segments, c.device[s] # None
        PROVE  /\ _handlers[s] # None /\ D[c.device[s]] # None
               /\ c.user[Side[_handlers[s]]][c.device[s]] = s
    <3>1. s # h /\ c.device[s] = w.device[s] /\ w.device[s] \in Devices
      BY <2>2, <2>4 DEF Wirings, NoneOr
    <3>2. _handlers[s] # None /\ D[w.device[s]] # None /\ w.user[Side[_handlers[s]]][w.device[s]] = s
      BY <2>4, <3>1 DEF Agree
    <3>3. ~(Side[_handlers[s]] = i /\ w.device[s] = d)
      BY <2>1, <3>1, <3>2
    <3>4. c.user[Side[_handlers[s]]][w.device[s]] = s
      BY <2>2, <3>1, <3>2, <3>3 DEF Wirings
    <3> QED
      BY <3>1, <3>2, <3>4
  <2>5. ASSUME NEW j \in Sides, NEW e \in Devices, c.user[j][e] # None
        PROVE  c.device[c.user[j][e]] = e /\ j = Side[_handlers[c.user[j][e]]]
    <3> DEFINE s == w.user[j][e]
    <3>1. ~(j = i /\ e = d) /\ c.user[j][e] = s /\ s # None
      BY <2>3, <2>5
    <3>2. s \in Segments /\ w.device[s] = e /\ j = Side[_handlers[s]]
      BY <3>1 DEF Agree, Wirings, NoneOr
    <3>3. s # h
      BY <3>1, <3>2
    <3> HIDE DEF s
    <3> QED
      BY <2>2, <3>1, <3>2, <3>3
  <2>6. Agree(c, _handlers, D)
    BY <2>4, <2>5 DEF Agree
  <2> QED
    BY <2>2, <2>6 DEF c
<1> QED
  BY <1>1, <1>2

\* A wiring of which a part is left agrees if the whole did.
LEMMA SameWiring ==
    ASSUME CodeInv, RecordsInv, UNCHANGED <<user, device, _handlers>>, ~channel' => ~channel,
           \A d \in Devices : _devices[d] # None => _devices'[d] # None,
           "lateCall" \notin mishaps' =>
               /\ "lateCall" \notin mishaps
               /\ device = Empty(Segments) \/ (cfg'.deviceName = cfg.deviceName /\ (Down' => Down))
    PROVE  RecordsInv'
<1>1. \A s \in Segments : device[s] # None => device[s] \in Devices
  BY DEF CodeInv, TypeOK, NoneOr
<1>2. Agree(Wiring, _handlers, _devices)'
  BY <1>1 DEF RecordsInv, Agree, Wiring
<1>3. "lateCall" \notin mishaps' => Named(Wiring)' /\ (Down' => device' = Empty(Segments))
  <2>1. device = Empty(Segments) => \A s \in Segments : device[s] = None
    BY DEF Empty
  <2> QED
    BY <2>1 DEF RecordsInv, Named, Wiring
<1> QED
  BY <1>2, <1>3 DEF RecordsInv

LEMMA QuietCall ==
    ASSUME Call, Noted("lateCall"), "lateCall" \notin mishaps'
    PROVE  "lateCall" \notin mishaps /\ pc = "idle" /\ ~Down /\ ~Down' /\ UNCHANGED pc
BY DEF Call, Noted, Down, progress

LEMMA DeleteDeviceAgrees ==
    ASSUME CodeInv, RecordsInv, NEW d \in Devices, DeleteDevice(d),
           cfg'.deviceName = cfg.deviceName,
           "lateCall" \notin mishaps' => "lateCall" \notin mishaps /\ (Down' => Down)
    PROVE  RecordsInv'
<1>1. /\ UNCHANGED <<channel, _handlers>>
      /\ \A e \in Devices : _devices'[e] = IF e = d THEN None ELSE _devices[e]
      /\ \A i \in Sides, e \in Devices : user'[i][e] = IF e = d THEN None ELSE user[i][e]
      /\ \A s \in Segments :
            device'[s] = IF \E i \in Sides : s = user[i][d] THEN None ELSE device[s]
  <2>1. TypeOK
    BY DEF CodeInv
  <2>2. /\ UNCHANGED <<channel, _handlers>> /\ _devices' = [_devices EXCEPT ![d] = None]
        /\ user' = [i \in Sides |-> [user[i] EXCEPT ![d] = None]]
        /\ device' = [s \in Segments |-> IF \E i \in Sides : s = user[i][d] THEN None ELSE device[s]]
    BY DEF DeleteDevice
  <2>3. \A e \in Devices : _devices'[e] = IF e = d THEN None ELSE _devices[e]
    BY <2>1, <2>2 DEF TypeOK
  <2>4. \A i \in Sides : user[i] \in [Devices -> NoneOr(Segments)]
    BY <2>1 DEF TypeOK
  <2> QED
    BY <2>2, <2>3, <2>4
<1>2. /\ \A s \in Segments : device[s] # None =>
             /\ _handlers[s] # None /\ _devices[device[s]] # None
             /\ user[Side[_handlers[s]]][device[s]] = s
             /\ Side[_handlers[s]] \in Sides /\ device[s] \in Devices
      /\ \A i \in Sides, e \in Devices : user[i][e] # None =>
             /\ device[user[i][e]] = e /\ i = Side[_handlers[user[i][e]]]
             /\ user[i][e] \in Segments
  <2>1. \A s \in Segments : _handlers[s] # None => _handlers[s] \in SegModules
    BY DEF CodeInv, TypeOK, NoneOr
  <2>2. \A s \in Segments : _handlers[s] # None => Side[_handlers[s]] \in Sides
    BY <2>1, ServerAssumption DEF Sides, ServerAssumption
  <2>3. \A s \in Segments : device[s] # None => device[s] \in Devices
    BY DEF CodeInv, TypeOK, NoneOr
  <2>4. \A i \in Sides, e \in Devices : user[i][e] # None => user[i][e] \in Segments
    BY DEF CodeInv, TypeOK, NoneOr
  <2> QED
    BY <2>2, <2>3, <2>4 DEF RecordsInv, Agree, Wiring
<1>3. ASSUME NEW s \in Segments, device'[s] # None
      PROVE  /\ _handlers'[s] # None /\ _devices'[device'[s]] # None
             /\ user'[Side[_handlers'[s]]][device'[s]] = s
  <2>1. device'[s] = device[s] /\ \A i \in Sides : s # user[i][d]
    BY <1>1, <1>3
  <2>2. device[s] # d
    BY <1>2, <1>3, <2>1
  <2> QED
    BY <1>1, <1>2, <1>3, <2>1, <2>2
<1>4. ASSUME NEW i \in Sides, NEW e \in Devices, user'[i][e] # None
      PROVE  device'[user'[i][e]] = e /\ i = Side[_handlers'[user'[i][e]]]
  <2>1. e # d /\ user'[i][e] = user[i][e]
    BY <1>1, <1>4
  <2>2. device[user[i][e]] = e /\ i = Side[_handlers[user[i][e]]] /\ user[i][e] \in Segments
    BY <1>2, <1>4, <2>1
  <2>3. \A j \in Sides : user[j][d] # user[i][e]
    BY <1>2, <1>4, <2>1, <2>2
  <2> QED
    BY <1>1, <2>1, <2>2, <2>3
<1>5. Agree(Wiring, _handlers, _devices)'
  BY <1>3, <1>4 DEF Agree, Wiring
<1>6. "lateCall" \notin mishaps' => Named(Wiring)' /\ (Down' => device' = Empty(Segments))
  <2> SUFFICES ASSUME "lateCall" \notin mishaps' PROVE Named(Wiring)' /\ (Down' => device' = Empty(Segments))
    OBVIOUS
  <2>1. Named(Wiring) /\ (Down' => device = Empty(Segments))
    BY DEF RecordsInv
  <2>2. Named(Wiring)'
    BY <1>1, <2>1 DEF Named, Wiring
  <2>3. Down' => device' = Empty(Segments)
    <3>1. device' = [s \in Segments |-> IF \E i \in Sides : s = user[i][d] THEN None ELSE device[s]]
      BY DEF DeleteDevice
    <3> QED
      BY <2>1, <3>1 DEF Empty
  <2> QED
    BY <2>2, <2>3
<1> QED
  BY <1>1, <1>5, <1>6 DEF RecordsInv

LEMMA DeleteChannelAgrees ==
    ASSUME DeleteChannel
    PROVE  RecordsInv'
<1>1. /\ user' = [i \in Sides |-> Empty(Devices)] /\ device' = Empty(Segments)
      /\ _handlers' = Empty(Segments)
  BY DEF DeleteChannel
<1>2. Agree(Wiring, _handlers, _devices)' /\ Named(Wiring)'
  BY <1>1 DEF Agree, Named, Wiring, Empty
<1> QED
  BY <1>1, <1>2 DEF RecordsInv

LEMMA CreateSegmentAgrees ==
    ASSUME CodeInv, RecordsInv, NEW h \in Segments, _handlers[h] = None, channel, NEW m \in SegModules,
           CreateSegment(h, m), "lateCall" \notin mishaps' => "lateCall" \notin mishaps /\ ~Down'
    PROVE  RecordsInv'
<1> DEFINE d == cfg.deviceName[h]
           w == IF d = None \/ NoSuchDevice(h) THEN Wiring ELSE ConnectDevice(Wiring, Side[m], h, d)
<1>1. /\ _handlers' = [_handlers EXCEPT ![h] = m] /\ user' = w.user /\ device' = w.device
      /\ cfg' = [cfg EXCEPT !.dllName[h] = m, !.deviceName = w.deviceName]
      /\ UNCHANGED <<_devices, channel>>
  BY DEF CreateSegment
<1>2. /\ Wiring \in Wirings /\ Agree(Wiring, _handlers, _devices) /\ device[h] = None
      /\ d \in NoneOr(Devices) /\ m # None /\ Side[m] \in Sides
  <2>1. Wiring \in Wirings
    BY WiringType DEF CodeInv
  <2>2. device[h] = None
    BY DEF RecordsInv, Agree, Wiring
  <2>3. d \in NoneOr(Devices)
    BY DEF CodeInv, TypeOK, Settings
  <2>4. m # None /\ Side[m] \in Sides
    BY ServerAssumption DEF Modules, Sides, ServerAssumption
  <2> QED
    BY <2>1, <2>2, <2>3, <2>4 DEF RecordsInv
<1>3. \A s \in Segments : _handlers'[s] = IF s = h THEN m ELSE _handlers[s]
  BY <1>1 DEF CodeInv, TypeOK
<1>4. Agree(w, _handlers', _devices) /\ ("lateCall" \notin mishaps => Named(w))
  <2>1. CASE w = Wiring
    <3>1. \A s \in Segments : device[s] # None => s # h
      BY <1>2
    <3>2. \A i \in Sides, e \in Devices : user[i][e] # None => user[i][e] # h /\ user[i][e] \in Segments
      <4>1. \A e \in Devices : e # None
        BY ServerAssumption DEF ServerAssumption
      <4>2. \A i \in Sides, e \in Devices : user[i][e] # None => user[i][e] \in Segments
        BY DEF CodeInv, TypeOK, NoneOr
      <4> QED
        BY <1>2, <4>1, <4>2 DEF Agree, Wiring
    <3>3. Agree(Wiring, _handlers', _devices)
      BY <1>2, <1>3, <3>1, <3>2 DEF Agree, Wiring
    <3> QED
      BY <2>1, <3>3 DEF RecordsInv
  <2>2. CASE w # Wiring
    <3>1. d # None /\ _devices[d] # None /\ w = ConnectDevice(Wiring, Side[m], h, d)
      BY <2>2 DEF NoSuchDevice
    <3>2. d \in Devices /\ Wiring.device[h] = None
      BY <1>2, <3>1 DEF NoneOr, Wiring
    <3> DEFINE c == ConnectDevice(Wiring, Side[m], h, d)
    <3>3. Agree(c, _handlers', _devices) /\ Connected(c, Wiring, Side[m], h, d)
      <4>1. _handlers'[h] # None /\ Side[_handlers'[h]] = Side[m]
        BY <1>2, <1>3
      <4>2. \A s \in Segments : s # h => _handlers'[s] = _handlers[s]
        BY <1>3
      <4> QED
        BY <1>2, <3>1, <3>2, <4>1, <4>2, ConnectAgrees
    <3> HIDE DEF c
    <3>4. "lateCall" \notin mishaps => Named(c)
      <4>1. Wiring.deviceName[h] = d
        BY DEF Wiring
      <4> QED
        BY <3>3, <4>1 DEF RecordsInv, Named, Connected
    <3> QED
      BY <3>1, <3>3, <3>4 DEF c
  <2> QED
    BY <2>1, <2>2
<1> HIDE DEF w
<1>5. Agree(Wiring, _handlers, _devices)'
  BY <1>1, <1>4 DEF Agree, Wiring
<1>6. "lateCall" \notin mishaps' => Named(Wiring)'
  <2>1. cfg'.deviceName = w.deviceName
    BY <1>1 DEF CodeInv, TypeOK, Settings
  <2> QED
    BY <1>1, <1>4, <2>1 DEF Named, Wiring
<1> QED
  BY <1>1, <1>5, <1>6 DEF RecordsInv

LEMMA WiringCallsAgree ==
    ASSUME CodeInv, RecordsInv, NEW h \in Segments,
           RemoveSegment(h) \/ ClearDevice(h) \/ \E d \in Devices : SetDevice(h, d)
    PROVE  RecordsInv'
<1>1. /\ Wiring \in Wirings /\ Agree(Wiring, _handlers, _devices) /\ TypeOK
      /\ "lateCall" \notin mishaps => Named(Wiring)
  BY WiringType DEF CodeInv, RecordsInv
<1>2. _handlers[h] # None /\ Side[_handlers[h]] \in Sides
  <2>1. _handlers[h] # None
    <3>1. None \notin rpcRegistry
      BY <1>1, ServerAssumption DEF TypeOK, ServerAssumption
    <3> QED
      BY <3>1 DEF RemoveSegment, ClearDevice, SetDevice
  <2>2. _handlers[h] \in SegModules
    BY <1>1, <2>1 DEF TypeOK, NoneOr
  <2> QED
    BY <2>1, <2>2, ServerAssumption DEF Sides, ServerAssumption
<1> DEFINE c == DisconnectDevice(Wiring, h)
<1>3. /\ c \in Wirings /\ Agree(c, _handlers, _devices)
      /\ \A s \in Segments : c.device[s] = IF s = h THEN None ELSE Wiring.device[s]
      /\ \A s \in Segments \ {h} : c.deviceName[s] = Wiring.deviceName[s]
  BY <1>1, <1>2, DisconnectType, DisconnectAgrees
<1>4. Call /\ Noted("lateCall") /\ channel' = channel /\ UNCHANGED _devices
  BY DEF RemoveSegment, ClearDevice, SetDevice, DeleteSegment, objects
<1>5. "lateCall" \notin mishaps' => Named(Wiring) /\ ~Down'
  BY <1>1, <1>4, QuietCall
<1>6. DOMAIN cfg = {"devType", "dllName", "deviceName"}
  BY <1>1 DEF TypeOK, Settings
<1>7. CASE RemoveSegment(h)
  <2>1. /\ _handlers' = [_handlers EXCEPT ![h] = None] /\ user' = c.user /\ device' = c.device
        /\ cfg' = [cfg EXCEPT !.dllName[h] = None, !.deviceName = [c.deviceName EXCEPT ![h] = None]]
    BY <1>7 DEF RemoveSegment, DeleteSegment
  <2> HIDE DEF c
  <2>2. cfg'.deviceName = [c.deviceName EXCEPT ![h] = None]
    BY <1>1, <2>1 DEF TypeOK, Settings
  <2>3. \A s \in Segments : s # h => _handlers'[s] = _handlers[s] /\ cfg'.deviceName[s] = c.deviceName[s]
    BY <1>1, <1>3, <2>1, <2>2 DEF TypeOK, Wirings
  <2>4. \A s \in Segments : c.device[s] # None => s # h
    BY <1>3
  <2>5. \A i \in Sides, e \in Devices : c.user[i][e] # None => c.user[i][e] \in Segments /\ c.user[i][e] # h
    <3>1. \A e \in Devices : e # None
      BY ServerAssumption DEF ServerAssumption
    <3>2. \A i \in Sides, e \in Devices : c.user[i][e] # None => c.user[i][e] \in Segments
      BY <1>3 DEF Wirings, NoneOr
    <3> QED
      BY <1>3, <3>1, <3>2 DEF Agree
  <2>6. Agree(c, _handlers', _devices)
    BY <1>3, <2>3, <2>4, <2>5 DEF Agree
  <2>7. Agree(Wiring, _handlers, _devices)'
    BY <1>4, <2>1, <2>6 DEF Agree, Wiring
  <2>8. Named(Wiring) => Named(Wiring)'
    BY <1>3, <2>1, <2>3 DEF Named, Wiring
  <2>9. ~channel' => _handlers' = Empty(Segments)
    BY <1>4, <1>7 DEF RemoveSegment
  <2> QED
    BY <1>5, <2>7, <2>8, <2>9 DEF RecordsInv
<1>8. ASSUME UNCHANGED _handlers, NEW w \in Wirings, Wired(w), Agree(w, _handlers, _devices),
             "lateCall" \notin mishaps' => Named(w)
      PROVE  RecordsInv'
  <2>1. user' = w.user /\ device' = w.device /\ cfg'.deviceName = w.deviceName
    BY <1>1, <1>8 DEF Wired, TypeOK, Settings
  <2>2. Agree(Wiring, _handlers, _devices)' /\ (Named(w) => Named(Wiring)')
    BY <1>4, <1>8, <2>1 DEF Agree, Named, Wiring
  <2> QED
    BY <1>4, <1>5, <1>8, <2>2 DEF RecordsInv
<1>9. CASE ClearDevice(h)
  <2> DEFINE w == [c EXCEPT !.deviceName[h] = None]
  <2>1. Wired(w) /\ UNCHANGED _handlers
    BY <1>9 DEF ClearDevice, objects
  <2> HIDE DEF c
  <2>2. /\ w \in Wirings /\ w.user = c.user /\ w.device = c.device
        /\ \A s \in Segments : s # h => w.deviceName[s] = c.deviceName[s]
    BY <1>3 DEF Wirings, NoneOr
  <2> HIDE DEF w
  <2>3. Agree(w, _handlers, _devices)
    BY <1>3, <2>2 DEF Agree
  <2>4. Named(Wiring) => Named(w)
    BY <1>3, <2>2 DEF Named
  <2> QED
    BY <1>5, <1>8, <2>1, <2>2, <2>3, <2>4
<1>10. ASSUME NEW d \in Devices, SetDevice(h, d) PROVE RecordsInv'
  <2> DEFINE i == Side[_handlers[h]]
             x == ConnectDevice(c, i, h, d)
             w == [x EXCEPT !.deviceName[h] = d]
  <2>1. Wired(w) /\ UNCHANGED _handlers /\ _devices[d] # None
    <3>1. _devices[d] \in Takes[_handlers[h]]
      BY <1>10 DEF SetDevice
    <3>2. _handlers[h] \in SegModules
      BY <1>1, <1>2 DEF TypeOK, NoneOr
    <3>3. Takes[_handlers[h]] \subseteq DevModules
      BY <3>2, ServerAssumption DEF ServerAssumption
    <3>4. _devices[d] # None
      BY <3>1, <3>3, ServerAssumption DEF Modules, ServerAssumption
    <3> QED
      BY <1>10, <3>4 DEF SetDevice, objects
  <2> HIDE DEF c
  <2>2. x \in Wirings /\ Agree(x, _handlers, _devices) /\ Connected(x, c, i, h, d)
    <3>1. c.device[h] = None
      BY <1>3
    <3> QED
      BY <1>2, <1>3, <2>1, <3>1, ConnectAgrees, ConnectType
  <2> HIDE DEF x
  <2>3. /\ w \in Wirings /\ w.user = x.user /\ w.device = x.device
        /\ \A s \in Segments : w.deviceName[s] = IF s = h THEN d ELSE x.deviceName[s]
    BY <2>2 DEF Wirings, NoneOr
  <2> HIDE DEF w
  <2>4. Agree(w, _handlers, _devices)
    BY <2>2, <2>3 DEF Agree
  <2>5. Named(Wiring) => Named(w)
    BY <1>3, <2>2, <2>3 DEF Named, Connected
  <2> QED
    BY <1>5, <1>8, <2>1, <2>3, <2>4, <2>5
<1> QED
  BY <1>7, <1>9, <1>10

LEMMA RecordsStep == CodeInv /\ RecordsInv /\ [Next]_vars => RecordsInv'
<1> SUFFICES ASSUME CodeInv, RecordsInv, [Next]_vars PROVE RecordsInv'
  OBVIOUS
<1>1. ASSUME RefreshAvailable \/ AddChannel \/ \E m \in Modules : LoadModule(m) \/ UnloadModule(m)
      PROVE  RecordsInv'
  <2>1. UNCHANGED <<user, device, _handlers, _devices, cfg>> /\ (channel' = channel \/ channel' = TRUE) /\ Call
    BY <1>1 DEF RefreshAvailable, AddChannel, LoadModule, UnloadModule, objects, use
  <2>2. "lateCall" \notin mishaps' => "lateCall" \notin mishaps /\ (Down' => Down)
    BY <1>1 DEF RefreshAvailable, AddChannel, LoadModule, UnloadModule, Noted, Down, Call, progress
  <2> QED
    BY <2>1, <2>2, SameWiring
<1>2. ASSUME NEW d \in Devices, NEW m \in DevModules, AddDevice(d, m) PROVE RecordsInv'
  <2>1. CreateDevice(d, m) /\ Call /\ Noted("lateCall")
    BY <1>2 DEF AddDevice
  <2>2. /\ UNCHANGED <<user, device, _handlers, channel>> /\ cfg'.deviceName = cfg.deviceName
        /\ \A e \in Devices : _devices[e] # None => _devices'[e] # None
    BY <2>1 DEF CreateDevice, CodeInv, TypeOK, Settings, use
  <2> QED
    BY <2>1, <2>2, QuietCall, SameWiring
<1>3. ASSUME NEW d \in Devices, RemoveDevice(d) PROVE RecordsInv'
  <2>1. DeleteDevice(d) /\ cfg' = [cfg EXCEPT !.devType[d] = None] /\ Call /\ Noted("lateCall")
    BY <1>3 DEF RemoveDevice
  <2>2. cfg'.deviceName = cfg.deviceName
    BY <2>1 DEF CodeInv, TypeOK, Settings
  <2> QED
    BY <2>1, <2>2, QuietCall, DeleteDeviceAgrees
<1>4. ASSUME NEW h \in Segments, NEW m \in SegModules, AddSegment(h, m) PROVE RecordsInv'
  BY <1>4, QuietCall, CreateSegmentAgrees DEF AddSegment
<1>5. CASE Calls
  BY <1>1, <1>2, <1>3, <1>4, <1>5, DeleteChannelAgrees, WiringCallsAgree DEF Calls, RemoveChannel
<1>6. CASE SwitchToConfigFile \/ HandleSignal \/ UNCHANGED vars
  <2>1. UNCHANGED <<user, device, _handlers, _devices, cfg, channel, mishaps>> /\ (Down' => Down)
    BY <1>6 DEF SwitchToConfigFile, HandleSignal, Begin, vars, progress, objects, use, Down
  <2> QED
    BY <2>1, SameWiring
<1>7. CASE RemoveChannels
  <2>1. CASE channel
    BY <1>7, <2>1, DeleteChannelAgrees DEF RemoveChannels
  <2>2. CASE ~channel
    <3>1. UNCHANGED <<user, device, _handlers, _devices, cfg, channel, mishaps>>
      BY <1>7, <2>2 DEF RemoveChannels, objects, use
    <3>2. device = Empty(Segments)
      <4>1. \A s \in Segments : device[s] = None
        BY <2>2 DEF RecordsInv, Agree, Wiring, Empty
      <4> QED
        BY <4>1 DEF CodeInv, TypeOK, Empty
    <3> QED
      BY <3>1, <3>2, SameWiring
  <2> QED
    BY <2>1, <2>2
<1>8. CASE RemoveDevices
  <2>1. /\ UNCHANGED <<cfg, mishaps>> /\ Down
        /\ \/ \E d \in Existing(_devices) : DeleteDevice(d)
           \/ UNCHANGED <<objects, use>>
    BY <1>8 DEF RemoveDevices, Down
  <2>2. Existing(_devices) \subseteq Devices
    BY DEF CodeInv, TypeOK, Existing
  <2>3. CASE UNCHANGED <<objects, use>>
    BY <2>1, <2>3, SameWiring DEF objects, use
  <2> QED
    BY <2>1, <2>2, <2>3, DeleteDeviceAgrees
<1>9. CASE UnloadAll \/ LoadConfig \/ Unpause
  <2>1. UNCHANGED <<user, device, _handlers, _devices, channel, mishaps>>
    BY <1>9 DEF UnloadAll, LoadConfig, Unpause, objects, use
  <2>2. CASE LoadConfig
    <3>1. "lateCall" \notin mishaps => device = Empty(Segments)
      BY <2>2 DEF LoadConfig, RecordsInv, Down
    <3> QED
      BY <2>1, <3>1, SameWiring
  <2>3. CASE UnloadAll \/ Unpause
    <3>1. UNCHANGED cfg /\ (Down' => Down)
      BY <2>3 DEF UnloadAll, Unpause, Down, Goto
    <3> QED
      BY <2>1, <3>1, SameWiring
  <2> QED
    BY <1>9, <2>2, <2>3
<1>10. CASE AutoLoadDevice
  <2>1. UNCHANGED mishaps /\ Down /\ (channel' = channel \/ channel' = TRUE)
    BY <1>10 DEF AutoLoadDevice, Down, CreateDevice, objects
  <2>2. /\ UNCHANGED <<user, device, _handlers>> /\ cfg'.deviceName = cfg.deviceName
        /\ \A e \in Devices : _devices[e] # None => _devices'[e] # None
    <3>1. \/ \E d \in todo : CreateDevice(d, cfg.devType[d])
          \/ UNCHANGED <<_devices, _handlers, use, cfg>>
      BY <1>10 DEF AutoLoadDevice, objects
    <3>2. \A d, m : CreateDevice(d, m) => /\ UNCHANGED <<use, _handlers>>
                                          /\ cfg'.deviceName = cfg.deviceName
                                          /\ \A e \in Devices : _devices[e] # None => _devices'[e] # None
      BY DEF CreateDevice, CodeInv, TypeOK, Settings
    <3> QED
      BY <3>1, <3>2 DEF use
  <2> QED
    BY <2>1, <2>2, SameWiring
<1>11. CASE AutoLoadSegment
  <2>1. /\ \/ UNCHANGED <<objects, use, cfg>>
           \/ \E h \in todo : /\ _handlers[h] = None /\ channel /\ cfg.dllName[h] # None
                              /\ CreateSegment(h, cfg.dllName[h])
        /\ mishaps \subseteq mishaps' /\ ~Down'
    BY <1>11 DEF AutoLoadSegment, Abandon, Goto, Down
  <2>2. todo \subseteq Segments /\ \A h \in Segments : cfg.dllName[h] # None => cfg.dllName[h] \in SegModules
    BY <1>11 DEF AutoLoadSegment, CodeInv, TypeOK, Settings, NoneOr
  <2>3. CASE UNCHANGED <<objects, use, cfg>>
    BY <2>1, <2>3, SameWiring DEF objects, use
  <2>4. ASSUME NEW h \in todo, _handlers[h] = None, channel, cfg.dllName[h] # None,
               CreateSegment(h, cfg.dllName[h])
        PROVE  RecordsInv'
    BY <2>1, <2>2, <2>4, CreateSegmentAgrees
  <2> QED
    BY <2>1, <2>3, <2>4
<1> QED
  BY <1>5, <1>6, <1>7, <1>8, <1>9, <1>10, <1>11 DEF Next, Step

LEMMA RecordsInit == Init => RecordsInv
BY DEF Init, RecordsInv, Agree, Named, Wiring, Empty, Down

\* However settings, replacements, removals and switches interleave, the device, its user
\* and the user's settings agree on who uses the device; the settings unless a call came
\* between the steps of a switch (CE_Device.hpp:69-104, modTcp4Transmitter.cpp:106-127).
THEOREM DeviceRecordsStayRight == Spec => []DeviceRecordsAgree
<1>1. CodeInv /\ RecordsInv => DeviceRecordsAgree
  BY DEF RecordsInv, Agree, Named, Wiring, DeviceRecordsAgree, UsersAgree, SettingsFollow
<1>2. CodeInv /\ RecordsInv /\ [Next]_vars => (CodeInv /\ RecordsInv)'
  BY CodeStep, RecordsStep
<1>3. Spec => [](CodeInv /\ RecordsInv)
  BY CodeInit, RecordsInit, <1>2, PTL DEF Spec
<1> QED
  BY <1>1, <1>3, PTL

-----------------------------------------------------------------------------
(* What a switch that nobody disturbs makes of a file.                     *)

\* The device that autoLoad() makes of what the file describes.
Described(d) == IF cfg.devType[d] \in Broken THEN None ELSE cfg.devType[d]

\* What each stage of the switch has done.
StagesDone ==
    /\ Down => ~channel
    /\ pc \in {"modules", "load"} => _devices = Empty(Devices)
    /\ pc = "addDevices" => \A d \in Devices : _devices[d] = IF d \in todo THEN None ELSE Described(d)
    /\ pc = "addSegments" =>
           /\ \A d \in Devices : _devices[d] = Described(d)
           /\ \A h \in Segments : /\ _handlers[h] = IF h \in todo THEN None ELSE cfg.dllName[h]
                                  /\ _handlers[h] # None => device[h] = cfg.deviceName[h]

SwitchInv == _dllRegister \cap Broken = {} /\ (mishaps = {} => StagesDone)

LEMMA LoadIsSound ==
    ASSUME NEW m \in Modules, Load(m), _dllRegister \cap Broken = {}
    PROVE  _dllRegister' \cap Broken = {}
BY DEF Load, NewlyLoaded

LEMMA UnloadIsSound ==
    ASSUME NEW m \in Modules, Unload(m), _dllRegister \cap Broken = {}
    PROVE  _dllRegister' \cap Broken = {}
<1>1. _dllRegister' \subseteq _dllRegister
  BY DEF Unload
<1> QED
  BY <1>1

\* A call leaves a switch undisturbed only when none is under way.
LEMMA CallsSwitch == ASSUME CodeInv, SwitchInv, Calls PROVE SwitchInv'
<1>1. ASSUME NEW m \in Modules, LoadModule(m) \/ UnloadModule(m) PROVE _dllRegister' \cap Broken = {}
  BY <1>1, LoadIsSound, UnloadIsSound DEF LoadModule, UnloadModule, SwitchInv
<1>2. _dllRegister' \cap Broken = {}
  <2>1. CASE \E m \in Modules : LoadModule(m) \/ UnloadModule(m)
    BY <1>1, <2>1
  <2>2. CASE ~ \E m \in Modules : LoadModule(m) \/ UnloadModule(m)
    <3>1. UNCHANGED _dllRegister
      BY <2>2 DEF Calls, RefreshAvailable, AddChannel, RemoveChannel, AddDevice, RemoveDevice,
         RemoveSegment, ClearDevice, AddSegment, SetDevice, registry
    <3> QED
      BY <3>1 DEF SwitchInv
  <2> QED
    BY <2>1, <2>2
<1>3. UNCHANGED pc /\ (mishaps' = {} => pc = "idle")
  <2>1. Call
    BY DEF Calls, LoadModule, UnloadModule, RefreshAvailable, AddChannel, RemoveChannel, AddDevice,
       RemoveDevice, RemoveSegment, ClearDevice, AddSegment, SetDevice
  <2>2. Noted("lateCall") \/ "refreshed" \in mishaps'
    BY DEF Calls, LoadModule, UnloadModule, RefreshAvailable, AddChannel, RemoveChannel, AddDevice,
       RemoveDevice, RemoveSegment, ClearDevice, AddSegment, SetDevice
  <2> QED
    BY <2>1, <2>2 DEF Call, progress, Noted
<1> QED
  BY <1>2, <1>3 DEF SwitchInv, StagesDone, Down

\* The steps up to the reading of the file.
LEMMA TakeDownSwitch ==
    ASSUME CodeInv, RecordsInv, SwitchInv,
           SwitchToConfigFile \/ HandleSignal \/ RemoveChannels \/ RemoveDevices \/ UNCHANGED vars
    PROVE  SwitchInv'
<1>1. UNCHANGED <<_dllRegister, mishaps>>
  BY DEF SwitchToConfigFile, HandleSignal, Begin, RemoveChannels, RemoveDevices, vars, registry
<1>0. SUFFICES ASSUME StagesDone PROVE StagesDone'
  BY <1>1 DEF SwitchInv
<1>2. StagesDone
  BY <1>0
<1>3. CASE SwitchToConfigFile \/ HandleSignal
  BY <1>3 DEF SwitchToConfigFile, HandleSignal, Begin, StagesDone, Down
<1>4. CASE RemoveChannels
  BY <1>4 DEF RemoveChannels, Goto, DeleteChannel, objects, StagesDone, Down
<1>5. CASE RemoveDevices
  <2>1. UNCHANGED channel /\ ~channel /\ pc' \in {"devices", "modules"}
    <3>1. pc = "devices" /\ ~channel
      BY <1>2, <1>5 DEF RemoveDevices, StagesDone, Down
    <3>2. CASE Existing(_devices) # {}
      BY <1>5, <3>1, <3>2 DEF RemoveDevices, DeleteDevice, Goto
    <3>3. CASE Existing(_devices) = {}
      BY <1>5, <3>1, <3>3 DEF RemoveDevices, objects, Goto
    <3> QED
      BY <3>1, <3>2, <3>3
  <2>2. CASE pc' = "devices"
    BY <2>1, <2>2 DEF StagesDone, Down
  <2>3. CASE pc' = "modules"
    <3>1. Existing(_devices) = {} /\ UNCHANGED _devices
      BY <1>5, <2>3 DEF RemoveDevices, Goto, objects
    <3>2. _devices = Empty(Devices)
      BY <3>1 DEF CodeInv, TypeOK, Existing, Empty
    <3> QED
      BY <2>1, <2>3, <3>1, <3>2 DEF StagesDone
  <2> QED
    BY <2>1, <2>2, <2>3
<1>6. CASE UNCHANGED vars
  <2>1. UNCHANGED <<pc, todo, channel, cfg, device, _devices, _handlers>>
    BY <1>6 DEF vars, objects, use, progress
  <2>2. \A d \in Devices : Described(d)' = Described(d)
    BY <2>1 DEF Described
  <2> QED
    BY <1>2, <2>1, <2>2 DEF StagesDone, Down
<1> QED
  BY <1>3, <1>4, <1>5, <1>6

LEMMA ReadSwitch ==
    ASSUME CodeInv, SwitchInv, UnloadAll \/ LoadConfig \/ Unpause
    PROVE  SwitchInv'
<1>1. UNCHANGED <<mishaps, _devices, _handlers, device, channel>>
  BY DEF UnloadAll, LoadConfig, Unpause, objects, use
<1>2. _dllRegister' \cap Broken = {}
  <2>1. CASE UnloadAll
    <3>1. _dllRegister' \subseteq _dllRegister
      BY <2>1 DEF UnloadAll, Unload, registry
    <3> QED
      BY <3>1 DEF SwitchInv
  <2>2. CASE LoadConfig \/ Unpause
    BY <2>2 DEF LoadConfig, Unpause, registry, SwitchInv
  <2> QED
    BY <2>1, <2>2
<1>3. ASSUME StagesDone PROVE StagesDone'
  <2>1. CASE UnloadAll
    BY <1>1, <1>3, <2>1 DEF UnloadAll, Goto, StagesDone, Down
  <2>2. CASE Unpause
    BY <1>1, <1>3, <2>2 DEF Unpause, Goto, StagesDone, Down
  <2>3. CASE LoadConfig
    <3>1. CodeInv'
      BY <2>3, ReadKeeps
    <3>2. /\ pc = "load" /\ pc' = "addDevices" /\ todo' = Existing(cfg'.devType)
          /\ DOMAIN cfg'.devType = Devices
      BY <2>3, <3>1 DEF LoadConfig, Goto, CodeInv, TypeOK, Settings
    <3>3. ~channel' /\ \A d \in Devices : _devices'[d] = None
      BY <1>1, <1>3, <3>2 DEF StagesDone, Down, Empty
    <3>4. \A d \in Devices : d \notin todo' => cfg'.devType[d] = None
      BY <3>2 DEF Existing
    <3>5. \A d \in Devices : d \notin todo' => Described(d)' = None
      BY <3>4 DEF Described
    <3> QED
      BY <3>2, <3>3, <3>5 DEF StagesDone, Down
  <2> QED
    BY <2>1, <2>2, <2>3
<1> QED
  BY <1>1, <1>2, <1>3 DEF SwitchInv

\* autoLoad() makes one device more of those described, or passes over one of a module that
\* cannot be loaded; after the last it looks for the segments.
LEMMA AutoLoadDeviceSwitch ==
    ASSUME CodeInv, RecordsInv, SwitchInv, AutoLoadDevice
    PROVE  SwitchInv'
<1>1. UNCHANGED mishaps /\ pc = "addDevices"
  BY DEF AutoLoadDevice
<1>2. /\ None \notin Modules /\ Broken \subseteq Modules /\ \A d \in Devices : cfg.devType[d] \in NoneOr(DevModules)
      /\ todo \subseteq Devices /\ _dllRegister \cap Broken = {} /\ \A d \in Devices : Described(d) \in NoneOr(DevModules)
  BY <1>1, ServerAssumption DEF ServerAssumption, CodeInv, TypeOK, Settings, SwitchInv, Described, NoneOr
<1>3. CASE todo = {}
  <2>1. /\ pc' = "addSegments" /\ UNCHANGED <<_dllRegister, _devices, _handlers, device, cfg>>
        /\ todo' = IF channel THEN {} ELSE Existing(cfg.dllName)
    BY <1>1, <1>3 DEF AutoLoadDevice, Goto, registry, use
  <2>2. ASSUME StagesDone PROVE StagesDone'
    <3>1. ~channel /\ \A d \in Devices : _devices[d] = Described(d)
      BY <1>1, <1>3, <2>2 DEF StagesDone, Down
    <3>2. \A h \in Segments : _handlers[h] = None
      BY <3>1 DEF RecordsInv, Empty
    <3>3. todo' = Existing(cfg.dllName) /\ DOMAIN cfg.dllName = Segments
      BY <2>1, <3>1 DEF CodeInv, TypeOK, Settings
    <3>4. \A h \in Segments : h \notin todo' => cfg.dllName[h] = None
      BY <3>3 DEF Existing
    <3>5. \A d \in Devices : Described(d)' = Described(d)
      BY <2>1 DEF Described
    <3>6. \A d \in Devices : _devices'[d] = Described(d)'
      BY <2>1, <3>1, <3>5
    <3>7. \A h \in Segments : /\ _handlers'[h] = IF h \in todo' THEN None ELSE cfg'.dllName[h]
                              /\ _handlers'[h] = None
      BY <2>1, <3>2, <3>4
    <3> QED
      BY <2>1, <3>6, <3>7 DEF StagesDone, Down
  <2> QED
    BY <1>1, <1>2, <2>1, <2>2 DEF SwitchInv
<1>4. CASE todo # {}
  <2> DEFINE Known(d) == cfg.devType[d] # None /\ _devices[d] = None
  <2>1. PICK d \in todo :
           /\ todo' = todo \ {d} /\ pc' = "addDevices"
           /\ IF Known(d)
              THEN /\ Load(cfg.devType[d])
                   /\ IF cfg.devType[d] \in rpcRegistry' THEN CreateDevice(d, cfg.devType[d])
                      ELSE UNCHANGED <<objects, use, cfg>>
              ELSE UNCHANGED <<registry, objects, use, cfg>>
    BY <1>4 DEF AutoLoadDevice, Goto
  <2>2. d \in Devices
    BY <1>2
  <2>3. UNCHANGED channel /\ cfg'.devType = cfg.devType
    <3>1. CASE UNCHANGED <<objects, cfg>>
      BY <3>1 DEF objects
    <3>2. CASE CreateDevice(d, cfg.devType[d])
      BY <2>2, <3>2 DEF CreateDevice, CodeInv, TypeOK, Settings
    <3> QED
      BY <2>1, <3>1, <3>2
  <2>4. \A e \in Devices : Described(e)' = Described(e)
    BY <2>3 DEF Described
  <2>5. ASSUME Known(d)
        PROVE  /\ _dllRegister' \cap Broken = {}
               /\ \A e \in Devices : _devices'[e] = IF e = d THEN Described(d) ELSE _devices[e]
    <3> DEFINE m == cfg.devType[d]
    <3>1. m \in DevModules /\ m \in Modules /\ Load(m)
      BY <1>2, <2>1, <2>2, <2>5 DEF NoneOr, Modules
    <3>2. _dllRegister' \cap Broken = {}
      BY <1>2, <3>1, LoadIsSound
    <3>3. rpcRegistry' = _dllRegister'
      BY <1>1, <3>1, LoadKeeps DEF CodeInv, MethodsHaveCode
    <3>4. m \in _dllRegister' <=> m \notin Broken
      <4>1. DepsOf(m) = {}
        BY <3>1, ServerAssumption DEF DepsOf, ServerAssumption
      <4> QED
        BY <3>1, <3>2, <4>1 DEF Load, NewlyLoaded
    <3>5. CASE m \in Broken
      <4>1. UNCHANGED _devices /\ Described(d) = None
        BY <2>1, <2>5, <3>3, <3>4, <3>5 DEF objects, Described
      <4> QED
        BY <2>5, <3>2, <4>1
    <3>6. CASE m \notin Broken
      <4>1. CreateDevice(d, m) /\ Described(d) = m
        BY <2>1, <2>5, <3>3, <3>4, <3>6 DEF Described
      <4>2. _devices' = [_devices EXCEPT ![d] = m]
        BY <2>5, <4>1 DEF CreateDevice
      <4> QED
        BY <2>2, <3>2, <4>1, <4>2 DEF CodeInv, TypeOK
    <3> QED
      BY <3>5, <3>6
  <2>6. ASSUME ~Known(d) PROVE UNCHANGED <<_dllRegister, _devices>>
    BY <2>1, <2>6 DEF registry, objects
  <2>7. _dllRegister' \cap Broken = {}
    BY <1>2, <2>5, <2>6
  <2>8. ASSUME StagesDone PROVE StagesDone'
    <3>1. ~channel' /\ \A e \in Devices : _devices[e] = IF e \in todo THEN None ELSE Described(e)
      BY <1>1, <2>3, <2>8 DEF StagesDone, Down
    <3>2. \A e \in Devices : _devices'[e] = IF e = d THEN Described(d) ELSE _devices[e]
      <4>1. CASE ~Known(d)
        <5>1. _devices[d] = None
          BY <2>1, <2>2, <3>1
        <5>2. Described(d) = None
          BY <1>2, <4>1, <5>1 DEF Described
        <5> QED
          BY <2>6, <4>1, <5>1, <5>2
      <4> QED
        BY <2>5, <4>1
    <3>3. \A e \in Devices : _devices'[e] = IF e \in todo' THEN None ELSE Described(e)'
      BY <2>1, <2>4, <3>1, <3>2
    <3> QED
      BY <2>1, <3>1, <3>3 DEF StagesDone, Down
  <2> QED
    BY <1>1, <2>7, <2>8 DEF SwitchInv
<1> QED
  BY <1>3, <1>4

\* Exactly what connecting changes.
LEMMA ConnectIs ==
    ASSUME NEW w \in Wirings, NEW h \in Segments, NEW d \in Devices, NEW i \in Sides
    PROVE  \A s \in Segments :
             /\ ConnectDevice(w, i, h, d).device[s] =
                   IF s = h THEN d ELSE IF s = w.user[i][d] THEN None ELSE w.device[s]
             /\ ConnectDevice(w, i, h, d).deviceName[s] = IF s = w.user[i][d] THEN None ELSE w.deviceName[s]
BY DEF ConnectDevice, SetUser, Wirings

\* A segment that is created takes its device as the settings say, and the user there was has
\* neither the device nor the setting any more.
LEMMA CreateSegmentConnects ==
    ASSUME CodeInv, RecordsInv, NEW h \in Segments, _handlers[h] = None, NEW m \in SegModules,
           CreateSegment(h, m), ~NoSuchDevice(h),
           \A s \in Segments : _handlers[s] # None => device[s] = cfg.deviceName[s]
    PROVE  \A s \in Segments : _handlers'[s] # None => device'[s] = cfg'.deviceName[s]
<1> DEFINE d == cfg.deviceName[h]
           w == IF d = None \/ NoSuchDevice(h) THEN Wiring ELSE ConnectDevice(Wiring, Side[m], h, d)
<1>1. /\ _handlers' = [_handlers EXCEPT ![h] = m] /\ device' = w.device
      /\ cfg' = [cfg EXCEPT !.dllName[h] = m, !.deviceName = w.deviceName]
  BY DEF CreateSegment
<1>2. cfg'.deviceName = w.deviceName
  BY <1>1 DEF CodeInv, TypeOK, Settings
<1>3. device[h] = None /\ d \in NoneOr(Devices)
  BY DEF RecordsInv, Agree, Wiring, CodeInv, TypeOK, Settings
<1>4. \A s \in Segments : _handlers'[s] # None => s = h \/ _handlers[s] # None
  BY <1>1 DEF CodeInv, TypeOK
<1>5. CASE d = None
  <2>1. w = Wiring
    BY <1>5
  <2>2. w.device = device /\ w.deviceName = cfg.deviceName
    BY <2>1 DEF Wiring
  <2> QED
    BY <1>1, <1>2, <1>3, <1>4, <1>5, <2>2
<1>6. CASE d # None
  <2> DEFINE o == user[Side[m]][d]
  <2>1. d \in Devices /\ Side[m] \in Sides /\ Wiring \in Wirings
    BY <1>3, <1>6, ServerAssumption, WiringType DEF NoneOr, Sides, ServerAssumption, CodeInv
  <2>2. w = ConnectDevice(Wiring, Side[m], h, d)
    BY <1>6
  <2>3. \A s \in Segments : /\ w.device[s] = IF s = h THEN d ELSE IF s = o THEN None ELSE device[s]
                            /\ w.deviceName[s] = IF s = o THEN None ELSE cfg.deviceName[s]
    <3>1. Wiring.user = user /\ Wiring.device = device /\ Wiring.deviceName = cfg.deviceName
      BY DEF Wiring
    <3> QED
      BY <2>1, <2>2, <3>1, ConnectIs
  <2>4. o # h
    <3>1. h # None /\ d # None
      BY <1>6, ServerAssumption DEF ServerAssumption
    <3> QED
      BY <1>3, <2>1, <3>1 DEF RecordsInv, Agree, Wiring
  <2> HIDE DEF w, o
  <2>5. w.device[h] = d /\ w.deviceName[h] = d
    BY <2>3, <2>4
  <2> QED
    BY <1>1, <1>2, <1>4, <2>3, <2>5
<1> QED
  BY <1>5, <1>6

LEMMA AutoLoadSegmentSwitch ==
    ASSUME CodeInv, RecordsInv, SwitchInv, AutoLoadSegment
    PROVE  SwitchInv'
<1> DEFINE Fits(h) == _handlers[h] = None /\ channel
<1>1. PICK h \in todo :
         IF cfg.dllName[h] = None
         THEN Abandon("lateCall") /\ UNCHANGED <<registry, objects, use, cfg>>
         ELSE /\ Load(cfg.dllName[h])
              /\ IF cfg.dllName[h] \notin _dllRegister'
                 THEN Abandon("noModule") /\ UNCHANGED <<objects, use, cfg>>
                 ELSE IF ~Fits(h)
                 THEN Abandon("lateCall") /\ UNCHANGED <<objects, use, cfg>>
                 ELSE /\ CreateSegment(h, cfg.dllName[h])
                      /\ IF NoSuchDevice(h) THEN Abandon("noDevice")
                         ELSE todo' = todo \ {h} /\ Goto("addSegments") /\ UNCHANGED <<paused, mishaps>>
  BY DEF AutoLoadSegment
<1> DEFINE m == cfg.dllName[h]
<1>2. pc = "addSegments" /\ h \in Segments /\ (m # None => m \in SegModules /\ m \in Modules)
      /\ _dllRegister \cap Broken = {}
  BY DEF AutoLoadSegment, CodeInv, TypeOK, Settings, NoneOr, Modules, SwitchInv
<1>3. _dllRegister' \cap Broken = {}
  <2>1. CASE m = None
    BY <1>1, <1>2, <2>1 DEF registry
  <2>2. CASE m # None
    BY <1>1, <1>2, <2>2, LoadIsSound
  <2> QED
    BY <2>1, <2>2
<1>4. ASSUME mishaps' = {}
      PROVE  /\ m # None /\ _handlers[h] = None /\ CreateSegment(h, m) /\ ~NoSuchDevice(h)
             /\ todo' = todo \ {h} /\ pc' = "addSegments" /\ mishaps = {}
  BY <1>1, <1>4 DEF Abandon, Goto
<1>5. ASSUME mishaps' = {} PROVE StagesDone'
  <2>1. /\ m # None /\ _handlers[h] = None /\ CreateSegment(h, m) /\ ~NoSuchDevice(h)
        /\ todo' = todo \ {h} /\ pc' = "addSegments" /\ mishaps = {}
    BY <1>4, <1>5
  <2>2. /\ \A d \in Devices : _devices[d] = Described(d)
        /\ \A s \in Segments : _handlers[s] = IF s \in todo THEN None ELSE cfg.dllName[s]
        /\ \A s \in Segments : _handlers[s] # None => device[s] = cfg.deviceName[s]
    BY <1>2, <2>1 DEF SwitchInv, StagesDone
  <2>3. /\ UNCHANGED _devices /\ _handlers' = [_handlers EXCEPT ![h] = m] /\ cfg'.devType = cfg.devType
        /\ cfg'.dllName = [cfg.dllName EXCEPT ![h] = m]
    BY <2>1 DEF CreateSegment, CodeInv, TypeOK, Settings
  <2>4. cfg'.dllName = cfg.dllName /\ \A s \in Segments : _handlers'[s] = IF s = h THEN m ELSE _handlers[s]
    BY <1>2, <2>3 DEF CodeInv, TypeOK, Settings
  <2>5. \A d \in Devices : _devices'[d] = Described(d)'
    BY <2>2, <2>3 DEF Described
  <2>6. \A s \in Segments : _handlers'[s] = IF s \in todo' THEN None ELSE cfg'.dllName[s]
    BY <2>1, <2>2, <2>4
  <2>7. \A s \in Segments : _handlers'[s] # None => device'[s] = cfg'.deviceName[s]
    BY <1>2, <2>1, <2>2, CreateSegmentConnects
  <2> QED
    BY <2>1, <2>5, <2>6, <2>7 DEF StagesDone, Down
<1> QED
  BY <1>3, <1>5 DEF SwitchInv

LEMMA SwitchStep == CodeInv /\ RecordsInv /\ SwitchInv /\ [Next]_vars => SwitchInv'
BY CallsSwitch, TakeDownSwitch, ReadSwitch, AutoLoadDeviceSwitch, AutoLoadSegmentSwitch DEF Next, Step

LEMMA SwitchInit == Init => SwitchInv
BY DEF Init, SwitchInv, StagesDone, Down

\* For all files, those with devices or segments whose modules cannot be loaded, with several
\* segments for one device or with settings nothing uses included: a switch that was neither
\* disturbed nor abandoned ends with the devices, segments and connections of the file
\* (switchToConfigFile(), the autoLoad() of devices and channels).
THEOREM SwitchKeepsToFile == Spec => []SwitchedAsWritten
<1>1. CodeInv /\ RecordsInv /\ SwitchInv => SwitchedAsWritten
  <2> SUFFICES ASSUME CodeInv, RecordsInv, SwitchInv, pc = "addSegments", todo = {}, mishaps = {}
               PROVE  /\ _handlers = cfg.dllName
                      /\ \A h \in Segments : device[h] = IF _handlers[h] = None THEN None ELSE cfg.deviceName[h]
                      /\ \A d \in Devices : _devices[d] = IF cfg.devType[d] \in Broken THEN None ELSE cfg.devType[d]
    BY DEF SwitchedAsWritten
  <2>1. StagesDone
    BY DEF SwitchInv
  <2>2. _handlers = cfg.dllName
    BY <2>1 DEF StagesDone, CodeInv, TypeOK, Settings
  <2>3. \A h \in Segments : _handlers[h] = None => device[h] = None
    BY DEF RecordsInv, Agree, Wiring
  <2>4. \A d \in Devices : _devices[d] = IF cfg.devType[d] \in Broken THEN None ELSE cfg.devType[d]
    BY <2>1 DEF StagesDone, Described
  <2> QED
    BY <2>1, <2>2, <2>3, <2>4 DEF StagesDone
<1>2. CodeInv /\ RecordsInv /\ SwitchInv /\ [Next]_vars => (CodeInv /\ RecordsInv /\ SwitchInv)'
  BY CodeStep, RecordsStep, SwitchStep
<1>3. Spec => [](CodeInv /\ RecordsInv /\ SwitchInv)
  BY CodeInit, RecordsInit, SwitchInit, <1>2, PTL DEF Spec
<1> QED
  BY <1>1, <1>3, PTL
-----------------------------------------------------------------------------
(* The requests of the HTTP server, of clients that await each answer.     *)

\* The i-th piece of a request, and how many it has.
PieceAt(k, r, i) ==
    Piece(k, IF i = 1 THEN "me" ELSE IF i = 2 THEN "thod" ELSE IF i = 3 THEN "target"
             ELSE IF i = 4 THEN IF r.lines THEN "headers" ELSE "blank" ELSE "body")
Latest(c) == Len(sent[c])
Size(c)   == IF sent[c] = <<>> THEN 0 ELSE 4 + sent[c][Latest(c)].body
Left(c, j) == Size(c) - j - Len(rawReq_[c])

\* j pieces of the latest request are used up: those read follow, and then those on their way.
Follows(c, j) ==
    /\ j \in 0..Size(c) /\ Left(c, j) >= 0
    /\ \/ Len(wire[c]) = Left(c, j)
       \/ Len(wire[c]) = Left(c, j) + 1 /\ wire[c][Left(c, j) + 1] = End
    /\ \A i \in 1..Len(rawReq_[c]) : rawReq_[c][i] = PieceAt(Latest(c), sent[c][Latest(c)], j + i)
    /\ \A i \in 1..Left(c, j) :
           wire[c][i] = PieceAt(Latest(c), sent[c][Latest(c)], j + Len(rawReq_[c]) + i)

\* What was read is kept only if it begins with a line; without the beginning of the method's
\* name, the line had come in two reads.  A request that is complete is all that has come.
Kept(c, j) ==
    /\ j = 1 => Latest(c) \in cut[c]
    /\ rawReq_[c] # <<>> => j \in {0, 1} /\ j + Len(rawReq_[c]) >= 3
    /\ stage[c] # "idle" => rawReq_[c] # <<>> /\ Left(c, j) = 0

\* As long as anything of the latest request is not used up, it is not answered, nor done before
\* it is handled.
Below(s, k) == \A i \in DOMAIN s : s[i].of < k
Awaited(c, j) ==
    j < Size(c) =>
        /\ Len(answers[c]) < Latest(c) /\ Below(answers[c], Latest(c))
        /\ stage[c] \in {"idle", "handling"} => Below(handled[c], Latest(c))

At(c, j) == Follows(c, j) /\ Kept(c, j) /\ Awaited(c, j)

\* A request as it was parsed.
AsAsked(c, h) ==
    /\ h.of \in 1..Latest(c)
    /\ h.of \notin cut[c] => h.method = sent[c][h.of].method
    /\ h.body = [b \in 1..sent[c][h.of].body |-> Piece(h.of, "body")]

\* The request a thread is on is the latest; it is the last done, from HttpManager on.
Busy(c) ==
    stage[c] # "idle" =>
        /\ conn[c] = "open" /\ req[c].of = Latest(c) /\ AsAsked(c, req[c])
        /\ stage[c] # "handling" => handled[c] # <<>> /\ handled[c][Len(handled[c])] = req[c]
        /\ stage[c] \in {"opening", "writing"} => Asked(c).file # ""

Done(c) ==
    /\ \A i \in DOMAIN handled[c] : AsAsked(c, handled[c][i])
    /\ Increasing(handled[c]) /\ Increasing(answers[c])
    /\ Below(answers[c], Latest(c) + 1) /\ Len(answers[c]) <= Latest(c)

Served(c) == Busy(c) /\ Done(c) /\ (conn[c] # "closed" => \E j \in Nat : At(c, j))
ServedInv == HttpTypeOK /\ \A c \in Clients : Served(c)

\* A file that several uploads did not have open at once has one writer at most, is empty before
\* that one writes, and its own after.
Alone(f) ==
    /\ \A c, d \in Clients : /\ stage[c] = "writing" /\ Asked(c).file = f
                             /\ stage[d] = "writing" /\ Asked(d).file = f
                             => c = d
    /\ Writing(f) => files[f] = <<>>
    /\ ~Writing(f) => OneUpload(f)

\* Any file is empty before it is written, or begins with an upload and is nothing but such.
Layered(f) == (Writing(f) /\ files[f] = <<>>) \/ (BeginsWhole(f) /\ InPlace(f))

FilesInv ==
    /\ \A f \in DOMAIN files : Layered(f) /\ (f \notin mixed => Alone(f))
    /\ \A c \in Clients : stage[c] = "writing" => Asked(c).file \in DOMAIN files

-----------------------------------------------------------------------------
(* What the definitions mean.                                              *)

LEMMA Ready == \A r \in Requests : /\ r \in RequestTypes /\ r.body \in Nat /\ r.lines \in BOOLEAN
                                   /\ r.method \in {"POST", "GET", "PUT"}
                                   /\ ~r.lines => r.body = 0
BY ClientAssumption DEF ClientAssumption, RequestTypes

LEMMA CellsType ==
    ASSUME NEW S, NEW n \in Nat, NEW f \in [1..n -> S]
    PROVE  f \in Seq(S) /\ Len(f) = n /\ DOMAIN f = 1..n
OBVIOUS

LEMMA JoinIs ==
    ASSUME NEW S, NEW s \in Seq(S), NEW t \in Seq(S)
    PROVE  /\ s \o t \in Seq(S) /\ Len(s \o t) = Len(s) + Len(t)
           /\ \A i \in 1..Len(s) : (s \o t)[i] = s[i]
           /\ \A i \in 1..Len(t) : (s \o t)[Len(s) + i] = t[i]
OBVIOUS

LEMMA Bounds == MaxRequests \in Nat /\ Threads \in Nat /\ IsFiniteSet(Clients)
BY ClientAssumption, Zenon DEF ClientAssumption

LEMMA PiecesAre ==
    ASSUME NEW k \in Nat, NEW r \in Requests
    PROVE  /\ Pieces(k, r) \in Seq([of : {k}, part : Parts])
           /\ Len(Pieces(k, r)) = 4 + r.body
           /\ \A i \in 1..4 + r.body : Pieces(k, r)[i] = PieceAt(k, r, i)
<1> DEFINE first == <<Piece(k, "me"), Piece(k, "thod"), Piece(k, "target"),
                      Piece(k, IF r.lines THEN "headers" ELSE "blank")>>
           rest  == [i \in 1..r.body |-> Piece(k, "body")]
           S     == [of : {k}, part : Parts]
<1>1. r.body \in Nat
  BY Ready
<1>a. \A p \in Parts : Piece(k, p) \in S
  BY DEF Piece
<1>b. {"me", "thod", "target", "headers", "blank", "body"} \subseteq Parts
  BY DEF Parts
<1>4. \A i \in 1..4 : first[i] = PieceAt(k, r, i)
  BY DEF PieceAt
<1>5. \A i \in 1..r.body : rest[i] = PieceAt(k, r, 4 + i)
  BY <1>1 DEF PieceAt
<1>6. Pieces(k, r) = first \o rest
  BY DEF Pieces
<1> HIDE DEF S
<1>2. first \in Seq(S) /\ Len(first) = 4
  BY <1>a, <1>b
<1>c. rest \in [1..r.body -> S]
  BY <1>a, <1>b
<1>3. rest \in Seq(S) /\ Len(rest) = r.body
  BY <1>1, <1>c, CellsType
<1> HIDE DEF first, rest
<1> DEFINE n == r.body
<1> HIDE DEF n
<1>d. n \in Nat /\ n = r.body
  BY <1>1 DEF n
<1> DEFINE cat == first \o rest
<1>e. /\ Len(cat) = Len(first) + Len(rest) /\ cat \in Seq(S)
      /\ \A i \in 1..Len(first) : cat[i] = first[i]
      /\ \A i \in 1..Len(rest) : cat[Len(first) + i] = rest[i]
  <2>1. first \in Seq(S)
    BY <1>2
  <2>2. rest \in Seq(S)
    BY <1>3
  <2>3. cat \in Seq(S) /\ Len(cat) = Len(first) + Len(rest)
    BY <2>1, <2>2
  <2>4. \A i \in 1..Len(first) : cat[i] = first[i]
    BY <2>1, <2>2
  <2>5. \A i \in 1..Len(rest) : cat[Len(first) + i] = rest[i]
    BY <2>1, <2>2
  <2> QED
    BY <2>3, <2>4, <2>5
<1> HIDE DEF cat
<1>7. \A i \in 1..4 + n : cat[i] = PieceAt(k, r, i)
  <2> TAKE i \in 1..4 + n
  <2>1. CASE i <= 4
    <3>1. i \in 1..4
      BY <1>d, <2>1
    <3> QED
      BY <1>2, <1>e, <1>4, <3>1
  <2>2. CASE i > 4
    <3>1. i - 4 \in 1..n /\ i = 4 + (i - 4)
      BY <1>d, <2>2
    <3>2. cat[4 + (i - 4)] = rest[i - 4]
      BY <1>2, <1>3, <1>d, <1>e, <3>1
    <3>3. rest[i - 4] = PieceAt(k, r, 4 + (i - 4))
      BY <3>1, <1>5, <1>d
    <3> QED
      BY <3>1, <3>2, <3>3
  <2>3. i <= 4 \/ i > 4
    BY <1>d
  <2> QED
    BY <2>1, <2>2, <2>3
<1>8. Pieces(k, r) = cat /\ Len(cat) = 4 + n
  BY <1>2, <1>3, <1>6, <1>d, <1>e DEF cat
<1> QED
  BY <1>d, <1>e, <1>7, <1>8 DEF S

LEMMA PieceType ==
    ASSUME NEW k \in 1..MaxRequests, NEW r \in Requests, NEW i \in Nat
    PROVE  PieceAt(k, r, i) \in AllPieces /\ PieceAt(k, r, i).of = k /\ PieceAt(k, r, i) # End
BY ClientAssumption DEF PieceAt, Piece, AllPieces, Parts, End, ClientAssumption

LEMMA PartIs ==
    ASSUME NEW k, NEW r, NEW i \in Nat \ {0}
    PROVE  /\ PieceAt(k, r, i).part = "me" <=> i = 1
           /\ PieceAt(k, r, i).part = "thod" <=> i = 2
           /\ PieceAt(k, r, i).part = "target" <=> i = 3
           /\ PieceAt(k, r, i).part = "headers" <=> (i = 4 /\ r.lines)
           /\ i > 4 => PieceAt(k, r, i) = Piece(k, "body")
BY DEF PieceAt, Piece

\* The pieces of a request from the one behind the j-th.
From(raw, k, r, j) == \A i \in 1..Len(raw) : raw[i] = PieceAt(k, r, j + i)

\* A line is seen only from the first piece, or from the second.
LEMMA LineIs ==
    ASSUME NEW k, NEW r, NEW j \in Nat, NEW raw \in Seq(AllPieces), From(raw, k, r, j)
    PROVE  /\ LineLen(raw) \in {0, 2, 3}
           /\ LineLen(raw) = 3 <=> (j = 0 /\ Len(raw) >= 3)
           /\ LineLen(raw) = 2 <=> (j = 1 /\ Len(raw) >= 2)
<1> DEFINE parts == PartsOf(raw)
           whole == <<"me", "thod", "target">>
           rest  == <<"thod", "target">>
<1>1. Len(raw) \in Nat /\ DOMAIN raw = 1..Len(raw)
  OBVIOUS
<1>d. \A x \in AllPieces : x.part \in Parts
  BY DEF AllPieces
<1>a. \A i \in 1..Len(raw) : raw[i] \in AllPieces /\ raw[i].part \in Parts
  BY <1>1, <1>d
<1>b. parts \in [1..Len(raw) -> Parts] /\ \A i \in 1..Len(raw) : parts[i] = raw[i].part
  BY <1>1, <1>a DEF PartsOf
<1>c. \A i \in 1..Len(raw) : raw[i].part = PieceAt(k, r, j + i).part
  BY DEF From
<1>2. parts \in Seq(Parts) /\ Len(parts) = Len(raw)
      /\ \A i \in 1..Len(raw) : parts[i] = PieceAt(k, r, j + i).part
  BY <1>1, <1>b, <1>c, CellsType
<1>3. IsPrefix(whole, parts) <=> (Len(raw) >= 3 /\ parts[1] = "me" /\ parts[2] = "thod" /\ parts[3] = "target")
  BY <1>1, <1>2 DEF IsPrefix
<1>4. IsPrefix(rest, parts) <=> (Len(raw) >= 2 /\ parts[1] = "thod" /\ parts[2] = "target")
  BY <1>1, <1>2 DEF IsPrefix
<1>5. Len(raw) >= 2 => /\ parts[1] = "me" <=> j = 0
                       /\ parts[1] = "thod" <=> j = 1
                       /\ parts[2] = "thod" <=> j = 0
                       /\ parts[2] = "target" <=> j = 1
  <2> SUFFICES ASSUME Len(raw) >= 2
           PROVE  /\ parts[1] = "me" <=> j = 0
                  /\ parts[1] = "thod" <=> j = 1
                  /\ parts[2] = "thod" <=> j = 0
                  /\ parts[2] = "target" <=> j = 1
    OBVIOUS
  <2>1. parts[1] = PieceAt(k, r, j + 1).part /\ parts[2] = PieceAt(k, r, j + 2).part
    BY <1>1, <1>2
  <2>2. /\ PieceAt(k, r, j + 1).part = "me" <=> j + 1 = 1
        /\ PieceAt(k, r, j + 1).part = "thod" <=> j + 1 = 2
    BY PartIs
  <2>3. /\ PieceAt(k, r, j + 2).part = "thod" <=> j + 2 = 2
        /\ PieceAt(k, r, j + 2).part = "target" <=> j + 2 = 3
    BY PartIs
  <2> HIDE DEF parts
  <2> QED
    BY <2>1, <2>2, <2>3
<1>6. Len(raw) >= 3 /\ j = 0 => parts[3] = "target"
  <2>1. Len(raw) >= 3 => parts[3] = PieceAt(k, r, j + 3).part
    BY <1>1, <1>2
  <2>2. PieceAt(k, r, j + 3).part = "target" <=> j + 3 = 3
    BY PartIs
  <2> HIDE DEF parts
  <2> QED
    BY <2>1, <2>2
<1>7. LineLen(raw) = IF IsPrefix(whole, parts) THEN 3 ELSE IF IsPrefix(rest, parts) THEN 2 ELSE 0
  BY DEF LineLen
<1> HIDE DEF parts, whole, rest
<1> QED
  BY <1>1, <1>3, <1>4, <1>5, <1>6, <1>7

\* The end of the header is the fourth piece.
LEMMA HeaderIs ==
    ASSUME NEW k, NEW r, NEW j \in {0, 1}, NEW raw \in Seq(AllPieces), From(raw, k, r, j)
    PROVE  /\ r.lines /\ Len(raw) >= 4 - j => HeaderLen(raw) = 4 - j
           /\ ~(r.lines /\ Len(raw) >= 4 - j) => HeaderLen(raw) = 0
<1> DEFINE ends == {i \in DOMAIN raw : raw[i].part = "headers"}
<1>1. Len(raw) \in Nat /\ DOMAIN raw = 1..Len(raw)
  OBVIOUS
<1>2. \A i \in 1..Len(raw) : raw[i].part = "headers" <=> (j + i = 4 /\ r.lines)
  <2> TAKE i \in 1..Len(raw)
  <2>1. raw[i] = PieceAt(k, r, j + i)
    BY DEF From
  <2>2. j + i \in Nat \ {0}
    BY <1>1
  <2>3. PieceAt(k, r, j + i).part = "headers" <=> (j + i = 4 /\ r.lines)
    BY <2>2, PartIs
  <2> QED
    BY <2>1, <2>3
<1>3. CASE r.lines /\ Len(raw) >= 4 - j
  <2>1. ends = {4 - j}
    BY <1>1, <1>2, <1>3
  <2> QED
    BY <2>1, <1>3 DEF HeaderLen
<1>4. CASE ~(r.lines /\ Len(raw) >= 4 - j)
  <2>1. ends = {}
    BY <1>1, <1>2, <1>4
  <2> QED
    BY <2>1, <1>4 DEF HeaderLen
<1> QED
  BY <1>3, <1>4

LEMMA ParsedType ==
    ASSUME NEW k \in 0..MaxRequests, NEW m \in {"", "POST", "GET", "PUT"}, NEW b \in Seq(AllPieces)
    PROVE  [of |-> k, method |-> m, body |-> b] \in Parsed
BY DEF Parsed

\* A request that is complete is all there is of it, and it is parsed as it was asked.
LEMMA ParsedAsAsked ==
    ASSUME NEW c \in Clients, sent \in [Clients -> Seq(Requests)],
           NEW k \in 1..Len(sent[c]), Len(sent[c]) <= MaxRequests,
           NEW j \in {0, 1}, NEW raw \in Seq(AllPieces), raw # <<>>, From(raw, k, sent[c][k], j),
           WholeContent(c, raw), Len(raw) <= 4 + sent[c][k].body - j, LineLen(raw) > 0
    PROVE  /\ Len(raw) = 4 + sent[c][k].body - j
           /\ Parse(c, raw).of = k
           /\ j = 0 => Parse(c, raw).method = sent[c][k].method
           /\ Parse(c, raw).body = [b \in 1..sent[c][k].body |-> Piece(k, "body")]
           /\ Parse(c, raw) \in Parsed
<1> DEFINE r == sent[c][k]
<1> DEFINE n == r.body
<1>a. r \in Requests
  OBVIOUS
<1>b. k \in 1..MaxRequests
  <2>1. Len(sent[c]) \in Nat /\ MaxRequests \in Nat
    BY Bounds
  <2> QED
    BY <2>1
<1>1. r \in Requests /\ n \in Nat /\ k \in 1..MaxRequests /\ r.method \in {"POST", "GET", "PUT"}
  BY Ready, <1>a, <1>b
<1>2. Len(raw) \in Nat \ {0} /\ DOMAIN raw = 1..Len(raw)
  OBVIOUS
<1>3. raw[1].of = k
  <2>1. raw[1] = PieceAt(k, r, j + 1)
    BY <1>2 DEF From
  <2> QED
    BY <1>1, <2>1, PieceType
<1>4. HeaderLen(raw) > 0 /\ Len(raw) - HeaderLen(raw) >= n
  BY <1>3 DEF WholeContent
<1>5. HeaderLen(raw) = 4 - j
  <2>1. /\ r.lines /\ Len(raw) >= 4 - j => HeaderLen(raw) = 4 - j
        /\ ~(r.lines /\ Len(raw) >= 4 - j) => HeaderLen(raw) = 0
    BY HeaderIs
  <2> QED
    BY <1>4, <2>1
<1>6. Len(raw) = 4 + n - j
  BY <1>1, <1>2, <1>4, <1>5
<1>7. LineLen(raw) = 3 <=> j = 0
  BY LineIs, <1>2
<1> DEFINE content == IF n = 0 THEN <<>> ELSE SubSeq(raw, HeaderLen(raw) + 1, Len(raw))
<1>8. content = [b \in 1..n |-> Piece(k, "body")]
  <2>1. CASE n = 0
    BY <2>1
  <2>2. CASE n # 0
    <3>1. content = SubSeq(raw, 5 - j, Len(raw))
      BY <1>5, <2>2
    <3>a. n \in Nat /\ Len(raw) = 4 + n - j
      BY <1>1, <1>6
    <3>2. SubSeq(raw, 5 - j, Len(raw)) = [b \in 1..n |-> raw[4 - j + b]]
      <4> HIDE DEF n, r, content
      <4>1. SubSeq(raw, 5 - j, Len(raw)) \in Seq(AllPieces) /\ Len(SubSeq(raw, 5 - j, Len(raw))) = n
            /\ \A b \in 1..n : SubSeq(raw, 5 - j, Len(raw))[b] = raw[4 - j + b]
        BY <1>2, <3>a
      <4> DEFINE sub == SubSeq(raw, 5 - j, Len(raw))
      <4>2. sub = [b \in 1..Len(sub) |-> sub[b]]
        <5> HIDE DEF sub
        <5>1. sub \in Seq(AllPieces)
          BY <4>1 DEF sub
        <5> QED
          BY <5>1
      <4> QED
        BY <4>1, <4>2
    <3>3. \A b \in 1..n : raw[4 - j + b] = Piece(k, "body")
      <4> TAKE b \in 1..n
      <4>1. 4 - j + b \in 1..Len(raw) /\ j + (4 - j + b) = 4 + b
        BY <1>1, <1>6
      <4>2. raw[4 - j + b] = PieceAt(k, r, 4 + b)
        BY <4>1 DEF From
      <4>3. PieceAt(k, r, 4 + b) = Piece(k, "body")
        BY PartIs, <1>1
      <4> QED
        BY <4>2, <4>3
    <3> HIDE DEF content, r, n
    <3> QED
      BY <3>1, <3>2, <3>3
  <2> QED
    BY <2>1, <2>2
<1>9. content \in Seq(AllPieces)
  <2>1. Piece(k, "body") \in AllPieces
    BY <1>1 DEF Piece, AllPieces, Parts
  <2> HIDE DEF content, r, n
  <2>2. content \in [1..n -> AllPieces]
    BY <1>8, <2>1
  <2> QED
    BY <1>1, <2>2, CellsType
<1> DEFINE method == IF j = 0 THEN r.method ELSE ""
<1>10. Parse(c, raw) = [of |-> k, method |-> method, body |-> content]
  BY <1>3, <1>7 DEF Parse
<1>a1. method \in {"", "POST", "GET", "PUT"} /\ (j = 0 => method = r.method)
  BY <1>1
<1>a2. k \in 0..MaxRequests
  BY <1>1, Bounds
<1> HIDE DEF content, method
<1>11. Parse(c, raw) \in Parsed
  <2>1. [of |-> k, method |-> method, body |-> content] \in Parsed
    BY <1>9, <1>a1, <1>a2, ParsedType
  <2> QED
    BY <1>10, <2>1
<1>12. Parse(c, raw).of = k /\ Parse(c, raw).method = method /\ Parse(c, raw).body = content
  BY <1>10
<1> QED
  BY <1>6, <1>8, <1>11, <1>12, <1>a1
-----------------------------------------------------------------------------
(* Each action keeps to what is asked.                                     *)

\* Nothing happens to a client's connection, requests and answers.
Untouched(c) ==
    /\ conn'[c] = conn[c] /\ sent'[c] = sent[c] /\ wire'[c] = wire[c] /\ rawReq_'[c] = rawReq_[c]
    /\ stage'[c] = stage[c] /\ req'[c] = req[c]
    /\ handled'[c] = handled[c] /\ answers'[c] = answers[c] /\ cut'[c] = cut[c]

LEMMA SizeType ==
    ASSUME HttpTypeOK, NEW c \in Clients
    PROVE  /\ Size(c) \in Nat /\ Latest(c) \in Nat /\ Len(rawReq_[c]) \in Nat /\ Len(wire[c]) \in Nat
           /\ \A j \in Nat : Left(c, j) \in Int
           /\ Latest(c) > 0 => sent[c][Latest(c)] \in Requests /\ Size(c) = 4 + sent[c][Latest(c)].body
           /\ Size(c) > 0 => Latest(c) > 0 /\ sent[c] # <<>>
<1>1. sent[c] \in Seq(Requests) /\ rawReq_[c] \in Seq(AllPieces) /\ wire[c] \in Seq(AllPieces \cup {End})
  BY DEF HttpTypeOK
<1>2. Latest(c) \in Nat /\ Len(rawReq_[c]) \in Nat /\ Len(wire[c]) \in Nat
  BY <1>1 DEF Latest
<1>3. sent[c] # <<>> <=> Latest(c) > 0
  BY <1>1 DEF Latest
<1>4. Latest(c) > 0 => sent[c][Latest(c)] \in Requests
  BY <1>1 DEF Latest
<1>5. Size(c) = IF sent[c] = <<>> THEN 0 ELSE 4 + sent[c][Latest(c)].body
  BY DEF Size
<1>6. Latest(c) > 0 => sent[c][Latest(c)].body \in Nat
  BY <1>4, Ready
<1>7. Size(c) \in Nat
  BY <1>2, <1>3, <1>5, <1>6
<1>8. \A j \in Nat : Left(c, j) \in Int
  BY <1>2, <1>7 DEF Left
<1> QED
  BY <1>2, <1>3, <1>4, <1>5, <1>7, <1>8

LEMMA OneMoreAt ==
    ASSUME NEW S, NEW s \in Seq(S), NEW x \in S
    PROVE  /\ Append(s, x) \in Seq(S) /\ Len(Append(s, x)) = Len(s) + 1
           /\ Append(s, x)[Len(s) + 1] = x
           /\ \A i \in DOMAIN s : Append(s, x)[i] = s[i]
           /\ DOMAIN Append(s, x) = DOMAIN s \cup {Len(s) + 1}
           /\ DOMAIN s = 1..Len(s) /\ Len(s) \in Nat
OBVIOUS

LEMMA OneMoreInOrder ==
    ASSUME NEW S, NEW s \in Seq(S), NEW x \in S, Increasing(s), Below(s, x.of)
    PROVE  Increasing(Append(s, x))
<1> DEFINE t == Append(s, x)
<1>1. /\ t[Len(s) + 1] = x
      /\ \A i \in DOMAIN s : t[i] = s[i]
      /\ DOMAIN t = DOMAIN s \cup {Len(s) + 1}
      /\ DOMAIN s = 1..Len(s) /\ Len(s) \in Nat
  BY OneMoreAt
<1> HIDE DEF t
<1>2. Increasing(t)
  BY <1>1 DEF Increasing, Below
<1> QED
  BY <1>2 DEF t

LEMMA AtKept ==
    ASSUME NEW c \in Clients, NEW j \in Nat, At(c, j),
           sent'[c] = sent[c], wire'[c] = wire[c], rawReq_'[c] = rawReq_[c],
           handled'[c] = handled[c], answers'[c] = answers[c], cut'[c] = cut[c],
           stage[c] = "idle" <=> stage'[c] = "idle",
           stage'[c] = "handling" => stage[c] = "handling"
    PROVE  At(c, j)'
<1>1. Follows(c, j)'
  BY DEF At, Follows, Left, Size, Latest
<1>2. Kept(c, j)'
  BY DEF At, Kept, Left, Size, Latest
<1>3. Awaited(c, j)'
  BY DEF At, Awaited, Below, Size, Latest
<1> QED
  BY <1>1, <1>2, <1>3 DEF At

LEMMA DoneKept ==
    ASSUME NEW c \in Clients, Done(c),
           sent'[c] = sent[c], handled'[c] = handled[c], answers'[c] = answers[c], cut[c] \subseteq cut'[c]
    PROVE  Done(c)'
<1>1. \A h : AsAsked(c, h) => AsAsked(c, h)'
  BY DEF AsAsked, Latest
<1> QED
  BY <1>1 DEF Done, Latest, Below, Increasing

LEMMA ServedKept ==
    ASSUME NEW c \in Clients, Served(c), Untouched(c)
    PROVE  Served(c)'
<1>1. Busy(c)'
  BY DEF Served, Busy, Untouched, AsAsked, Latest, Asked
<1>2. Done(c)'
  BY DoneKept DEF Served, Untouched
<1>3. conn'[c] # "closed" => \E j \in Nat : At(c, j)'
  BY AtKept DEF Served, Untouched
<1> QED
  BY <1>1, <1>2, <1>3 DEF Served

\* Of connections only: Connect, Accept and a failing accept().
LEMMA ConnServed ==
    ASSUME NEW c \in Clients, Served(c),
           conn[c] \in {"none", "waiting"}, 
           sent'[c] = sent[c], wire'[c] = wire[c], rawReq_'[c] = rawReq_[c],
           stage'[c] = stage[c], req'[c] = req[c],
           handled'[c] = handled[c], answers'[c] = answers[c], cut'[c] = cut[c]
    PROVE  Served(c)'
<1>1. Busy(c)'
  BY DEF Served, Busy
<1>2. Done(c)'
  BY DoneKept DEF Served
<1>3. \E j \in Nat : At(c, j)'
  BY AtKept DEF Served
<1> QED
  BY <1>1, <1>2, <1>3 DEF Served

LEMMA OpenServed ==
    ASSUME HttpTypeOK, NEW c \in Clients, Served(c), Open(c) \/ Write(c)
    PROVE  Served(c)'
<1>1. stage[c] \in {"opening", "writing"} /\ stage'[c] \in {"writing", "sending"}
  BY DEF HttpTypeOK, Open, Write, Answer
<1>2. /\ conn' = conn /\ sent' = sent /\ wire' = wire /\ rawReq_' = rawReq_ /\ req' = req
      /\ handled' = handled /\ answers' = answers /\ cut' = cut
  BY DEF Open, Write
<1>3. Busy(c)'
  BY <1>1, <1>2 DEF Served, Busy, AsAsked, Latest, Asked
<1>4. Done(c)'
  BY <1>2, DoneKept DEF Served
<1>5. conn'[c] # "closed" => \E j \in Nat : At(c, j)'
  BY <1>1, <1>2, AtKept DEF Served
<1> QED
  BY <1>3, <1>4, <1>5 DEF Served

LEMMA HandleServed ==
    ASSUME HttpTypeOK, NEW c \in Clients, Served(c), HandleOthers(c) \/ HandleUpload(c)
    PROVE  Served(c)'
<1>1. /\ stage[c] = "handling" /\ stage'[c] \in {"opening", "sending"}
      /\ stage'[c] = "opening" => Asked(c).file # ""
      /\ handled'[c] = Append(handled[c], req[c])
  <2>1. stage \in [Clients -> {"idle", "handling", "opening", "writing", "sending"}]
        /\ handled \in [Clients -> Seq(Parsed)]
    BY DEF HttpTypeOK
  <2>2. CASE HandleOthers(c)
    BY <2>1, <2>2 DEF HandleOthers, Answer
  <2>3. CASE HandleUpload(c)
    BY <2>1, <2>3 DEF HandleUpload, Answer
  <2> QED
    BY <2>2, <2>3
<1>2. /\ conn' = conn /\ sent' = sent /\ wire' = wire /\ rawReq_' = rawReq_ /\ req' = req
      /\ answers' = answers /\ cut' = cut
  BY DEF HandleOthers, HandleUpload
<1>3. handled[c] \in Seq(Parsed) /\ req[c] \in Parsed
  BY DEF HttpTypeOK
<1>4. /\ Len(handled'[c]) = Len(handled[c]) + 1
      /\ handled'[c][Len(handled[c]) + 1] = req[c]
      /\ \A i \in DOMAIN handled[c] : handled'[c][i] = handled[c][i]
      /\ DOMAIN handled'[c] = DOMAIN handled[c] \cup {Len(handled[c]) + 1}
      /\ DOMAIN handled[c] = 1..Len(handled[c]) /\ Len(handled[c]) \in Nat
      /\ handled'[c] # <<>>
  <2> DEFINE h == handled[c]
             x == req[c]
  <2>1. h \in Seq(Parsed) /\ x \in Parsed
    BY <1>3
  <2>2. handled'[c] = Append(h, x)
    BY <1>1
  <2> HIDE DEF h, x
  <2>4. /\ Append(h, x) \in Seq(Parsed) /\ Len(Append(h, x)) = Len(h) + 1
           /\ Append(h, x)[Len(h) + 1] = x
           /\ \A i \in DOMAIN h : Append(h, x)[i] = h[i]
           /\ DOMAIN Append(h, x) = DOMAIN h \cup {Len(h) + 1}
           /\ DOMAIN h = 1..Len(h) /\ Len(h) \in Nat
    BY <2>1, OneMoreAt
  <2>3. Append(h, x) # <<>>
    BY <2>4
  <2> QED
    BY <2>2, <2>3, <2>4 DEF h, x
<1>5. conn[c] = "open" /\ req[c].of = Latest(c) /\ AsAsked(c, req[c])
  BY <1>1 DEF Served, Busy
<1>6. \A h : AsAsked(c, h) => AsAsked(c, h)'
  BY <1>2 DEF AsAsked, Latest
<1>7. Busy(c)'
  BY <1>1, <1>2, <1>3, <1>4, <1>5, <1>6 DEF Busy, AsAsked, Latest, Asked
<1>8. PICK j \in Nat : At(c, j)
  BY <1>5 DEF Served
<1>9. At(c, j)'
  <2>1. Follows(c, j)'
    BY <1>2, <1>8 DEF At, Follows, Left, Size, Latest
  <2>2. Kept(c, j)'
    BY <1>1, <1>2, <1>8 DEF At, Kept, Left, Size, Latest
  <2>3. Awaited(c, j)'
    BY <1>1, <1>2, <1>8 DEF At, Awaited, Below, Size, Latest
  <2> QED
    BY <2>1, <2>2, <2>3 DEF At
<1>10. Below(handled[c], Latest(c))
  <2>1. Left(c, j) = 0 /\ rawReq_[c] # <<>> /\ j \in 0..Size(c)
    BY <1>1, <1>8 DEF At, Kept, Follows
  <2>2. Len(rawReq_[c]) \in Nat \ {0}
    <3>1. rawReq_[c] \in Seq(AllPieces)
      BY DEF HttpTypeOK
    <3> QED
      BY <2>1, <3>1
  <2>3. j < Size(c)
    <3>1. Size(c) \in Nat
      BY SizeType
    <3>2. Size(c) - j - Len(rawReq_[c]) = 0
      BY <2>1 DEF Left
    <3> QED
      BY <2>2, <3>1, <3>2
  <2> QED
    BY <1>1, <1>8, <2>3 DEF At, Awaited
<1>11. Done(c)'
  <2>1. (\A i \in DOMAIN handled[c] : AsAsked(c, handled[c][i]))'
    BY <1>4, <1>5, <1>6 DEF Served, Done
  <2>2. Increasing(handled[c])'
    <3> DEFINE s == handled[c]
    <3>1. s \in Seq(Parsed) /\ Increasing(s)
      BY <1>3 DEF Served, Done
    <3>2. Below(s, req[c].of)
      BY <1>5, <1>10
    <3> HIDE DEF s
    <3>3. Increasing(Append(s, req[c]))
      BY <1>3, <3>1, <3>2, OneMoreInOrder
    <3>4. Increasing(handled'[c])
      BY <1>1, <3>3 DEF s
    <3> QED
      BY <3>4 DEF Increasing
  <2> QED
    BY <1>2, <2>1, <2>2 DEF Served, Done, Below, Latest, Increasing
<1> QED
  BY <1>7, <1>9, <1>11 DEF Served

LEMMA EndingServed ==
    ASSUME HttpTypeOK, NEW c \in Clients, Served(c), Ending(c)
    PROVE  Served(c)'
<1>1. stage'[c] = "idle" /\ conn'[c] = "closed"
  BY DEF HttpTypeOK, Ending, Closed
<1>2. Done(c)'
  BY DoneKept DEF Served, Ending
<1> QED
  BY <1>1, <1>2 DEF Served, Busy

LEMMA HangUpServed ==
    ASSUME HttpTypeOK, NEW c \in Clients, Served(c), HangUp(c)
    PROVE  Served(c)'
<1>1. /\ conn' = conn /\ sent' = sent /\ rawReq_' = rawReq_ /\ req' = req /\ stage' = stage
      /\ handled' = handled /\ answers' = answers /\ cut' = cut
      /\ wire'[c] = Append(wire[c], End) /\ conn[c] # "closed" /\ ~HungUp(c)
  BY DEF HttpTypeOK, HangUp
<1>2. Busy(c)'
  BY <1>1 DEF Served, Busy, AsAsked, Latest, Asked
<1>3. Done(c)'
  BY <1>1, DoneKept DEF Served
<1>4. PICK j \in Nat : At(c, j)
  BY <1>1 DEF Served
<1>5. wire[c] \in Seq(AllPieces \cup {End}) /\ Len(wire[c]) \in Nat
  BY DEF HttpTypeOK
<1>6. Len(wire[c]) = Left(c, j)
  BY <1>1, <1>4, <1>5, SizeType DEF At, Follows, HungUp, Last
<1>7. Len(wire'[c]) = Left(c, j) + 1 /\ wire'[c][Left(c, j) + 1] = End
      /\ \A i \in 1..Left(c, j) : wire'[c][i] = wire[c][i]
  BY <1>1, <1>5, <1>6
<1>8. Left(c, j)' = Left(c, j) /\ Size(c)' = Size(c) /\ Latest(c)' = Latest(c)
  BY <1>1 DEF Left, Size, Latest
<1>9. Follows(c, j)'
  BY <1>1, <1>4, <1>7, <1>8 DEF At, Follows
<1>10. Kept(c, j)'
  BY <1>1, <1>4, <1>8 DEF At, Kept
<1>11. Awaited(c, j)'
  BY <1>1, <1>4, <1>8 DEF At, Awaited, Below
<1> QED
  BY <1>2, <1>3, <1>9, <1>10, <1>11 DEF Served, At

\* Answers and requests have the numbers of requests.
LEMMA EntryType ==
    ASSUME NEW S, NEW f \in [Clients -> Seq(S)], NEW c \in Clients
    PROVE  f[c] \in Seq(S) /\ \A i \in DOMAIN f[c] : f[c][i] \in S
<1>1. f[c] \in Seq(S)
  OBVIOUS
<1>2. \A q \in Seq(S) : \A i \in DOMAIN q : q[i] \in S
  OBVIOUS
<1> QED
  BY <1>1, <1>2

LEMMA AnswerType ==
    ASSUME HttpTypeOK, NEW c \in Clients
    PROVE  /\ answers[c] \in Seq([of : 1..MaxRequests, status : {200, 303, 500}])
           /\ \A i \in DOMAIN answers[c] : answers[c][i].of \in Nat
<1> DEFINE S == [of : 1..MaxRequests, status : {200, 303, 500}]
<1>1. answers \in [Clients -> Seq(S)]
  BY DEF HttpTypeOK
<1>2. \A x \in S : x.of \in Nat
  BY Bounds
<1> HIDE DEF S
<1>3. answers[c] \in Seq(S) /\ \A i \in DOMAIN answers[c] : answers[c][i] \in S
  BY <1>1, EntryType
<1> QED
  BY <1>2, <1>3 DEF S

LEMMA ReqType ==
    ASSUME HttpTypeOK, NEW c \in Clients
    PROVE  req[c] \in Parsed /\ req[c].of \in 0..MaxRequests
<1>1. req[c] \in Parsed
  BY DEF HttpTypeOK
<1>2. \A x \in Parsed : x.of \in 0..MaxRequests
  BY DEF Parsed
<1> QED
  BY <1>1, <1>2

LEMMA AskServed ==
    ASSUME HttpTypeOK, ~Pipelining, NEW c \in Clients, Served(c), NEW r \in Requests, Ask(c, r)
    PROVE  Served(c)'
<1> DEFINE k == Latest(c) + 1
<1>1. /\ conn' = conn /\ rawReq_' = rawReq_ /\ req' = req /\ stage' = stage
      /\ handled' = handled /\ answers' = answers /\ cut' = cut
      /\ sent'[c] = Append(sent[c], r) /\ wire'[c] = wire[c] \o Pieces(k, r)
      /\ conn[c] # "closed" /\ ~HungUp(c) /\ Len(answers[c]) = Latest(c)
  BY DEF HttpTypeOK, Ask, Latest
<1>2. PICK j \in Nat : At(c, j)
  BY <1>1 DEF Served
<1>3. /\ Size(c) \in Nat /\ Latest(c) \in Nat /\ Len(rawReq_[c]) \in Nat /\ Len(wire[c]) \in Nat
      /\ Left(c, j) \in Int
  BY SizeType
<1>4. j = Size(c)
  BY <1>1, <1>2, <1>3 DEF At, Awaited, Follows
<1>5. Len(rawReq_[c]) = 0 /\ Left(c, j) = 0
  BY <1>2, <1>3, <1>4 DEF At, Follows, Left
<1>6. rawReq_[c] = <<>>
  BY <1>5 DEF HttpTypeOK
<1>7. wire[c] = <<>>
  <2>1. wire[c] \in Seq(AllPieces \cup {End})
    BY DEF HttpTypeOK
  <2>2. Len(wire[c]) = 0 \/ (Len(wire[c]) = 1 /\ wire[c][1] = End)
    BY <1>2, <1>5 DEF At, Follows
  <2> QED
    BY <1>1, <2>1, <2>2 DEF HungUp, Last
<1>8. stage[c] = "idle"
  BY <1>2, <1>6 DEF At, Kept
<1>9. /\ sent'[c] # <<>> /\ Len(sent'[c]) = k /\ sent'[c][k] = r
      /\ \A i \in 1..Latest(c) : sent'[c][i] = sent[c][i]
  <2> DEFINE s == sent[c]
  <2>1. s \in Seq(Requests)
    BY DEF HttpTypeOK
  <2>2. s = sent[c] /\ Latest(c) = Len(s)
    BY DEF Latest
  <2> HIDE DEF s
  <2>3. /\ Len(Append(s, r)) = Len(s) + 1 /\ Append(s, r)[Len(s) + 1] = r
        /\ \A i \in DOMAIN s : Append(s, r)[i] = s[i]
        /\ DOMAIN s = 1..Len(s) /\ Len(s) \in Nat
    BY <2>1, OneMoreAt
  <2>4. Append(s, r) # <<>>
    BY <2>3
  <2>5. sent'[c] = Append(s, r)
    BY <1>1, <2>2
  <2> QED
    BY <2>2, <2>3, <2>4, <2>5
<1>9a. k \in Nat
  BY <1>3
<1>10. /\ k \in Nat /\ Pieces(k, r) \in Seq([of : {k}, part : Parts]) /\ Len(Pieces(k, r)) = 4 + r.body
       /\ \A i \in 1..4 + r.body : Pieces(k, r)[i] = PieceAt(k, r, i) /\ r.body \in Nat
  <2> HIDE DEF k
  <2> QED
    BY <1>9a, PiecesAre, Ready
<1>11. wire'[c] = Pieces(k, r)
  BY <1>1, <1>7, <1>10
<1>12. Latest(c)' = k /\ Size(c)' = 4 + r.body /\ Left(c, 0)' = 4 + r.body
  BY <1>1, <1>5, <1>9, <1>10 DEF Latest, Size, Left
<1> HIDE DEF k
<1>13. Busy(c)'
  BY <1>1, <1>8 DEF Busy
<1>14. \A h : AsAsked(c, h) => AsAsked(c, h)'
  <2>1. k = Latest(c) + 1
    BY DEF k
  <2> QED
    BY <1>1, <1>3, <1>9, <1>12, <2>1 DEF AsAsked
<1>15. k = Latest(c) + 1 /\ \A i \in DOMAIN answers[c] : answers[c][i].of \in Nat
  BY AnswerType DEF k
<1>16. Done(c)'
  <2>1. Below(answers[c], k)
    BY <1>15 DEF Served, Done
  <2>2. Below(answers[c], k + 1)
    BY <1>3, <1>15, <2>1 DEF Below
  <2>3. Len(answers[c]) <= k
    BY <1>1, <1>3, <1>15
  <2> QED
    BY <1>1, <1>12, <1>14, <2>2, <2>3 DEF Served, Done, Increasing, Below
<1>17. At(c, 0)'
  <2>1. Follows(c, 0)'
    <3>1. \A i \in 1..(4 + r.body) : wire'[c][i] = PieceAt(k, r, i) /\ i = 0 + 0 + i
      BY <1>10, <1>11
    <3> QED
      BY <1>1, <1>5, <1>9, <1>10, <1>11, <1>12, <3>1 DEF Follows
  <2>2. Kept(c, 0)'
    BY <1>1, <1>6, <1>8 DEF Kept
  <2>3. Awaited(c, 0)'
    <3>1. Below(answers[c], k)
      BY <1>15 DEF Served, Done
    <3>2. Below(handled[c], k)
      <4>1. \A i \in DOMAIN handled[c] : handled[c][i].of \in 1..Latest(c)
        BY DEF Served, Done, AsAsked
      <4> QED
        BY <1>3, <1>15, <4>1 DEF Below
    <3> QED
      BY <1>1, <1>3, <1>12, <1>15, <3>1, <3>2 DEF Awaited, Below
  <2> QED
    BY <2>1, <2>2, <2>3 DEF At
<1> QED
  BY <1>13, <1>16, <1>17 DEF Served

LEMMA RespondServed ==
    ASSUME HttpTypeOK, NEW c \in Clients, Served(c), Respond(c)
    PROVE  Served(c)' /\ Latest(c) \in 1..MaxRequests /\ req[c].of = Latest(c)
<1> DEFINE k == Latest(c)
<1>1. /\ sent' = sent /\ handled' = handled /\ cut' = cut /\ stage[c] = "sending"
      /\ stage'[c] = "idle" /\ rawReq_'[c] = <<>>
      /\ answers'[c] = IF HungUp(c) THEN answers[c] ELSE Append(answers[c], [of |-> req[c].of, status |-> status[c]])
      /\ conn'[c] # "closed" => wire'[c] = wire[c]
  <2>1. /\ stage \in [Clients -> {"idle", "handling", "opening", "writing", "sending"}]
        /\ DOMAIN rawReq_ = Clients /\ DOMAIN answers = Clients /\ DOMAIN conn = Clients
    BY DEF HttpTypeOK
  <2>2. conn'[c] # "closed" => wire'[c] = wire[c]
    BY <2>1 DEF Respond, Closed
  <2> QED
    BY <2>1, <2>2 DEF Respond
<1>2. conn[c] = "open" /\ req[c].of = k /\ AsAsked(c, req[c])
  BY <1>1 DEF Served, Busy
<1>3. PICK j \in Nat : At(c, j)
  BY <1>2 DEF Served
<1>4. /\ Size(c) \in Nat /\ k \in Nat /\ Len(rawReq_[c]) \in Nat /\ Len(wire[c]) \in Nat
      /\ Size(c) > 0 => k > 0 /\ sent[c] # <<>>
  BY SizeType
<1>5. rawReq_[c] # <<>> /\ Left(c, j) = 0 /\ Len(rawReq_[c]) > 0
  <2>1. rawReq_[c] \in Seq(AllPieces)
    BY DEF HttpTypeOK
  <2> QED
    BY <1>1, <1>3, <2>1 DEF At, Kept
<1>6. j < Size(c) /\ j + Len(rawReq_[c]) = Size(c)
  BY <1>3, <1>4, <1>5 DEF Left
<1>7. Len(answers[c]) < k /\ Below(answers[c], k)
  BY <1>3, <1>6 DEF At, Awaited
<1>8. Latest(c)' = k /\ Size(c)' = Size(c) /\ Left(c, Size(c))' = 0
  BY <1>1, <1>4 DEF Latest, Size, Left
<1>9. k \in 1..MaxRequests
  <2>1. req[c].of \in 0..MaxRequests
    BY ReqType
  <2> QED
    BY <1>2, <1>4, <1>6, <2>1, Bounds
<1> HIDE DEF k
<1>10. answers[c] \in Seq([of : 1..MaxRequests, status : {200, 303, 500}])
  BY AnswerType
<1>11. /\ Len(answers'[c]) \in Nat /\ Len(answers'[c]) <= k
       /\ Increasing(answers[c])' /\ Below(answers'[c], k + 1)
  <2>0. \A i \in DOMAIN answers[c] : answers[c][i].of \in Nat
    BY AnswerType
  <2>1. CASE HungUp(c)
    BY <1>1, <1>4, <1>7, <1>10, <2>0, <2>1 DEF Served, Done, Increasing, Below, k
  <2>2. CASE ~HungUp(c)
    <3> DEFINE s == answers[c]
               x == [of |-> req[c].of, status |-> status[c]]
    <3>1. x \in [of : 1..MaxRequests, status : {200, 303, 500}] /\ x.of = k
      BY <1>2, <1>9 DEF HttpTypeOK, k
    <3>2. answers'[c] = Append(s, x)
      BY <1>1, <2>2
    <3>3. Increasing(s) /\ Below(s, k) /\ Len(s) < k
      BY <1>7 DEF Served, Done
    <3> HIDE DEF s, x
    <3>4. s \in Seq([of : 1..MaxRequests, status : {200, 303, 500}])
      BY <1>10 DEF s
    <3>5. /\ Len(Append(s, x)) = Len(s) + 1
          /\ Append(s, x)[Len(s) + 1] = x
          /\ \A i \in DOMAIN s : Append(s, x)[i] = s[i]
          /\ DOMAIN Append(s, x) = DOMAIN s \cup {Len(s) + 1}
          /\ DOMAIN s = 1..Len(s) /\ Len(s) \in Nat
      BY <3>1, <3>4, OneMoreAt
    <3>6. Increasing(Append(s, x))
      BY <3>1, <3>3, <3>5 DEF Increasing, Below
    <3>7. Below(Append(s, x), k + 1)
      BY <3>1, <3>3, <3>5, <1>9, <2>0, Bounds DEF Below, s
    <3> QED
      BY <3>2, <3>3, <3>5, <3>6, <3>7, <1>9, Bounds DEF Increasing
  <2> QED
    BY <2>1, <2>2
<1>12. Done(c)'
  <2>1. \A h : AsAsked(c, h) => AsAsked(c, h)'
    BY <1>1 DEF AsAsked, Latest
  <2> QED
    BY <1>1, <1>8, <1>11, <2>1 DEF Served, Done, Increasing, Below
<1>13. Busy(c)'
  BY <1>1 DEF Busy
<1>14. conn'[c] # "closed" => At(c, Size(c))'
  <2> SUFFICES ASSUME conn'[c] # "closed" PROVE At(c, Size(c))'
    OBVIOUS
  <2>1. Follows(c, Size(c))'
    BY <1>1, <1>3, <1>4, <1>5, <1>8 DEF At, Follows
  <2>2. Kept(c, Size(c))'
    <3>1. Size(c) >= 3
      BY <1>3, <1>4, <1>5, <1>6 DEF At, Kept
    <3> QED
      BY <1>1, <1>4, <1>8, <3>1 DEF Kept
  <2>3. Awaited(c, Size(c))'
    BY <1>4, <1>8 DEF Awaited
  <2> QED
    BY <2>1, <2>2, <2>3 DEF At
<1>15. conn'[c] # "closed" => \E i \in Nat : At(c, i)'
  BY <1>4, <1>8, <1>14
<1> QED
  BY <1>2, <1>9, <1>12, <1>13, <1>15 DEF Served, k

LEMMA JoinType ==
    ASSUME NEW S, NEW s \in Seq(S), NEW t \in Seq(S)
    PROVE  /\ s \o t \in Seq(S) /\ Len(s \o t) = Len(s) + Len(t)
           /\ \A i \in 1..Len(s) : (s \o t)[i] = s[i]
           /\ \A i \in Len(s) + 1 .. Len(s) + Len(t) : (s \o t)[i] = t[i - Len(s)]
OBVIOUS

LEMMA PartType ==
    ASSUME NEW S, NEW s \in Seq(S), NEW n \in 1..Len(s)
    PROVE  /\ SubSeq(s, 1, n) \in Seq(S) /\ Len(SubSeq(s, 1, n)) = n
           /\ \A i \in 1..n : SubSeq(s, 1, n)[i] = s[i]
           /\ SubSeq(s, n + 1, Len(s)) \in Seq(S) /\ Len(SubSeq(s, n + 1, Len(s))) = Len(s) - n
           /\ \A i \in 1..Len(s) - n : SubSeq(s, n + 1, Len(s))[i] = s[n + i]
           /\ Len(s) \in Nat
OBVIOUS

\* What handle_input() reads goes on with the request that is under way.
LEMMA ReadOn ==
    ASSUME HttpTypeOK, NEW c \in Clients, NEW j \in Nat, At(c, j),
           NEW n \in 1..Len(wire[c]), End \notin ToSet(SubSeq(wire[c], 1, n))
    PROVE  LET raw == rawReq_[c] \o SubSeq(wire[c], 1, n) IN
           /\ n <= Left(c, j) /\ Latest(c) \in 1..MaxRequests /\ Latest(c) = Len(sent[c])
           /\ raw \in Seq(AllPieces) /\ Len(raw) = Len(rawReq_[c]) + n
           /\ From(raw, Latest(c), sent[c][Latest(c)], j)
           /\ SubSeq(wire[c], 1, n)[n] = PieceAt(Latest(c), sent[c][Latest(c)], j + Len(rawReq_[c]) + n)
<1> DEFINE read == SubSeq(wire[c], 1, n)
           k == Latest(c)
           r == sent[c][Latest(c)]
           raw == rawReq_[c] \o read
           a == Len(rawReq_[c])
<1>1. /\ Size(c) \in Nat /\ k \in Nat /\ a \in Nat /\ Len(wire[c]) \in Nat /\ Left(c, j) \in Int
      /\ Size(c) > 0 => k > 0 /\ sent[c] # <<>>
      /\ k > 0 => r \in Requests
  BY SizeType
<1>2. wire[c] \in Seq(AllPieces \cup {End}) /\ rawReq_[c] \in Seq(AllPieces)
  BY DEF HttpTypeOK
<1>3. /\ read \in Seq(AllPieces \cup {End}) /\ Len(read) = n
      /\ \A i \in 1..n : read[i] = wire[c][i]
  BY <1>2, PartType
<1>4. \A i \in 1..n : read[i] # End
  <2>1. End \notin ToSet(read)
    OBVIOUS
  <2> HIDE DEF read
  <2>2. DOMAIN read = 1..n
    BY <1>3
  <2> QED
    BY <2>1, <2>2 DEF ToSet
<1>5. n <= Left(c, j)
  <2>1. \/ Len(wire[c]) = Left(c, j)
        \/ Len(wire[c]) = Left(c, j) + 1 /\ wire[c][Left(c, j) + 1] = End
    BY DEF At, Follows
  <2>2. n \in Nat /\ 1 <= n /\ n <= Len(wire[c])
    BY <1>1
  <2>3. CASE n = Left(c, j) + 1
    <3>1. read[n] = wire[c][n] /\ read[n] # End
      BY <1>3, <1>4, <2>2
    <3> QED
      BY <1>1, <2>1, <2>2, <2>3, <3>1
  <2> QED
    BY <1>1, <2>1, <2>2, <2>3
<1>6. k > 0 /\ k \in 1..MaxRequests /\ r \in Requests
  <2>1. Size(c) > 0
    BY <1>1, <1>5 DEF Left
  <2>2. k <= MaxRequests
    BY DEF HttpTypeOK, Latest
  <2> QED
    BY <1>1, <2>1, <2>2, Bounds
<1>7. \A i \in 1..n : read[i] = PieceAt(k, r, j + a + i)
  <2> TAKE i \in 1..n
  <2>1. i \in 1..Left(c, j)
    BY <1>1, <1>5
  <2> QED
    BY <1>3, <2>1 DEF At, Follows
<1>8. \A i \in 1..n : read[i] \in AllPieces
  <2> TAKE i \in 1..n
  <2> HIDE DEF read, k, r, a
  <2>1. j + a + i \in Nat
    BY <1>1
  <2> QED
    BY <1>6, <1>7, <2>1, PieceType
<1>9. read \in Seq(AllPieces)
  <2> HIDE DEF read
  <2> QED
    BY <1>3, <1>8
<1>10. \A i \in 1..a : rawReq_[c][i] = PieceAt(k, r, j + i)
  BY DEF At, Follows
<1> DEFINE q == rawReq_[c]
<1> HIDE DEF read, k, r
<1>n. n \in Nat /\ a \in Nat
  BY <1>1
<1>11. /\ q \o read \in Seq(AllPieces) /\ Len(q \o read) = a + n
       /\ \A i \in 1..a : (q \o read)[i] = q[i]
       /\ \A i \in a + 1 .. a + n : (q \o read)[i] = read[i - a]
  <2>1. q \in Seq(AllPieces) /\ read \in Seq(AllPieces) /\ Len(q) = a /\ Len(read) = n
    BY <1>2, <1>3, <1>9
  <2> HIDE DEF q, a
  <2>2. /\ q \o read \in Seq(AllPieces) /\ Len(q \o read) = Len(q) + Len(read)
        /\ \A i \in 1..Len(q) : (q \o read)[i] = q[i]
        /\ \A i \in Len(q) + 1 .. Len(q) + Len(read) : (q \o read)[i] = read[i - Len(q)]
    <3>1. q \in Seq(AllPieces) /\ read \in Seq(AllPieces)
      BY <2>1
    <3> QED
      BY <3>1
  <2> QED
    BY <2>1, <2>2
<1>12. \A i \in 1..a + n : (q \o read)[i] = PieceAt(k, r, j + i)
  <2> HIDE DEF a
  <2> TAKE i \in 1..a + n
  <2>1. CASE i <= a
    <3>1. i \in 1..a
      BY <1>n, <2>1
    <3> QED
      BY <1>10, <1>11, <3>1
  <2>2. CASE i > a
    <3>1. i - a \in 1..n /\ i \in a + 1 .. a + n /\ j + a + (i - a) = j + i
      BY <1>n, <2>2
    <3> QED
      BY <1>7, <1>11, <3>1
  <2>3. i <= a \/ i > a
    BY <1>n
  <2> QED
    BY <2>1, <2>2, <2>3
<1>13. read[n] = PieceAt(k, r, j + a + n)
  BY <1>7
<1>14. From(raw, k, r, j)
  BY <1>11, <1>12 DEF From
<1>15. k = Len(sent[c])
  BY DEF k, Latest
<1> QED
  BY <1>5, <1>6, <1>11, <1>13, <1>14, <1>15 DEF read, k, r

LEMMA InputServed ==
    ASSUME HttpTypeOK, NEW c \in Clients, Served(c), Input(c)
    PROVE  Served(c)' /\ (stage'[c] = "handling" => req'[c] \in Parsed)
           /\ rawReq_'[c] \in Seq(AllPieces) /\ cut'[c] \subseteq 1..MaxRequests
<1> DEFINE k == Latest(c)
           r == sent[c][k]
           a == Len(rawReq_[c])
<1>1. /\ conn' = conn /\ sent' = sent /\ handled' = handled /\ answers' = answers
      /\ conn[c] = "open" /\ stage[c] = "idle"
  BY DEF Input
<1>2. PICK j \in Nat : At(c, j)
  BY <1>1 DEF Served
<1>3. PICK n \in 1..Len(wire[c]) :
        LET read == SubSeq(wire[c], 1, n)
            raw  == rawReq_[c] \o read
        IN /\ End \notin ToSet(read)
           /\ wire' = [wire EXCEPT ![c] = SubSeq(@, n + 1, Len(@))]
           /\ cut' = [cut EXCEPT ![c] =
                  IF read[n].part \in {"me", "thod"} THEN @ \cup {read[n].of} ELSE @]
           /\ \/ /\ LineLen(raw) = 0
                 /\ rawReq_' = [rawReq_ EXCEPT ![c] = <<>>] /\ UNCHANGED <<stage, req>>
              \/ /\ LineLen(raw) > 0 /\ ~WholeContent(c, raw)
                 /\ rawReq_' = [rawReq_ EXCEPT ![c] = raw] /\ UNCHANGED <<stage, req>>
              \/ /\ LineLen(raw) > 0 /\ WholeContent(c, raw)
                 /\ rawReq_' = [rawReq_ EXCEPT ![c] = raw]
                 /\ stage' = [stage EXCEPT ![c] = "handling"]
                 /\ req' = [req EXCEPT ![c] = Parse(c, raw)]
  BY DEF Input
<1> DEFINE read == SubSeq(wire[c], 1, n)
           raw == rawReq_[c] \o read
<1>4. /\ n <= Left(c, j) /\ k \in 1..MaxRequests /\ k = Len(sent[c])
      /\ raw \in Seq(AllPieces) /\ Len(raw) = a + n
      /\ From(raw, k, r, j)
      /\ read[n] = PieceAt(k, r, j + a + n)
  BY <1>2, <1>3, ReadOn
<1>5. /\ Size(c) \in Nat /\ k \in Nat /\ a \in Nat /\ Len(wire[c]) \in Nat /\ Left(c, j) \in Int
      /\ k > 0 => r \in Requests /\ Size(c) = 4 + r.body
  BY SizeType
<1>6. /\ DOMAIN wire = Clients /\ DOMAIN cut = Clients /\ DOMAIN rawReq_ = Clients /\ DOMAIN stage = Clients
      /\ DOMAIN req = Clients /\ cut[c] \subseteq 1..MaxRequests /\ wire[c] \in Seq(AllPieces \cup {End})
  BY DEF HttpTypeOK
<1>7. wire'[c] = SubSeq(wire[c], n + 1, Len(wire[c]))
  BY <1>3, <1>6
<1>8. /\ Len(wire'[c]) = Len(wire[c]) - n
      /\ \A i \in 1..Len(wire[c]) - n : wire'[c][i] = wire[c][n + i]
  BY <1>6, <1>7, PartType
<1>9. cut'[c] = IF read[n].part \in {"me", "thod"} THEN cut[c] \cup {k} ELSE cut[c]
  <2>1. read[n].of = k
    <3>1. j + a + n \in Nat
      BY <1>5
    <3> QED
      BY <1>4, <1>5, <3>1, PieceType
  <2> QED
    BY <1>3, <1>6, <2>1
<1>10. cut[c] \subseteq cut'[c] /\ cut'[c] \subseteq 1..MaxRequests
  BY <1>4, <1>6, <1>9
<1>11. j + a + n = 1 => k \in cut'[c]
  <2> SUFFICES ASSUME j + a + n = 1 PROVE k \in cut'[c]
    OBVIOUS
  <2>1. PieceAt(k, r, 1).part = "me"
    BY DEF PieceAt, Piece
  <2> QED
    BY <1>4, <1>9, <2>1
<1> HIDE DEF read, raw
<1>12. Size(c)' = Size(c) /\ Latest(c)' = k
  BY <1>1 DEF Size, Latest
<1>13. j \in 0..Size(c) /\ Left(c, j) = Size(c) - j - a /\ n \in Nat \ {0}
  BY <1>2, <1>5 DEF At, Follows, Left
<1> DEFINE L == Left(c, j)
<1> HIDE DEF L, a
<1>31. /\ L \in Nat /\ n <= L /\ a \in Nat /\ n \in Nat \ {0} /\ L = Size(c) - j - a /\ j \in Nat /\ Size(c) \in Nat
      /\ Len(wire[c]) \in Nat /\ j <= Size(c)
  BY <1>4, <1>5, <1>13 DEF L, a
<1>32. /\ Len(wire[c]) = L \/ (Len(wire[c]) = L + 1 /\ wire[c][L + 1] = End)
      /\ \A i \in 1..L : wire[c][i] = PieceAt(k, r, j + a + i)
  BY <1>2 DEF At, Follows, L, a
<1>14. j < Size(c)
  BY <1>31
<1>15. /\ Len(answers[c]) < k /\ Below(answers[c], k) /\ Below(handled[c], k)
  BY <1>1, <1>2, <1>14 DEF At, Awaited
<1>16. Done(c)'
  BY <1>1, <1>10, DoneKept DEF Served
<1>17. \A i \in Nat : Awaited(c, i)'
  BY <1>1, <1>12, <1>15 DEF Awaited, Below
<1>18. \A i \in 1..L - n : wire'[c][i] = PieceAt(k, r, j + (a + n) + i)
  <2> TAKE i \in 1..L - n
  <2>1. n + i \in 1..L /\ i \in 1..Len(wire[c]) - n /\ j + a + (n + i) = j + (a + n) + i
    BY <1>31, <1>32
  <2>2. wire[c][n + i] = PieceAt(k, r, j + a + (n + i))
    BY <1>32, <2>1
  <2> QED
    BY <1>8, <2>1, <2>2
<1>19. \/ Len(wire'[c]) = L - n
       \/ Len(wire'[c]) = (L - n) + 1 /\ wire'[c][(L - n) + 1] = End
  <2>1. CASE Len(wire[c]) = L
    BY <1>8, <2>1
  <2>2. CASE Len(wire[c]) = L + 1 /\ wire[c][L + 1] = End
    <3>1. (L - n) + 1 \in 1..Len(wire[c]) - n /\ n + ((L - n) + 1) = L + 1
      BY <1>31, <2>2
    <3>2. wire'[c][(L - n) + 1] = wire[c][n + ((L - n) + 1)]
      BY <1>8, <3>1
    <3>3. Len(wire'[c]) = (L - n) + 1
      BY <1>31, <1>8, <2>2
    <3> QED
      BY <2>2, <3>1, <3>2, <3>3
  <2> QED
    BY <1>32, <2>1, <2>2
<1>20. LineLen(raw) \in {0, 2, 3} /\ (LineLen(raw) > 0 => j \in {0, 1} /\ j + Len(raw) >= 3)
  <2>1. /\ LineLen(raw) \in {0, 2, 3}
        /\ LineLen(raw) = 3 <=> (j = 0 /\ Len(raw) >= 3)
        /\ LineLen(raw) = 2 <=> (j = 1 /\ Len(raw) >= 2)
    BY <1>4, LineIs
  <2> QED
    BY <1>4, <1>5, <1>13, <2>1
<1>21. j = 1 => k \in cut'[c]
  BY <1>2, <1>10 DEF At, Kept
<1>22. CASE LineLen(raw) = 0
  <2>1. rawReq_'[c] = <<>> /\ stage'[c] = "idle"
    BY <1>1, <1>3, <1>6, <1>20, <1>22 DEF raw, read
  <2>0. PICK i \in Nat : i = j + a + n
    BY <1>31
  <2>2. i \in Nat /\ i \in 0..Size(c) /\ Left(c, i)' = L - n
    <3>1. Len(rawReq_'[c]) = 0
      BY <2>1
    <3>2. Left(c, i)' = Size(c) - i
      BY <1>12, <1>31, <3>1 DEF Left
    <3> QED
      BY <1>31, <2>0, <3>2
  <2>3. Follows(c, i)'
    <3>1. \A m \in 1..L - n : wire'[c][m] = PieceAt(k, r, i + Len(rawReq_'[c]) + m)
      <4>1. i + Len(rawReq_'[c]) = j + (a + n)
        BY <1>31, <2>0, <2>1
      <4> QED
        BY <1>18, <2>0, <4>1
    <3>2. Len(rawReq_'[c]) = 0
      BY <2>1
    <3>3. sent'[c][Latest(c)'] = r /\ L - n >= 0
      BY <1>1, <1>12, <1>31
    <3> QED
      BY <1>12, <1>19, <2>2, <3>1, <3>2, <3>3 DEF Follows
  <2>4. Kept(c, i)'
    <3>1. i = 1 => k \in cut'[c]
      BY <1>11, <2>0 DEF a
    <3> QED
      BY <1>12, <2>1, <3>1 DEF Kept
  <2>5. Busy(c)'
    BY <2>1 DEF Busy
  <2>6. At(c, i)'
    BY <1>17, <2>2, <2>3, <2>4 DEF At
  <2>7. rawReq_'[c] \in Seq(AllPieces)
    BY <2>1
  <2> QED
    BY <1>10, <1>16, <2>1, <2>2, <2>5, <2>6, <2>7 DEF Served
<1>23. CASE LineLen(raw) > 0
  <2>1. rawReq_'[c] = raw
    BY <1>3, <1>6, <1>20, <1>23 DEF raw, read
  <2>2. Len(rawReq_'[c]) = a + n /\ Left(c, j)' = L - n
    BY <1>4, <1>12, <1>31, <2>1 DEF Left
  <2>3. Follows(c, j)'
    <3>1. \A i \in 1..a + n : rawReq_'[c][i] = PieceAt(k, r, j + i)
      BY <1>4, <2>1 DEF From
    <3> QED
      <4>1. sent'[c][Latest(c)'] = r /\ L - n >= 0 /\ j \in 0..Size(c)
        BY <1>1, <1>12, <1>31
      <4> QED
        BY <1>12, <1>18, <1>19, <2>2, <3>1, <4>1 DEF Follows
  <2>4. rawReq_'[c] # <<>> /\ j \in {0, 1} /\ j + Len(rawReq_'[c]) >= 3
    BY <1>5, <1>13, <1>20, <1>23, <2>1, <2>2
  <2>5. CASE ~WholeContent(c, raw)
    <3>1. stage'[c] = "idle"
      BY <1>1, <1>3, <1>6, <1>20, <1>23, <2>5 DEF raw, read
    <3>2. Kept(c, j)'
      BY <1>12, <1>21, <2>4, <3>1 DEF Kept
    <3>3. Busy(c)'
      BY <3>1 DEF Busy
    <3>4. At(c, j)'
      BY <1>17, <2>3, <3>2 DEF At
    <3> QED
      BY <1>4, <1>10, <1>16, <2>1, <3>1, <3>3, <3>4 DEF Served
  <2>6. CASE WholeContent(c, raw)
    <3>1. stage'[c] = "handling" /\ req'[c] = Parse(c, raw)
      BY <1>3, <1>6, <1>20, <1>23, <2>6 DEF raw, read
    <3>0. Size(c) = 4 + r.body /\ Len(raw) = a + n /\ r.body \in Nat
      BY <1>4, <1>5, Ready
    <3>2. Len(raw) <= 4 + r.body - j
      <4> DEFINE b == r.body
                 l == Len(raw)
      <4>1. Size(c) = 4 + b /\ l = a + n /\ b \in Nat
        BY <3>0
      <4>2. l <= 4 + b - j
        <5> HIDE DEF b, l
        <5> QED
          BY <1>31, <4>1
      <4> QED
        BY <4>2
    <3>3. /\ Len(raw) = 4 + r.body - j
          /\ Parse(c, raw).of = k
          /\ j = 0 => Parse(c, raw).method = r.method
          /\ Parse(c, raw).body = [b \in 1..r.body |-> Piece(k, "body")]
          /\ Parse(c, raw) \in Parsed
      <4>1. sent \in [Clients -> Seq(Requests)] /\ k \in 1..Len(sent[c]) /\ Len(sent[c]) <= MaxRequests
        BY <1>4, Bounds DEF HttpTypeOK
      <4>2. raw # <<>>
        BY <2>1, <2>4
      <4> QED
        BY <1>4, <1>23, <2>4, <2>6, <3>2, <4>1, <4>2, ParsedAsAsked
    <3>4. Left(c, j)' = 0
      <4> DEFINE b == r.body
                 l == Len(raw)
      <4>1. Size(c) = 4 + b /\ l = a + n /\ b \in Nat /\ l = 4 + b - j
        BY <3>0, <3>3
      <4>2. L - n = 0
        <5> HIDE DEF b, l
        <5> QED
          BY <1>31, <4>1
      <4> QED
        BY <2>2, <4>2
    <3>5. Kept(c, j)'
      BY <1>12, <1>21, <2>4, <3>4 DEF Kept
    <3>6. k \notin cut'[c] => j = 0
      BY <1>21, <2>4
    <3>7. AsAsked(c, req[c])'
      BY <1>1, <1>4, <1>12, <3>1, <3>3, <3>6 DEF AsAsked
    <3>8. Busy(c)'
      BY <1>1, <1>12, <3>1, <3>3, <3>7 DEF Busy
    <3>9. At(c, j)'
      BY <1>17, <2>3, <3>5 DEF At
    <3> QED
      BY <1>4, <1>10, <1>16, <2>1, <3>1, <3>3, <3>8, <3>9 DEF Served
  <2> QED
    BY <2>5, <2>6
<1> QED
  BY <1>20, <1>22, <1>23

-----------------------------------------------------------------------------
(* Types.                                                                  *)

AtWork == {c \in Clients : stage[c] # "idle"}

LEMMA OneMoreAtWork ==
    ASSUME HttpTypeOK, ThreadFree, NEW c \in Clients, NEW s, stage' = [stage EXCEPT ![c] = s]
    PROVE  Cardinality(AtWork') <= Threads
<1>1. IsFiniteSet(Clients) /\ Threads \in Nat
  BY Bounds
<1>2. AtWork \subseteq Clients /\ AtWork \cup {c} \subseteq Clients
  BY DEF AtWork
<1>3. IsFiniteSet(AtWork) /\ IsFiniteSet(AtWork \cup {c})
  BY <1>1, <1>2, FS_Subset
<1>4. AtWork' \subseteq AtWork \cup {c}
  BY DEF AtWork, HttpTypeOK
<1>5. Cardinality(AtWork \cup {c}) <= Cardinality(AtWork) + 1 /\ Cardinality(AtWork) \in Nat
  BY <1>3, FS_AddElement, FS_CardinalityType
<1>6. Cardinality(AtWork') <= Cardinality(AtWork \cup {c}) /\ Cardinality(AtWork') \in Nat
      /\ Cardinality(AtWork \cup {c}) \in Nat
  BY <1>3, <1>4, FS_Subset, FS_CardinalityType
<1>7. Cardinality(AtWork) < Threads
  BY DEF ThreadFree, AtWork
<1> QED
  BY <1>1, <1>5, <1>6, <1>7

LEMMA NoMoreAtWork ==
    ASSUME HttpTypeOK, NEW c \in Clients, stage[c] # "idle", NEW s, stage' = [stage EXCEPT ![c] = s]
    PROVE  Cardinality(AtWork') <= Threads
<1>1. IsFiniteSet(Clients) /\ Threads \in Nat
  BY Bounds
<1>2. AtWork \subseteq Clients
  BY DEF AtWork
<1>3. IsFiniteSet(AtWork)
  BY <1>1, <1>2, FS_Subset
<1>4. AtWork' \subseteq AtWork
  BY DEF AtWork, HttpTypeOK
<1>5. Cardinality(AtWork') <= Cardinality(AtWork) /\ Cardinality(AtWork') \in Nat
      /\ Cardinality(AtWork) \in Nat
  BY <1>3, <1>4, FS_Subset, FS_CardinalityType
<1>6. Cardinality(AtWork) <= Threads
  BY DEF HttpTypeOK, AtWork
<1> QED
  BY <1>1, <1>5, <1>6

LEMMA WiderSeq ==
    ASSUME NEW T, NEW S, T \subseteq S, NEW s \in Seq(T)
    PROVE  s \in Seq(S)
OBVIOUS

LEMMA UpdateType ==
    ASSUME NEW S, NEW f \in [Clients -> S], NEW c \in Clients, NEW x \in S
    PROVE  [f EXCEPT ![c] = x] \in [Clients -> S]
OBVIOUS

\* The types, one for each thing.
ConnType    == conn \in [Clients -> {"none", "waiting", "open", "closed"}]
SentType    == sent \in [Clients -> Seq(Requests)] /\ \A c \in Clients : Len(sent[c]) <= MaxRequests
WireType    == wire \in [Clients -> Seq(AllPieces \cup {End})]
RawType     == rawReq_ \in [Clients -> Seq(AllPieces)]
StageType   == /\ stage \in [Clients -> {"idle", "handling", "opening", "writing", "sending"}]
               /\ Cardinality(AtWork) <= Threads
ReqsType    == req \in [Clients -> Parsed]
FilesType   == /\ DOMAIN files \subseteq FileNames /\ \A f \in DOMAIN files : files[f] \in Seq(Clients)
               /\ mixed \subseteq FileNames
HandledType == handled \in [Clients -> Seq(Parsed)]
AnswersType == answers \in [Clients -> Seq([of : 1..MaxRequests, status : {200, 303, 500}])]
CutType     == cut \in [Clients -> SUBSET (1..MaxRequests)]
RestType    == /\ acceptor \in {"open", "closed"} /\ failures \in 0..MaxFailures
               /\ status \in [Clients -> {200, 303, 500}] /\ stalled \subseteq Clients

LEMMA HttpTypeParts ==
    HttpTypeOK <=> /\ ConnType /\ SentType /\ WireType /\ RawType /\ StageType /\ ReqsType
                   /\ FilesType /\ HandledType /\ AnswersType /\ CutType /\ RestType
BY DEF HttpTypeOK, ConnType, SentType, WireType, RawType, StageType, ReqsType, FilesType, HandledType,
       AnswersType, CutType, RestType, AtWork

LEMMA ConnTypeStep == ASSUME HttpTypeOK, HttpNext PROVE ConnType'
<1>1. ConnType
  BY HttpTypeParts
<1>2. ASSUME NEW c \in Clients,
             \/ Connect(c) \/ HangUp(c) \/ Stall(c) \/ \E r \in Requests : Ask(c, r)
             \/ Accept(c) \/ Input(c)
      PROVE ConnType'
  BY <1>1, <1>2 DEF ConnType, Connect, HangUp, Stall, Ask, Accept, Input
<1>3. ASSUME NEW c \in Clients, Ending(c) \/ Handle(c)
      PROVE ConnType'
  BY <1>1, <1>3 DEF ConnType, Ending, Closed, Handle, HandleOthers, HandleUpload, Open, Write, Respond
<1>4. ASSUME AcceptFails PROVE ConnType'
  BY <1>1, <1>4 DEF ConnType, AcceptFails
<1> QED
  BY <1>2, <1>3, <1>4 DEF HttpNext, Serve

LEMMA SentTypeStep == ASSUME HttpTypeOK, HttpNext PROVE SentType'
<1>1. SentType
  BY HttpTypeParts
<1>2. ASSUME NEW c \in Clients, NEW r \in Requests, Ask(c, r)
      PROVE SentType'
  <2>1. sent' = [sent EXCEPT ![c] = Append(@, r)] /\ Len(sent[c]) < MaxRequests
    BY <1>2 DEF Ask
  <2>2. /\ Append(sent[c], r) \in Seq(Requests) /\ Len(Append(sent[c], r)) = Len(sent[c]) + 1
        /\ Len(sent[c]) \in Nat
    BY <1>1, OneMoreAt DEF SentType
  <2>3. sent' \in [Clients -> Seq(Requests)]
    BY <1>1, <2>1, <2>2, UpdateType DEF SentType
  <2> QED
    BY <1>1, <2>1, <2>2, <2>3, Bounds DEF SentType
<1>3. ASSUME NEW c \in Clients,
             \/ Connect(c) \/ HangUp(c) \/ Stall(c) \/ Accept(c) \/ Input(c) \/ Ending(c) \/ Handle(c)
             \/ AcceptFails
      PROVE SentType'
  BY <1>1, <1>3 DEF SentType, Connect, HangUp, Stall, Accept, Input, Ending, AcceptFails,
                    Handle, HandleOthers, HandleUpload, Open, Write, Respond
<1>4. ASSUME AcceptFails PROVE SentType'
  BY <1>1, <1>4 DEF SentType, AcceptFails
<1> QED
  BY <1>2, <1>3, <1>4 DEF HttpNext, Serve

LEMMA WireTypeStep == ASSUME HttpTypeOK, HttpNext PROVE WireType'
<1> DEFINE S == AllPieces \cup {End}
<1>1. wire \in [Clients -> Seq(S)] /\ SentType
  BY HttpTypeParts DEF WireType
<1>2. ASSUME NEW c \in Clients, NEW r \in Requests, Ask(c, r)
      PROVE wire' \in [Clients -> Seq(S)]
  <2> DEFINE k == Len(sent[c]) + 1
  <2>1. k \in 1..MaxRequests
    <3>1. Len(sent[c]) \in Nat /\ Len(sent[c]) < MaxRequests
      BY <1>1, <1>2 DEF Ask, SentType
    <3> QED
      BY <3>1, Bounds
  <2>2. Pieces(k, r) \in Seq([of : {k}, part : Parts])
    <3>1. k \in Nat
      BY <2>1, Bounds
    <3> HIDE DEF k
    <3> QED
      BY <3>1, PiecesAre
  <2>3. [of : {k}, part : Parts] \subseteq S
    BY <2>1 DEF AllPieces
  <2>4. wire' = [wire EXCEPT ![c] = @ \o Pieces(k, r)]
    BY <1>2 DEF Ask
  <2> HIDE DEF k, S
  <2>5. Pieces(k, r) \in Seq(S) /\ wire[c] \in Seq(S)
    BY <1>1, <2>2, <2>3, WiderSeq
  <2>6. wire[c] \o Pieces(k, r) \in Seq(S)
    BY <2>5, JoinType
  <2> QED
    BY <1>1, <2>4, <2>6
<1>3. ASSUME NEW c \in Clients, HangUp(c) PROVE wire' \in [Clients -> Seq(S)]
  <2>1. wire' = [wire EXCEPT ![c] = Append(@, End)] /\ End \in S
    BY <1>3 DEF HangUp
  <2> HIDE DEF S
  <2>2. Append(wire[c], End) \in Seq(S)
    BY <1>1, <2>1
  <2> QED
    BY <1>1, <2>1, <2>2
<1>4. ASSUME NEW c \in Clients, Input(c) PROVE wire' \in [Clients -> Seq(S)]
  <2>1. PICK n \in 1..Len(wire[c]) : wire' = [wire EXCEPT ![c] = SubSeq(@, n + 1, Len(@))]
    BY <1>4 DEF Input
  <2> HIDE DEF S
  <2>2. SubSeq(wire[c], n + 1, Len(wire[c])) \in Seq(S)
    BY <1>1, PartType
  <2> QED
    BY <1>1, <2>1, <2>2
<1>5. ASSUME NEW c \in Clients, Ending(c) \/ Respond(c) PROVE wire' \in [Clients -> Seq(S)]
  <2>1. wire' = wire \/ wire' = [wire EXCEPT ![c] = <<>>]
    BY <1>5 DEF Ending, Respond, Closed
  <2>2. <<>> \in Seq(S)
    OBVIOUS
  <2> HIDE DEF S
  <2> QED
    BY <1>1, <2>1, <2>2
<1>6. ASSUME NEW c \in Clients,
             \/ Connect(c) \/ Stall(c) \/ Accept(c)
             \/ HandleOthers(c) \/ HandleUpload(c) \/ Open(c) \/ Write(c)
      PROVE wire' = wire
  BY <1>6 DEF Connect, Stall, Accept, HandleOthers, HandleUpload, Open, Write
<1>7. ASSUME AcceptFails PROVE wire' = wire
  BY <1>7 DEF AcceptFails
<1> HIDE DEF S
<1>8. wire' \in [Clients -> Seq(S)]
  BY <1>1, <1>2, <1>3, <1>4, <1>5, <1>6, <1>7 DEF HttpNext, Serve, Handle
<1> QED
  BY <1>8 DEF WireType, S

LEMMA RawTypeStep ==
    ASSUME HttpTypeOK, \A c \in Clients : Served(c), HttpNext
    PROVE  RawType' /\ ReqsType' /\ CutType'
<1>1. RawType /\ ReqsType /\ CutType
  BY HttpTypeParts
<1>2. ASSUME NEW c \in Clients, Input(c) PROVE RawType' /\ ReqsType' /\ CutType'
  <2>1. /\ stage'[c] = "handling" => req'[c] \in Parsed
        /\ rawReq_'[c] \in Seq(AllPieces) /\ cut'[c] \subseteq 1..MaxRequests
    BY <1>2, InputServed
  <2>2. PICK x : rawReq_' = [rawReq_ EXCEPT ![c] = x]
    BY <1>2 DEF Input
  <2>3. PICK y : cut' = [cut EXCEPT ![c] = y]
    BY <1>2 DEF Input
  <2>4. req' = req \/ \E z : req' = [req EXCEPT ![c] = z] /\ stage' = [stage EXCEPT ![c] = "handling"]
    BY <1>2 DEF Input
  <2>5. RawType'
    BY <1>1, <2>1, <2>2 DEF RawType
  <2>6. CutType'
    BY <1>1, <2>1, <2>3 DEF CutType
  <2>7. ReqsType'
    <3>1. CASE req' = req
      BY <1>1, <3>1 DEF ReqsType
    <3>2. ASSUME NEW z, req' = [req EXCEPT ![c] = z], stage' = [stage EXCEPT ![c] = "handling"]
          PROVE  ReqsType'
      <4>1. stage'[c] = "handling"
        BY <3>2 DEF HttpTypeOK
      <4> QED
        BY <1>1, <2>1, <3>2, <4>1 DEF ReqsType
    <3> QED
      BY <2>4, <3>1, <3>2
  <2> QED
    BY <2>5, <2>6, <2>7
<1>3. ASSUME NEW c \in Clients, Ending(c) PROVE RawType' /\ ReqsType' /\ CutType'
  <2>1. rawReq_' = [rawReq_ EXCEPT ![c] = <<>>] /\ req' = req /\ cut' = cut
    BY <1>3 DEF Ending
  <2> QED
    BY <1>1, <2>1 DEF RawType, ReqsType, CutType
<1>4. ASSUME NEW c \in Clients, Respond(c) PROVE RawType' /\ ReqsType' /\ CutType'
  <2>1. rawReq_' = [rawReq_ EXCEPT ![c] = <<>>] /\ req' = [req EXCEPT ![c] = NoRequest] /\ cut' = cut
    BY <1>4 DEF Respond
  <2>2. NoRequest \in Parsed
    BY Bounds DEF NoRequest, Parsed
  <2> QED
    BY <1>1, <2>1, <2>2 DEF RawType, ReqsType, CutType
<1>5. ASSUME NEW c \in Clients,
             \/ Connect(c) \/ Stall(c) \/ Accept(c) \/ HangUp(c) \/ \E r \in Requests : Ask(c, r)
             \/ HandleOthers(c) \/ HandleUpload(c) \/ Open(c) \/ Write(c)
      PROVE  rawReq_' = rawReq_ /\ req' = req /\ cut' = cut
  BY <1>5 DEF Connect, Stall, Accept, HangUp, Ask, HandleOthers, HandleUpload, Open, Write
<1>6. ASSUME AcceptFails PROVE rawReq_' = rawReq_ /\ req' = req /\ cut' = cut
  BY <1>6 DEF AcceptFails
<1>7. ASSUME rawReq_' = rawReq_ /\ req' = req /\ cut' = cut PROVE RawType' /\ ReqsType' /\ CutType'
  BY <1>1, <1>7 DEF RawType, ReqsType, CutType
<1> QED
  BY <1>2, <1>3, <1>4, <1>5, <1>6, <1>7 DEF HttpNext, Serve, Handle

LEMMA StageTypeStep == ASSUME HttpTypeOK, HttpNext PROVE StageType'
<1>1. StageType
  BY HttpTypeParts
<1>2. ASSUME NEW c \in Clients,
             \E s \in {"opening", "writing", "sending", "idle"} : stage' = [stage EXCEPT ![c] = s],
             stage[c] # "idle"
      PROVE  StageType'
  BY <1>1, <1>2, NoMoreAtWork DEF StageType
<1>3. ASSUME NEW c \in Clients, Handle(c)
      PROVE  (\E s \in {"opening", "writing", "sending", "idle"} : stage' = [stage EXCEPT ![c] = s]) /\ stage[c] # "idle"
  BY <1>3 DEF Handle, HandleOthers, HandleUpload, Open, Write, Respond, Answer
<1>4. ASSUME NEW c \in Clients, Input(c) PROVE StageType'
  <2>1. ThreadFree /\ (stage' = stage \/ stage' = [stage EXCEPT ![c] = "handling"])
    BY <1>4 DEF Input
  <2>2. CASE stage' = stage
    BY <1>1, <2>2 DEF StageType, AtWork
  <2>3. CASE stage' = [stage EXCEPT ![c] = "handling"]
    BY <1>1, <2>1, <2>3, OneMoreAtWork DEF StageType
  <2> QED
    BY <2>1, <2>2, <2>3
<1>5. ASSUME NEW c \in Clients,
             \/ Connect(c) \/ Stall(c) \/ Accept(c) \/ HangUp(c) \/ \E r \in Requests : Ask(c, r)
             \/ Ending(c)
      PROVE  stage' = stage
  BY <1>5 DEF Connect, Stall, Accept, HangUp, Ask, Ending
<1>6. ASSUME AcceptFails PROVE stage' = stage
  BY <1>6 DEF AcceptFails
<1>7. ASSUME stage' = stage PROVE StageType'
  BY <1>1, <1>7 DEF StageType, AtWork
<1> QED
  BY <1>2, <1>3, <1>4, <1>5, <1>6, <1>7 DEF HttpNext, Serve

LEMMA HandledTypeStep ==
    ASSUME HttpTypeOK, \A c \in Clients : Served(c), HttpNext
    PROVE  HandledType' /\ AnswersType'
<1> DEFINE S == [of : 1..MaxRequests, status : {200, 303, 500}]
<1>1. handled \in [Clients -> Seq(Parsed)] /\ answers \in [Clients -> Seq(S)] /\ ReqsType
  BY HttpTypeParts DEF HandledType, AnswersType
<1>2. ASSUME NEW c \in Clients, HandleOthers(c) \/ HandleUpload(c)
      PROVE  handled' \in [Clients -> Seq(Parsed)] /\ answers' = answers
  <2>1. handled' = [handled EXCEPT ![c] = Append(@, req[c])] /\ answers' = answers
    BY <1>2 DEF HandleOthers, HandleUpload
  <2>2. Append(handled[c], req[c]) \in Seq(Parsed)
    BY <1>1, OneMoreAt DEF ReqsType
  <2> QED
    BY <1>1, <2>1, <2>2
<1>3. ASSUME NEW c \in Clients, Respond(c)
      PROVE  handled' = handled /\ answers' \in [Clients -> Seq(S)]
  <2> DEFINE x == [of |-> req[c].of, status |-> status[c]]
  <2>1. /\ handled' = handled
        /\ answers' = [answers EXCEPT ![c] = IF HungUp(c) THEN @ ELSE Append(@, x)]
    BY <1>3 DEF Respond
  <2>2. x \in S
    <3>1. req[c].of \in 1..MaxRequests
      BY <1>3, RespondServed
    <3>2. status[c] \in {200, 303, 500}
      BY DEF HttpTypeOK
    <3> QED
      BY <3>1, <3>2
  <2> HIDE DEF S, x
  <2>3. Append(answers[c], x) \in Seq(S)
    BY <1>1, <2>2, OneMoreAt
  <2> QED
    BY <1>1, <2>1, <2>3
<1>4. ASSUME NEW c \in Clients,
             \/ Connect(c) \/ Stall(c) \/ Accept(c) \/ HangUp(c) \/ \E r \in Requests : Ask(c, r)
             \/ Ending(c) \/ Input(c) \/ Open(c) \/ Write(c)
      PROVE  handled' = handled /\ answers' = answers
  BY <1>4 DEF Connect, Stall, Accept, HangUp, Ask, Ending, Input, Open, Write
<1>5. ASSUME AcceptFails PROVE handled' = handled /\ answers' = answers
  BY <1>5 DEF AcceptFails
<1> HIDE DEF S
<1>6. handled' \in [Clients -> Seq(Parsed)] /\ answers' \in [Clients -> Seq(S)]
  BY <1>1, <1>2, <1>3, <1>4, <1>5 DEF HttpNext, Serve, Handle
<1> QED
  BY <1>6 DEF HandledType, AnswersType, S

LEMMA FilesTypeStep ==
    ASSUME HttpTypeOK, \A c \in Clients : Served(c), HttpNext
    PROVE  FilesType' /\ RestType'
<1>1. FilesType /\ RestType
  BY HttpTypeParts
<1>2. ASSUME NEW c \in Clients, Open(c) PROVE FilesType' /\ RestType'
  <2> DEFINE name == Asked(c).file
  <2>1. /\ files' = [f \in DOMAIN files \cup {name} |-> IF f = name THEN <<>> ELSE files[f]]
        /\ mixed' \subseteq mixed \cup {name}
        /\ UNCHANGED <<acceptor, failures, status, stalled>> /\ stage[c] = "opening"
    BY <1>2 DEF Open, serverVars
  <2>2. name \in FileNames
    <3>1. name # "" /\ req[c].of \in 1..Latest(c)
      BY <2>1 DEF Served, Busy, AsAsked
    <3>2. sent[c][req[c].of] \in Requests
      <4>1. sent[c] \in Seq(Requests)
        BY DEF HttpTypeOK
      <4>2. req[c].of \in 1..Len(sent[c])
        BY <3>1 DEF Latest
      <4> QED
        BY <4>1, <4>2
    <3> QED
      BY <3>1, <3>2, Ready DEF Asked, RequestTypes
  <2> HIDE DEF name
  <2>3. <<>> \in Seq(Clients)
    OBVIOUS
  <2> QED
    BY <1>1, <2>1, <2>2, <2>3 DEF FilesType, RestType
<1>3. ASSUME NEW c \in Clients, Write(c) PROVE FilesType' /\ RestType'
  <2> DEFINE name == Asked(c).file
             mine == [i \in DOMAIN req[c].body |-> c]
             old  == files[name]
  <2>1. /\ files' = [files EXCEPT ![name] = mine \o SubSeq(old, Len(mine) + 1, Len(old))]
        /\ UNCHANGED <<acceptor, failures, stalled, mixed>> /\ status' = [status EXCEPT ![c] = 303]
    BY <1>3 DEF Write, Answer, serverVars
  <2>2. req[c].body \in Seq(AllPieces)
    BY ReqType DEF Parsed
  <2>3. mine \in Seq(Clients) /\ Len(mine) \in Nat
    <3>1. Len(req[c].body) \in Nat /\ DOMAIN req[c].body = 1..Len(req[c].body)
      BY <2>2
    <3>2. mine \in [1..Len(req[c].body) -> Clients]
      BY <3>1
    <3> HIDE DEF mine
    <3> QED
      BY <3>1, <3>2, CellsType
  <2> HIDE DEF mine, name
  <2>4. name \in DOMAIN files => mine \o SubSeq(old, Len(mine) + 1, Len(old)) \in Seq(Clients)
    <3> SUFFICES ASSUME name \in DOMAIN files PROVE mine \o SubSeq(old, Len(mine) + 1, Len(old)) \in Seq(Clients)
      OBVIOUS
    <3>1. old \in Seq(Clients)
      BY <1>1 DEF FilesType
    <3> HIDE DEF old
    <3>2. SubSeq(old, Len(mine) + 1, Len(old)) \in Seq(Clients)
      BY <2>3, <3>1
    <3> QED
      BY <2>3, <3>2, JoinType
  <2>5. FilesType'
    BY <1>1, <2>1, <2>4 DEF FilesType
  <2>6. RestType'
    BY <1>1, <2>1 DEF RestType
  <2> QED
    BY <2>5, <2>6
<1>4. ASSUME NEW c \in Clients,
             \/ Connect(c) \/ Accept(c) \/ HangUp(c) \/ \E r \in Requests : Ask(c, r)
             \/ Ending(c) \/ Input(c) \/ HandleOthers(c) \/ HandleUpload(c) \/ Respond(c) \/ Stall(c)
      PROVE  FilesType' /\ RestType'
  <2>1. files' = files /\ mixed' = mixed /\ acceptor' = acceptor /\ failures' = failures
    BY <1>4 DEF Connect, Stall, Accept, HangUp, Ask, Ending, Input, HandleOthers, HandleUpload, Respond, serverVars
  <2>2. stalled' = stalled \/ stalled' = stalled \cup {c}
    BY <1>4 DEF Connect, Stall, Accept, HangUp, Ask, Ending, Input, HandleOthers, HandleUpload, Respond
  <2>3. status' = status \/ \E v \in {200, 303, 500} : status' = [status EXCEPT ![c] = v]
    BY <1>4 DEF Connect, Stall, Accept, HangUp, Ask, Ending, Input, HandleOthers, HandleUpload, Respond, Answer
  <2> QED
    BY <1>1, <2>1, <2>2, <2>3 DEF FilesType, RestType
<1>5. ASSUME AcceptFails PROVE FilesType' /\ RestType'
  <2>1. UNCHANGED <<files, mixed, status, stalled>> /\ acceptor' = "closed" /\ failures' = failures + 1
        /\ failures < MaxFailures
    BY <1>5 DEF AcceptFails
  <2>2. MaxFailures \in Nat
    BY ClientAssumption, Zenon DEF ClientAssumption
  <2> QED
    BY <1>1, <2>1, <2>2 DEF FilesType, RestType
<1> QED
  BY <1>2, <1>3, <1>4, <1>5 DEF HttpNext, Serve, Handle

LEMMA HttpTypeStep ==
    ASSUME HttpTypeOK, \A c \in Clients : Served(c), HttpNext
    PROVE  HttpTypeOK'
<1>1. /\ ConnType' /\ SentType' /\ WireType' /\ RawType' /\ StageType' /\ ReqsType'
      /\ FilesType' /\ HandledType' /\ AnswersType' /\ CutType' /\ RestType'
  BY ConnTypeStep, SentTypeStep, WireTypeStep, RawTypeStep, StageTypeStep, HandledTypeStep, FilesTypeStep
<1> QED
  BY <1>1 DEF HttpTypeOK, ConnType, SentType, WireType, RawType, StageType, ReqsType, FilesType,
              HandledType, AnswersType, CutType, RestType, AtWork

-----------------------------------------------------------------------------
(* The invariant, and what follows.                                        *)

LEMMA ServedStep ==
    ASSUME ~Pipelining, HttpTypeOK, NEW d \in Clients, Served(d), HttpNext
    PROVE  Served(d)'
<1>1. ASSUME NEW c \in Clients, c # d, 
             \/ Connect(c) \/ HangUp(c) \/ Stall(c) \/ (\E r \in Requests : Ask(c, r)) \/ Serve(c)
      PROVE  Untouched(d)
  <2>1. \/ Connect(c) \/ Stall(c) \/ Accept(c) \/ HangUp(c) \/ (\E r \in Requests : Ask(c, r))
        \/ Ending(c) \/ Input(c) \/ HandleOthers(c) \/ HandleUpload(c) \/ Open(c) \/ Write(c) \/ Respond(c)
    BY <1>1 DEF Serve, Handle
  <2>2. \A f : \A x : [f EXCEPT ![c] = x][d] = f[d] \/ d \notin DOMAIN f
    BY <1>1
  <2>3. /\ d \in DOMAIN conn /\ d \in DOMAIN sent /\ d \in DOMAIN wire /\ d \in DOMAIN rawReq_
        /\ d \in DOMAIN stage /\ d \in DOMAIN req /\ d \in DOMAIN handled /\ d \in DOMAIN answers
        /\ d \in DOMAIN cut
    BY DEF HttpTypeOK
  <2>4. CASE Connect(c) \/ Stall(c) \/ Accept(c) \/ HangUp(c) \/ \E r \in Requests : Ask(c, r)
    BY <1>1, <2>3, <2>4 DEF Untouched, Connect, Stall, Accept, HangUp, Ask
  <2>5. CASE Ending(c) \/ Input(c)
    BY <1>1, <2>3, <2>5 DEF Untouched, Ending, Input, Closed
  <2>6. CASE HandleOthers(c) \/ HandleUpload(c) \/ Open(c) \/ Write(c)
    BY <1>1, <2>3, <2>6 DEF Untouched, HandleOthers, HandleUpload, Open, Write, Answer
  <2>7. CASE Respond(c)
    BY <1>1, <2>3, <2>7 DEF Untouched, Respond, Closed
  <2> QED
    BY <2>1, <2>4, <2>5, <2>6, <2>7
<1>2. CASE Connect(d) \/ Accept(d)
  BY <1>2, ConnServed DEF Connect, Accept
<1>3. CASE AcceptFails
  <2>1. CASE conn[d] = "waiting"
    BY <1>3, <2>1, ConnServed DEF AcceptFails
  <2>2. CASE conn[d] # "waiting"
    <3>1. Untouched(d)
      BY <1>3, <2>2 DEF AcceptFails, Untouched
    <3> QED
      BY <3>1, ServedKept
  <2> QED
    BY <2>1, <2>2
<1>4. CASE Stall(d)
  <2>1. Untouched(d)
    BY <1>4 DEF Stall, Untouched
  <2> QED
    BY <2>1, ServedKept
<1> QED
  BY <1>1, <1>2, <1>3, <1>4, ServedKept, HangUpServed, AskServed, EndingServed, InputServed,
     OpenServed, HandleServed, RespondServed
  DEF HttpNext, Serve, Handle

LEMMA ServedInit == HttpInit => ServedInv
<1> SUFFICES ASSUME HttpInit PROVE ServedInv
  OBVIOUS
<1>1. \A c \in Clients : /\ conn[c] = "none" /\ sent[c] = <<>> /\ wire[c] = <<>> /\ rawReq_[c] = <<>>
                         /\ stage[c] = "idle" /\ req[c] = NoRequest /\ handled[c] = <<>>
                         /\ answers[c] = <<>> /\ cut[c] = {}
  BY DEF HttpInit
<1>2. AtWork = {}
  BY <1>1 DEF AtWork
<1>3. ConnType /\ CutType
  BY DEF HttpInit, ConnType, CutType
<1>4. SentType /\ WireType /\ RawType
  BY Bounds DEF HttpInit, SentType, WireType, RawType
<1>5. StageType
  <2>1. Cardinality(AtWork) = 0
    BY <1>2, FS_EmptySet
  <2> QED
    BY <2>1, Bounds DEF HttpInit, StageType
<1>6. ReqsType /\ HandledType /\ AnswersType
  <2>1. NoRequest \in Parsed
    BY Bounds DEF NoRequest, Parsed
  <2> QED
    BY <2>1 DEF HttpInit, ReqsType, HandledType, AnswersType
<1>7. FilesType /\ RestType
  <2>1. MaxFailures \in Nat
    BY ClientAssumption, Zenon DEF ClientAssumption
  <2> QED
    BY <2>1 DEF HttpInit, FilesType, RestType
<1>8. ASSUME NEW c \in Clients PROVE Served(c)
  <2>1. Busy(c)
    BY <1>1 DEF Busy
  <2>2. Size(c) = 0 /\ Latest(c) = 0 /\ Left(c, 0) = 0
    BY <1>1 DEF Size, Latest, Left
  <2>3. Done(c)
    BY <1>1, <2>2 DEF Done, Increasing, Below
  <2>4. At(c, 0)
    BY <1>1, <2>2 DEF At, Follows, Kept, Awaited
  <2> QED
    BY <2>1, <2>3, <2>4 DEF Served
<1> QED
  BY <1>3, <1>4, <1>5, <1>6, <1>7, <1>8, HttpTypeParts DEF ServedInv

LEMMA ServedInvStep == ~Pipelining /\ ServedInv /\ [HttpNext]_httpVars => ServedInv'
<1> SUFFICES ASSUME ~Pipelining, ServedInv, [HttpNext]_httpVars PROVE ServedInv'
  OBVIOUS
<1>1. CASE HttpNext
  BY <1>1, HttpTypeStep, ServedStep DEF ServedInv
<1>2. CASE UNCHANGED httpVars
  <2>1. HttpTypeOK'
    <3>1. /\ acceptor' = acceptor /\ failures' = failures /\ conn' = conn /\ sent' = sent /\ wire' = wire
          /\ rawReq_' = rawReq_ /\ stage' = stage /\ req' = req /\ status' = status /\ stalled' = stalled
          /\ files' = files /\ mixed' = mixed /\ handled' = handled /\ answers' = answers /\ cut' = cut
      BY <1>2 DEF httpVars, serverVars
    <3>2. HttpTypeOK
      BY DEF ServedInv
    <3>3. ConnType' /\ WireType' /\ RawType' /\ ReqsType'
      BY <3>1, <3>2, HttpTypeParts DEF ConnType, WireType, RawType, ReqsType
    <3>5. SentType'
      BY <3>1, <3>2, HttpTypeParts DEF SentType
    <3>6. FilesType'
      BY <3>1, <3>2, HttpTypeParts DEF FilesType
    <3>7. AtWork' = AtWork
      BY <3>1 DEF AtWork
    <3>8. StageType'
      BY <3>1, <3>2, <3>7, HttpTypeParts DEF StageType
    <3>9. HandledType' /\ AnswersType'
      BY <3>1, <3>2, HttpTypeParts DEF HandledType, AnswersType
    <3>10. CutType' /\ RestType'
      BY <3>1, <3>2, HttpTypeParts DEF CutType, RestType
    <3>4. StageType' /\ HandledType' /\ AnswersType' /\ CutType' /\ RestType'
      BY <3>8, <3>9, <3>10
    <3> QED
      BY <3>3, <3>4, <3>5, <3>6 DEF HttpTypeOK, ConnType, SentType, WireType, RawType, StageType, ReqsType, FilesType,
              HandledType, AnswersType, CutType, RestType, AtWork
  <2>2. \A c \in Clients : Untouched(c)
    BY <1>2 DEF Untouched, httpVars
  <2> QED
    BY <2>1, <2>2, ServedKept DEF ServedInv
<1> QED
  BY <1>1, <1>2

LEMMA ServedAlways == ASSUME ~Pipelining PROVE HttpSpec => []ServedInv
<1>1. ServedInv /\ [HttpNext]_httpVars => ServedInv'
  BY ServedInvStep
<1> QED
  BY ServedInit, <1>1, PTL DEF HttpSpec

\* Of clients that await each answer no request is done or answered twice or out of turn, and
\* each is done as it was asked unless its first line came in two reads
\* (ClientService::handle_input(), HttpRequest::parse()).
THEOREM RequestsDoneOnce == ASSUME ~Pipelining PROVE HttpSpec => []DoneOnceAsAsked
<1>1. ServedInv => DoneOnceAsAsked
  BY DEF ServedInv, Served, Done, DoneOnceAsAsked, DoneOnce, DoneAsAsked, AsAsked
<1> QED
  BY <1>1, ServedAlways, PTL

-----------------------------------------------------------------------------
(* Uploads.                                                                *)

\* What a file consists of stays so as long as it is not opened or written.
LEMMA UploadKept ==
    ASSUME NEW c, NEW i, NEW f, Done(c), IsUpload(c, i, f),
           \A k \in 1..Len(sent[c]) : sent'[c][k] = sent[c][k],
           DOMAIN handled[c] \subseteq DOMAIN handled'[c],
           \A k \in DOMAIN handled[c] : handled'[c][k] = handled[c][k]
    PROVE  IsUpload(c, i, f)'
<1>1. i \in DOMAIN handled[c] /\ sent[c][handled[c][i].of].file = f
  BY DEF IsUpload
<1>2. handled'[c][i] = handled[c][i] /\ i \in DOMAIN handled'[c]
  BY <1>1
<1>3. handled[c][i].of \in 1..Len(sent[c])
  BY <1>1 DEF Done, AsAsked, Latest
<1>4. sent'[c][handled'[c][i].of] = sent[c][handled[c][i].of]
  BY <1>2, <1>3
<1> QED
  BY <1>1, <1>2, <1>4 DEF IsUpload

FileStays(f) ==
    /\ OneUpload(f) => OneUpload(f)'
    /\ BeginsWhole(f) => BeginsWhole(f)'
    /\ InPlace(f) => InPlace(f)'

LEMMA FileKept ==
    ASSUME NEW f \in DOMAIN files, FilesType, \A c \in Clients : Done(c),
           \A c \in Clients : \A k \in 1..Len(sent[c]) : sent'[c][k] = sent[c][k],
           \A c \in Clients : DOMAIN handled[c] \subseteq DOMAIN handled'[c],
           \A c \in Clients : \A k \in DOMAIN handled[c] : handled'[c][k] = handled[c][k],
           files'[f] = files[f]
    PROVE  FileStays(f)
<1>1. \A c \in Clients : \A i \in DOMAIN handled[c] :
          IsUpload(c, i, f) =>
             IsUpload(c, i, f)' /\ i \in DOMAIN handled'[c] /\ handled'[c][i] = handled[c][i]
  <2> SUFFICES ASSUME NEW c \in Clients, NEW i \in DOMAIN handled[c], IsUpload(c, i, f)
               PROVE  IsUpload(c, i, f)' /\ i \in DOMAIN handled'[c] /\ handled'[c][i] = handled[c][i]
    OBVIOUS
  <2>1. IsUpload(c, i, f)'
    BY UploadKept
  <2> QED
    BY <2>1
<1>2. OneUpload(f) => OneUpload(f)'
  BY <1>1 DEF OneUpload
<1>3. BeginsWhole(f) => BeginsWhole(f)'
  BY <1>1 DEF BeginsWhole
<1>4. ASSUME InPlace(f) PROVE InPlace(f)'
  <2>1. \A b \in DOMAIN files[f] : files[f][b] \in Clients
    BY DEF FilesType
  <2> SUFFICES ASSUME NEW b \in DOMAIN files[f]
               PROVE  \E i \in DOMAIN handled'[files[f][b]] :
                          IsUpload(files[f][b], i, f)' /\ b \in DOMAIN handled'[files[f][b]][i].body
    BY DEF InPlace
  <2>2. PICK d \in Clients : d = files[f][b]
    BY <2>1
  <2>3. PICK i \in DOMAIN handled[d] : IsUpload(d, i, f) /\ b \in DOMAIN handled[d][i].body
    BY <1>4, <2>2 DEF InPlace
  <2>4. IsUpload(d, i, f)' /\ i \in DOMAIN handled'[d] /\ handled'[d][i] = handled[d][i]
    BY <1>1, <2>3
  <2>5. IsUpload(files[f][b], i, f)'
    BY <2>2, <2>4 DEF IsUpload
  <2> QED
    BY <2>2, <2>3, <2>4, <2>5
<1> QED
  BY <1>2, <1>3, <1>4 DEF FileStays

\* What was asked and done stays.
LEMMA HistoryGrows ==
    ASSUME HttpTypeOK, HttpNext, NEW c \in Clients
    PROVE  /\ \A i \in 1..Len(sent[c]) : sent'[c][i] = sent[c][i]
           /\ DOMAIN handled[c] \subseteq DOMAIN handled'[c]
           /\ \A i \in DOMAIN handled[c] : handled'[c][i] = handled[c][i]
<1>1. sent[c] \in Seq(Requests) /\ DOMAIN sent = Clients
  BY DEF HttpTypeOK
<1>2. handled[c] \in Seq(Parsed) /\ DOMAIN handled = Clients /\ \A e \in Clients : req[e] \in Parsed
  BY DEF HttpTypeOK
<1>3. sent'[c] = sent[c] \/ \E r \in Requests : sent'[c] = Append(sent[c], r)
  <2>1. ASSUME NEW d \in Clients, NEW r \in Requests, Ask(d, r)
        PROVE  sent'[c] = sent[c] \/ sent'[c] = Append(sent[c], r)
    BY <1>1, <2>1 DEF Ask
  <2>2. ASSUME NEW d \in Clients,
               \/ Connect(d) \/ Stall(d) \/ Accept(d) \/ HangUp(d) \/ Ending(d) \/ Input(d)
               \/ HandleOthers(d) \/ HandleUpload(d) \/ Open(d) \/ Write(d) \/ Respond(d) \/ AcceptFails
        PROVE  sent' = sent
    BY <2>2 DEF Connect, Stall, Accept, HangUp, Ending, Input, HandleOthers, HandleUpload, Open, Write,
                Respond, AcceptFails
  <2> QED
    BY <2>1, <2>2 DEF HttpNext, Serve, Handle
<1>4. handled'[c] = handled[c] \/ handled'[c] = Append(handled[c], req[c])
  <2>1. ASSUME NEW d \in Clients, HandleOthers(d) \/ HandleUpload(d)
        PROVE  handled'[c] = handled[c] \/ handled'[c] = Append(handled[c], req[c])
    BY <1>2, <2>1 DEF HandleOthers, HandleUpload
  <2>2. ASSUME NEW d \in Clients,
               \/ Connect(d) \/ Stall(d) \/ Accept(d) \/ HangUp(d) \/ Ending(d) \/ Input(d)
               \/ Open(d) \/ Write(d) \/ Respond(d) \/ AcceptFails \/ \E r \in Requests : Ask(d, r)
        PROVE  handled' = handled
    BY <2>2 DEF Connect, Stall, Accept, HangUp, Ending, Input, Open, Write, Ask, Respond, AcceptFails
  <2> QED
    BY <2>1, <2>2 DEF HttpNext, Serve, Handle
<1>5. \A i \in 1..Len(sent[c]) : sent'[c][i] = sent[c][i]
  <2>1. CASE sent'[c] = sent[c]
    BY <2>1
  <2>2. ASSUME NEW r \in Requests, sent'[c] = Append(sent[c], r)
        PROVE  \A i \in 1..Len(sent[c]) : sent'[c][i] = sent[c][i]
    BY <1>1, <2>2, OneMoreAt
  <2> QED
    BY <1>3, <2>1, <2>2
<1>6. /\ DOMAIN handled[c] \subseteq DOMAIN handled'[c]
      /\ \A i \in DOMAIN handled[c] : handled'[c][i] = handled[c][i]
  BY <1>2, <1>4, OneMoreAt
<1> QED
  BY <1>5, <1>6

\* A file that nobody opens or writes, its writers being the same, stays as it must be.
Same(f) == /\ \A d \in Clients : (stage[d] = "writing" /\ Asked(d).file = f)' <=>
                                 (stage[d] = "writing" /\ Asked(d).file = f)
           /\ files'[f] = files[f] /\ (f \in mixed' <=> f \in mixed)

LEMMA SameFile ==
    ASSUME ServedInv, FilesInv, HttpNext, NEW f \in DOMAIN files, Same(f)
    PROVE  (Layered(f) /\ (f \notin mixed => Alone(f)))'
<1>1. HttpTypeOK /\ \A c \in Clients : Done(c)
  BY DEF ServedInv, Served
<1>2. FilesType
  BY <1>1, HttpTypeParts
<1>3. files'[f] = files[f]
  BY DEF Same
<1>4. FileStays(f)
  BY <1>1, <1>2, <1>3, HistoryGrows, FileKept
<1>5. Writing(f)' <=> Writing(f)
  BY DEF Same, Writing
<1>6. Layered(f)'
  BY <1>3, <1>4, <1>5 DEF FilesInv, Layered, FileStays
<1>7. ASSUME f \notin mixed' PROVE Alone(f)'
  <2>1. Alone(f)
    BY <1>7 DEF FilesInv, Same
  <2>2. ~Writing(f)' => OneUpload(f)'
    BY <1>4, <1>5, <2>1 DEF Alone, FileStays
  <2>3. Writing(f)' => files'[f] = <<>>
    BY <1>3, <1>5, <2>1 DEF Alone
  <2>4. \A c, d \in Clients : (stage[c] = "writing" /\ Asked(c).file = f)' /\
                              (stage[d] = "writing" /\ Asked(d).file = f)' => c = d
    BY <2>1 DEF Same, Alone
  <2> QED
    BY <2>2, <2>3, <2>4 DEF Alone
<1> QED
  BY <1>6, <1>7

LEMMA FilesOpen ==
    ASSUME ServedInv, FilesInv, HttpNext, NEW c \in Clients, Open(c)
    PROVE  FilesInv'
<1> DEFINE name == Asked(c).file
<1>1. /\ files' = [f \in DOMAIN files \cup {name} |-> IF f = name THEN <<>> ELSE files[f]]
      /\ mixed' = IF Writing(name) THEN mixed \cup {name} ELSE mixed \ {name}
      /\ stage[c] = "opening" /\ stage' = [stage EXCEPT ![c] = "writing"]
      /\ sent' = sent /\ req' = req
  BY DEF Open
<1>2. DOMAIN stage = Clients
  BY DEF ServedInv, HttpTypeOK
<1>3. \A d \in Clients : (Asked(d))' = Asked(d)
  BY <1>1 DEF Asked
<1>4. PICK nm : nm = name
  OBVIOUS
<1>5. Writing(nm)' /\ files'[nm] = <<>> /\ DOMAIN files' = DOMAIN files \cup {nm}
  BY <1>1, <1>2, <1>3, <1>4 DEF Writing
<1>6. ASSUME NEW f \in DOMAIN files, f # nm PROVE Same(f)
  BY <1>1, <1>2, <1>3, <1>4, <1>6 DEF Same
<1>7. Layered(nm)'
  BY <1>5 DEF Layered
<1>8. ASSUME nm \notin mixed' PROVE Alone(nm)'
  <2>1. ~Writing(nm)
    BY <1>1, <1>4, <1>8
  <2>2. ASSUME NEW d \in Clients, stage'[d] = "writing", (Asked(d))'.file = nm PROVE d = c
    BY <1>1, <1>2, <1>3, <2>1, <2>2 DEF Writing
  <2> QED
    BY <1>5, <2>2 DEF Alone
<1>9. ASSUME NEW f \in DOMAIN files' PROVE (Layered(f) /\ (f \notin mixed => Alone(f)))'
  <2>1. CASE f = nm
    BY <1>7, <1>8, <2>1
  <2>2. CASE f # nm
    BY <1>5, <1>6, <2>2, SameFile
  <2> QED
    BY <2>1, <2>2
<1>10. \A d \in Clients : stage'[d] = "writing" => (Asked(d))'.file \in DOMAIN files'
  BY <1>1, <1>2, <1>3, <1>4, <1>5 DEF FilesInv
<1> QED
  BY <1>9, <1>10 DEF FilesInv

\* What write() leaves: the writer's pieces, and what was behind them.
LEMMA WriteLeaves ==
    ASSUME ServedInv, FilesInv, NEW c \in Clients, Write(c), NEW f, f = Asked(c).file
    PROVE  \E n \in Nat, i \in DOMAIN handled[c] :
              /\ IsUpload(c, i, f)' /\ DOMAIN handled'[c][i].body = 1..n
              /\ f \in DOMAIN files /\ DOMAIN files' = DOMAIN files
              /\ \A b \in 1..n : b \in DOMAIN files'[f] /\ files'[f][b] = c
              /\ \A b \in DOMAIN files'[f] : b \notin 1..n => b \in DOMAIN files[f] /\ files'[f][b] = files[f][b]
              /\ files[f] = <<>> => files'[f] = [b \in 1..n |-> c]
<1> DEFINE mine == [i \in DOMAIN req[c].body |-> c]
           old  == files[f]
           n    == Asked(c).body
<1>1. /\ files' = [files EXCEPT ![f] = mine \o SubSeq(old, Len(mine) + 1, Len(old))]
      /\ stage[c] = "writing" /\ sent' = sent /\ handled' = handled
  BY DEF Write, Answer
<1>2. HttpTypeOK /\ Busy(c)
  BY DEF ServedInv, Served
<1>3. /\ AsAsked(c, req[c]) /\ handled[c] # <<>> /\ handled[c][Len(handled[c])] = req[c] /\ f # ""
  BY <1>1, <1>2 DEF Busy
<1>4. f \in DOMAIN files
  BY <1>1 DEF FilesInv
<1>5. n \in Nat
  <2>1. sent[c] \in Seq(Requests)
    BY <1>2 DEF HttpTypeOK
  <2>2. req[c].of \in 1..Len(sent[c])
    BY <1>3 DEF AsAsked, Latest
  <2>3. Asked(c) \in Requests
    BY <2>1, <2>2 DEF Asked
  <2> QED
    BY <2>3, Ready
<1>6. req[c].body = [b \in 1..n |-> Piece(req[c].of, "body")]
  BY <1>3 DEF AsAsked, Asked
<1>7. mine = [b \in 1..n |-> c]
  BY <1>6
<1>8. old \in Seq(Clients)
  BY <1>2, <1>4 DEF HttpTypeOK
<1>10. PICK i : i = Len(handled[c])
  OBVIOUS
<1>11. i \in DOMAIN handled[c] /\ handled'[c][i] = req[c]
  <2>1. handled[c] \in Seq(Parsed)
    BY <1>2 DEF HttpTypeOK
  <2>2. \A h \in Seq(Parsed) : h # <<>> => Len(h) \in 1..Len(h) /\ DOMAIN h = 1..Len(h)
    OBVIOUS
  <2>3. Len(handled[c]) \in DOMAIN handled[c]
    BY <1>3, <2>1, <2>2
  <2> QED
    BY <1>1, <1>3, <1>10, <2>3
<1>12. IsUpload(c, i, f)'
  BY <1>1, <1>11 DEF IsUpload, Asked
<1>13. DOMAIN handled'[c][i].body = 1..n
  BY <1>6, <1>11
<1>14. PICK new : new = mine \o SubSeq(old, Len(mine) + 1, Len(old))
  OBVIOUS
<1>15. files'[f] = new /\ f \in DOMAIN files /\ DOMAIN files' = DOMAIN files
  BY <1>1, <1>4, <1>14
<1> HIDE DEF n, mine, old
<1>16. /\ \A b \in 1..n : b \in DOMAIN new /\ new[b] = c
       /\ \A b \in DOMAIN new : b \notin 1..n => b \in DOMAIN old /\ new[b] = old[b]
       /\ old = <<>> => new = [b \in 1..n |-> c]
  <2>1. mine \in Seq(Clients) /\ Len(mine) = n /\ \A b \in 1..n : mine[b] = c
    BY <1>5, <1>7, CellsType
  <2>2. PICK m \in Nat : m = Len(old) /\ DOMAIN old = 1..m
    BY <1>8
  <2>3. PICK rest : rest = SubSeq(old, n + 1, m)
    OBVIOUS
  <2>4. /\ rest \in Seq(Clients) /\ Len(rest) = (IF n < m THEN m - n ELSE 0)
        /\ \A k \in 1..Len(rest) : n + k \in 1..m /\ rest[k] = old[n + k]
    BY <1>5, <1>8, <2>2, <2>3
  <2>5. new = mine \o rest
    BY <1>14, <2>1, <2>2, <2>3
  <2>6. /\ new \in Seq(Clients) /\ Len(new) = n + Len(rest)
        /\ \A k \in 1..n : new[k] = mine[k]
        /\ \A k \in 1..Len(rest) : new[n + k] = rest[k]
    BY <2>1, <2>4, <2>5, JoinIs
  <2>7. Len(rest) \in Nat /\ DOMAIN new = 1..(n + Len(rest))
    BY <2>4, <2>6
  <2>8. \A b \in 1..n : b \in DOMAIN new /\ new[b] = c
    BY <1>5, <2>1, <2>6, <2>7
  <2>9. ASSUME NEW b \in DOMAIN new, b \notin 1..n PROVE b \in DOMAIN old /\ new[b] = old[b]
    <3>1. b - n \in 1..Len(rest) /\ n + (b - n) = b
      BY <1>5, <2>7, <2>9
    <3> QED
      BY <2>2, <2>4, <2>6, <3>1
  <2>10. ASSUME old = <<>> PROVE new = [b \in 1..n |-> c]
    <3>1. Len(rest) = 0
      BY <1>5, <2>2, <2>4, <2>10
    <3>2. rest = <<>>
      BY <2>4, <3>1
    <3>3. new = mine
      BY <2>1, <2>5, <3>2
    <3> QED
      BY <1>7, <3>3
  <2> QED
    BY <2>8, <2>9, <2>10
<1>17. /\ \A b \in 1..n : b \in DOMAIN files'[f] /\ files'[f][b] = c
       /\ \A b \in DOMAIN files'[f] : b \notin 1..n => b \in DOMAIN files[f] /\ files'[f][b] = files[f][b]
       /\ files[f] = <<>> => files'[f] = [b \in 1..n |-> c]
  BY <1>15, <1>16 DEF old
<1> QED
  BY <1>5, <1>11, <1>12, <1>13, <1>15, <1>17

LEMMA FilesWrite ==
    ASSUME ServedInv, FilesInv, HttpNext, NEW c \in Clients, Write(c)
    PROVE  FilesInv'
<1>1. PICK nm : nm = Asked(c).file
  OBVIOUS
<1>2. /\ stage[c] = "writing" /\ stage' = [stage EXCEPT ![c] = "sending"]
      /\ sent' = sent /\ req' = req /\ handled' = handled /\ mixed' = mixed
  BY DEF Write, Answer
<1>3. DOMAIN stage = Clients
  BY DEF ServedInv, HttpTypeOK
<1>4. \A d \in Clients : (Asked(d))' = Asked(d)
  BY <1>2 DEF Asked
<1>5. PICK n \in Nat, i \in DOMAIN handled[c] :
          /\ IsUpload(c, i, nm)' /\ DOMAIN handled'[c][i].body = 1..n
          /\ nm \in DOMAIN files /\ DOMAIN files' = DOMAIN files
          /\ \A b \in 1..n : b \in DOMAIN files'[nm] /\ files'[nm][b] = c
          /\ \A b \in DOMAIN files'[nm] : b \notin 1..n => b \in DOMAIN files[nm] /\ files'[nm][b] = files[nm][b]
          /\ files[nm] = <<>> => files'[nm] = [b \in 1..n |-> c]
  BY <1>1, WriteLeaves
<1>6. i \in DOMAIN handled'[c]
  BY <1>2
<1>7. BeginsWhole(nm)'
  BY <1>5, <1>6 DEF BeginsWhole
<1>8. InPlace(nm)'
  <2> SUFFICES ASSUME NEW b \in DOMAIN files'[nm], NEW d, d = files'[nm][b]
               PROVE  \E k \in DOMAIN handled'[d] :
                          IsUpload(d, k, nm)' /\ b \in DOMAIN handled'[d][k].body
    BY DEF InPlace
  <2>1. CASE b \in 1..n
    <3>1. d = c
      BY <1>5, <2>1
    <3> QED
      BY <1>5, <1>6, <2>1, <3>1
  <2>2. CASE b \notin 1..n
    <3>1. b \in DOMAIN files[nm] /\ files[nm][b] = d
      BY <1>5, <2>2
    <3>2. InPlace(nm)
      <4>1. files[nm] # <<>>
        BY <3>1
      <4> QED
        BY <1>5, <4>1 DEF FilesInv, Layered
    <3>3. PICK k \in DOMAIN handled[d] : IsUpload(d, k, nm) /\ b \in DOMAIN handled[d][k].body
      BY <3>1, <3>2 DEF InPlace
    <3>4. IsUpload(d, k, nm)'
      BY <1>2, <3>3 DEF IsUpload
    <3> QED
      BY <1>2, <3>3, <3>4
  <2> QED
    BY <2>1, <2>2
<1>9. ASSUME nm \notin mixed' PROVE Alone(nm)'
  <2>1. Alone(nm)
    BY <1>2, <1>5, <1>9 DEF FilesInv
  <2>2. Writing(nm) /\ files[nm] = <<>>
    BY <1>1, <1>2, <2>1 DEF Writing, Alone
  <2>3. OneUpload(nm)'
    BY <1>5, <1>6, <2>2 DEF OneUpload
  <2>4. ASSUME NEW d \in Clients, stage'[d] = "writing", (Asked(d))'.file = nm PROVE FALSE
    <3>1. d # c /\ stage[d] = "writing" /\ Asked(d).file = nm
      BY <1>2, <1>3, <1>4, <2>4
    <3> QED
      BY <1>1, <1>2, <2>1, <3>1 DEF Alone
  <2>5. ~Writing(nm)'
    BY <2>4 DEF Writing
  <2> QED
    BY <2>3, <2>4, <2>5 DEF Alone
<1>10. ASSUME NEW f \in DOMAIN files, f # nm PROVE Same(f)
  <2>1. files'[f] = files[f]
    BY <1>1, <1>10 DEF Write
  <2> QED
    BY <1>1, <1>2, <1>3, <1>4, <1>10, <2>1 DEF Same
<1>11. ASSUME NEW f \in DOMAIN files' PROVE (Layered(f) /\ (f \notin mixed => Alone(f)))'
  <2>1. CASE f = nm
    BY <1>7, <1>8, <1>9, <2>1 DEF Layered
  <2>2. CASE f # nm
    BY <1>5, <1>10, <2>2, SameFile
  <2> QED
    BY <2>1, <2>2
<1>12. \A d \in Clients : stage'[d] = "writing" => (Asked(d))'.file \in DOMAIN files'
  BY <1>2, <1>3, <1>4, <1>5 DEF FilesInv
<1> QED
  BY <1>11, <1>12 DEF FilesInv

LEMMA FilesInvStep == ASSUME ServedInv, FilesInv, HttpNext PROVE FilesInv'
<1>1. HttpTypeOK /\ \A c \in Clients : Busy(c)
  BY DEF ServedInv, Served
<1>2. DOMAIN stage = Clients /\ DOMAIN req = Clients
  BY <1>1 DEF HttpTypeOK
<1>3. ASSUME NEW c \in Clients, Open(c) \/ Write(c) PROVE FilesInv'
  BY <1>3, FilesOpen, FilesWrite
<1>4. ASSUME NEW c \in Clients,
             \/ Connect(c) \/ Stall(c) \/ Accept(c) \/ HangUp(c) \/ \E r \in Requests : Ask(c, r)
             \/ Ending(c) \/ Input(c) \/ HandleOthers(c) \/ HandleUpload(c) \/ Respond(c) \/ AcceptFails
      PROVE  FilesInv'
  <2>1. files' = files /\ mixed' = mixed
    BY <1>4 DEF Connect, Stall, Accept, HangUp, Ask, Ending, Input, HandleOthers, HandleUpload, Respond, AcceptFails
  <2>2. \A d \in Clients : /\ stage'[d] = "writing" <=> stage[d] = "writing"
                           /\ stage[d] = "writing" => req'[d] = req[d]
    <3>1. CASE HandleOthers(c) \/ HandleUpload(c) \/ Respond(c)
      BY <1>2, <3>1 DEF HandleOthers, HandleUpload, Respond, Answer
    <3>2. CASE \/ Connect(c) \/ Stall(c) \/ Accept(c) \/ HangUp(c) \/ \E r \in Requests : Ask(c, r)
               \/ Ending(c) \/ AcceptFails
      BY <3>2 DEF Connect, Stall, Accept, HangUp, Ask, Ending, AcceptFails
    <3>3. CASE Input(c)
      BY <1>2, <3>3 DEF Input
    <3> QED
      BY <1>4, <3>1, <3>2, <3>3
  <2>3. ASSUME NEW d \in Clients, stage[d] = "writing" PROVE (Asked(d))' = Asked(d)
    <3>1. req[d].of \in 1..Len(sent[d])
      BY <1>1, <2>3 DEF Busy, AsAsked, Latest
    <3>2. sent'[d][req[d].of] = sent[d][req[d].of]
      BY <1>1, <3>1, HistoryGrows
    <3> QED
      BY <2>2, <2>3, <3>2 DEF Asked
  <2>4. \A f \in DOMAIN files : Same(f)
    BY <2>1, <2>2, <2>3 DEF Same
  <2>5. \A f \in DOMAIN files' : (Layered(f) /\ (f \notin mixed => Alone(f)))'
    BY <2>1, <2>4, SameFile
  <2>6. \A d \in Clients : stage'[d] = "writing" => (Asked(d))'.file \in DOMAIN files'
    BY <2>1, <2>2, <2>3 DEF FilesInv
  <2> QED
    BY <2>5, <2>6 DEF FilesInv
<1>5. ASSUME AcceptFails PROVE FilesInv'
  <2>1. PICK c \in Clients : TRUE
    BY <1>5 DEF AcceptFails
  <2> QED
    BY <1>4, <1>5, <2>1
<1> QED
  BY <1>3, <1>4, <1>5 DEF HttpNext, Serve, Handle

LEMMA FilesInvStutter == ServedInv /\ FilesInv /\ UNCHANGED httpVars => FilesInv'
BY DEF FilesInv, Layered, Alone, OneUpload, BeginsWhole, InPlace, IsUpload, Writing, Asked, httpVars,
       serverVars

\* For uploads of any lengths, and whoever uploads the same name at the same time: a file that
\* several uploads did not have open at once is, but before it is written, one upload's content
\* and whole; one that they had begins with such, and what follows is of longer uploads, each
\* piece in its place (HttpManager::_handleUpload()).
THEOREM FilesAreOfUploads == ASSUME ~Pipelining PROVE HttpSpec => []FilesWhole
<1>1. HttpInit => FilesInv
  BY DEF HttpInit, FilesInv
<1>2. ServedInv /\ FilesInv /\ [HttpNext]_httpVars => FilesInv'
  BY FilesInvStep, FilesInvStutter
<1>3. FilesInv => FilesWhole
  BY DEF FilesInv, Layered, Alone, FilesWhole
<1> QED
  BY <1>1, <1>2, <1>3, ServedAlways, PTL DEF HttpSpec
=============================================================================
