--------------------------- MODULE TM_TreeProofs ----------------------------
(***************************************************************************)
(* Proofs about the TM channel tree, for every set of spacecraft, virtual  *)
(* channels and users: the demultiplexers' outputs, their users and the    *)
(* settings agree through every change, and users get their own frames     *)
(* only, once and in order.                                                *)
(***************************************************************************)
EXTENDS TM_Tree, FiniteSetTheorems, TLAPS

LinkMaps  == [Demuxes -> [Ids -> Targets \cup {None, Loose}]]
InputMaps == [Users -> [InRanks -> (Demuxes \X Ids) \cup {None}]]
Tables    == [links : LinkMaps, inputs : InputMaps]

Agree(s) ==
    \A d \in Demuxes, id \in Ids, u \in Users, r \in InRanks :
        s.links[d][id] = <<u, r>> <=> s.inputs[u][r] = <<d, id>>

Clear(d, u) == <<d, u>> \notin clashes

\* No user has two outputs of one demultiplexer.
Once ==
    \A d \in Demuxes, x, y \in Ids :
        /\ links[d][x] \in Targets /\ links[d][y] \in Targets
        /\ links[d][x][1] = links[d][y][1] /\ Clear(d, links[d][x][1])
        => x = y

\* A call that may still use its link and has not connected it.
Linking(h) == h.at # "connected" /\ h.target \in Users

\* The link a call has made has no target before it is connected, and is no other call's.
CallInv ==
    /\ \A h \in half : Linking(h) => links[h.d][h.id] = Loose
    /\ \A g, h \in half : Linking(g) /\ Linking(h) /\ g.d = h.d /\ g.id = h.id => g = h

\* A call that has found no circle, for a target that no other call is connecting.
Sole(h) == h.at # "new" /\ h.target \in Users /\ Clear(h.d, h.target)

\* There is one such call of a demultiplexer for a target, and the target's output is its own.
SoleInv ==
    /\ \A g, h \in half : Sole(g) /\ Sole(h) /\ g.d = h.d /\ g.target = h.target => g = h
    /\ \A h \in half, x \in Ids :
          Sole(h) /\ links[h.d][x] \in Targets /\ links[h.d][x][1] = h.target =>
              h.at = "connected" /\ x = h.id /\ links[h.d][x] = <<h.target, h.in>>

\* A call that has connected an identifier and not recorded it.
Recording(h, d, id, u) == h.at = "connected" /\ h.d = d /\ h.id = id /\ h.target = u

DemuxInv == DemuxTypeOK /\ OutputsAgree /\ Once /\ CallInv /\ SoleInv /\ RoutesAreSaved

-----------------------------------------------------------------------------
(* Deleting links.                                                         *)

LEMMA NoTargets == None \notin Targets /\ Loose \notin Targets /\ None \notin Demuxes \X Ids
BY NoneIsNoTarget

\* Deleting the link of an identifier clears its two ends and nothing else
\* (HandlerLink.cpp:40-65).
LEMMA FreeAgrees ==
    ASSUME NEW s \in Tables, Agree(s), NEW d \in Demuxes, NEW id \in Ids
    PROVE  /\ Free(s, d, id) \in Tables
           /\ Agree(Free(s, d, id))
           /\ \A e \in Demuxes, x \in Ids :
                 Free(s, d, id).links[e][x] =
                     IF e = d /\ x = id /\ s.links[d][id] \in Targets THEN None ELSE s.links[e][x]
           /\ \A u \in Users, r \in InRanks :
                 s.links[d][id] = <<u, r>> => Free(s, d, id).inputs[u][r] = None
<1>1. CASE s.links[d][id] \notin Targets
  BY <1>1 DEF Free, Targets
<1>2. CASE s.links[d][id] \in Targets
  <2> DEFINE t == s.links[d][id]
             f == Free(s, d, id)
  <2>1. t \in Users \X InRanks /\ t = <<t[1], t[2]>> /\ t[1] \in Users /\ t[2] \in InRanks
    BY <1>2 DEF Targets
  <2>2. f = [s EXCEPT !.inputs[t[1]][t[2]] = None, !.links[d][id] = None]
    BY <1>2 DEF Free
  <2>3. f \in Tables
    <3>1. /\ f.links = [s.links EXCEPT ![d][id] = None]
          /\ f.inputs = [s.inputs EXCEPT ![t[1]][t[2]] = None]
          /\ f = [links |-> f.links, inputs |-> f.inputs]
      BY <2>2 DEF Tables
    <3>2. f.links \in LinkMaps /\ f.inputs \in InputMaps
      BY <2>1, <3>1 DEF Tables, LinkMaps, InputMaps
    <3> QED
      BY <3>1, <3>2 DEF Tables
  <2>4. \A e \in Demuxes, x \in Ids :
           f.links[e][x] = IF e = d /\ x = id THEN None ELSE s.links[e][x]
    BY <2>2 DEF Tables, LinkMaps
  <2>5. \A u \in Users, r \in InRanks :
           f.inputs[u][r] = IF u = t[1] /\ r = t[2] THEN None ELSE s.inputs[u][r]
    BY <2>1, <2>2 DEF Tables, InputMaps
  <2>6. s.inputs[t[1]][t[2]] = <<d, id>>
    BY <2>1 DEF Agree
  <2>7. ASSUME NEW e \in Demuxes, NEW x \in Ids, NEW u \in Users, NEW r \in InRanks
        PROVE  f.links[e][x] = <<u, r>> <=> f.inputs[u][r] = <<e, x>>
    <3>1. <<u, r>> \in Targets /\ <<e, x>> \in Demuxes \X Ids /\ None # <<u, r>> /\ None # <<e, x>>
      BY NoTargets DEF Targets
    <3>2. s.links[e][x] = <<u, r>> <=> s.inputs[u][r] = <<e, x>>
      BY DEF Agree
    <3>3. CASE e = d /\ x = id
      <4>1. f.links[e][x] = None /\ s.links[e][x] = t
        BY <3>3, <2>4
      <4>2. f.inputs[u][r] = <<e, x>> => s.links[e][x] = <<u, r>> /\ ~(u = t[1] /\ r = t[2])
        BY <3>1, <3>2, <2>5
      <4> QED
        BY <3>1, <4>1, <4>2, <2>1
    <3>4. CASE ~(e = d /\ x = id)
      <4>1. f.links[e][x] = s.links[e][x]
        BY <3>4, <2>4
      <4>2. CASE u = t[1] /\ r = t[2]
        <5>1. f.inputs[u][r] = None /\ s.inputs[u][r] = <<d, id>>
          BY <4>2, <2>5, <2>6
        <5> QED
          BY <3>1, <3>2, <3>4, <4>1, <5>1
      <4>3. CASE ~(u = t[1] /\ r = t[2])
        BY <3>2, <4>1, <4>3, <2>5
      <4> QED
        BY <4>2, <4>3
    <3> QED
      BY <3>3, <3>4
  <2> QED
    BY <1>2, <2>1, <2>3, <2>4, <2>5, <2>7 DEF Agree
<1> QED
  BY <1>1, <1>2

\* Clearing the slot of an input deletes the link it held, and no other.
LEMMA FreeInputAgrees ==
    ASSUME NEW s \in Tables, Agree(s), NEW u \in Users, NEW r \in InRanks
    PROVE  /\ FreeInput(s, u, r) \in Tables
           /\ Agree(FreeInput(s, u, r))
           /\ FreeInput(s, u, r).inputs[u][r] = None
           /\ \A e \in Demuxes, x \in Ids :
                 FreeInput(s, u, r).links[e][x] =
                     IF s.links[e][x] = <<u, r>> THEN None ELSE s.links[e][x]
<1> DEFINE o == s.inputs[u][r]
           f == FreeInput(s, u, r)
<1>0. \A e \in Demuxes, x \in Ids : s.links[e][x] = <<u, r>> <=> o = <<e, x>>
  BY DEF Agree
<1>1. CASE o = None
  <2>1. \A e \in Demuxes, x \in Ids : s.links[e][x] # <<u, r>>
    BY <1>0, <1>1, NoTargets
  <2> QED
    BY <1>1, <2>1 DEF FreeInput
<1>2. CASE o # None
  <2>1. o \in Demuxes \X Ids /\ o[1] \in Demuxes /\ o[2] \in Ids /\ o = <<o[1], o[2]>>
    BY <1>2 DEF Tables, InputMaps
  <2>2. s.links[o[1]][o[2]] = <<u, r>> /\ <<u, r>> \in Targets
    BY <1>0, <2>1 DEF Targets
  <2>3. f = Free(s, o[1], o[2])
    BY <1>2 DEF FreeInput
  <2>4. /\ f \in Tables /\ Agree(f)
        /\ \A e \in Demuxes, x \in Ids :
              f.links[e][x] = IF e = o[1] /\ x = o[2] THEN None ELSE s.links[e][x]
    <3> DEFINE g == Free(s, o[1], o[2])
    <3>1. /\ g \in Tables /\ Agree(g)
          /\ \A e \in Demuxes, x \in Ids :
                g.links[e][x] = IF e = o[1] /\ x = o[2] /\ s.links[o[1]][o[2]] \in Targets
                                THEN None ELSE s.links[e][x]
      BY <2>1, FreeAgrees
    <3>2. f = g
      BY <2>3
    <3>3. s.links[o[1]][o[2]] \in Targets
      BY <2>2
    <3> HIDE DEF f, g, o
    <3> QED
      BY <3>1, <3>2, <3>3
  <2>5. \A e \in Demuxes, x \in Ids :
           f.links[e][x] = IF s.links[e][x] = <<u, r>> THEN None ELSE s.links[e][x]
    BY <1>0, <2>1, <2>4
  <2>6. f.inputs[u][r] = None
    <3>1. Free(s, o[1], o[2]).inputs[u][r] = None
      BY <2>1, <2>2, FreeAgrees
    <3> QED
      BY <2>3, <3>1
  <2> QED
    BY <2>4, <2>5, <2>6
<1> QED
  BY <1>1, <1>2

-----------------------------------------------------------------------------
(* The demultiplexers.                                                     *)

LEMMA TablesOfState ==
    ASSUME DemuxTypeOK, OutputsAgree
    PROVE  State \in Tables /\ Agree(State) /\ State.links = links /\ State.inputs = inputs
BY DEF DemuxTypeOK, OutputsAgree, State, Tables, LinkMaps, InputMaps, Agree

LEMMA DemuxStarts ==
    ASSUME DemuxInit PROVE DemuxInv
<1>1. /\ links \in [Demuxes -> [Ids -> Targets \cup {None}]] /\ Constructed(links)
      /\ half = {} /\ clashes = {} /\ saved = Configured
  BY DEF DemuxInit
<1>2. DemuxTypeOK
  <2>1. links \in LinkMaps
    BY <1>1 DEF LinkMaps
  <2>2. inputs \in InputMaps
    BY DEF DemuxInit, InputMaps
  <2>3. saved \in [Demuxes -> SUBSET (Users \X InRanks \X Ids)]
    BY <1>1, ConfiguredAssumption
  <2>4. members \subseteq Users /\ crashed \in BOOLEAN
    BY DEF DemuxInit
  <2>5. calls \in 0..MaxCalls
    BY DemuxAssumption DEF DemuxInit
  <2> QED
    BY <1>1, <2>1, <2>2, <2>3, <2>4, <2>5 DEF DemuxTypeOK, LinkMaps, InputMaps
<1>3. OutputsAgree
  <2> SUFFICES ASSUME NEW d \in Demuxes, NEW id \in Ids, NEW u \in Users, NEW r \in InRanks
               PROVE  links[d][id] = <<u, r>> <=> inputs[u][r] = <<d, id>>
    BY DEF OutputsAgree
  <2> DEFINE Holds(o) == links[o[1]][o[2]] = <<u, r>>
  <2>1. inputs[u][r] = IF \E o \in Demuxes \X Ids : Holds(o)
                       THEN CHOOSE o \in Demuxes \X Ids : Holds(o) ELSE None
    BY DEF DemuxInit
  <2>2. \A o, p \in Demuxes \X Ids : Holds(o) /\ Holds(p) => o = p
    BY <1>1 DEF Constructed, Targets
  <2>3. Holds(<<d, id>>) <=> links[d][id] = <<u, r>>
    OBVIOUS
  <2>4. <<d, id>> \in Demuxes \X Ids /\ <<d, id>> # None
    BY NoTargets
  <2> HIDE DEF Holds
  <2> QED
    BY <2>1, <2>2, <2>3, <2>4
<1>4. ASSUME NEW d \in Demuxes, NEW id \in Ids, links[d][id] \in Targets
      PROVE  /\ \E e \in Configured[d] : e[3] = id /\ e[1] = links[d][id][1]
             /\ <<links[d][id][1], links[d][id][2], id>> \in Configured[d]
  <2>1. PICK e \in Configured[d] : e[3] = id /\ links[d][id] = <<e[1], e[2]>>
    BY <1>1, <1>4, NoTargets DEF Constructed
  <2>2. e \in Users \X InRanks \X Ids
    BY <2>1, ConfiguredAssumption
  <2>3. e = <<e[1], e[2], e[3]>>
    BY <2>2
  <2> QED
    BY <2>1, <2>3
<1>5. Once
  <2> SUFFICES ASSUME NEW d \in Demuxes, NEW x \in Ids, NEW y \in Ids,
                      links[d][x] \in Targets, links[d][y] \in Targets,
                      links[d][x][1] = links[d][y][1]
               PROVE  x = y
    BY DEF Once
  <2>1. PICK e \in Configured[d] : e[3] = x /\ e[1] = links[d][x][1]
    BY <1>4
  <2>2. PICK f \in Configured[d] : f[3] = y /\ f[1] = links[d][y][1]
    BY <1>4
  <2>3. e = f
    BY <2>1, <2>2, ConfiguredAssumption
  <2> QED
    BY <2>1, <2>2, <2>3
<1>6. RoutesAreSaved
  BY <1>1, <1>4 DEF RoutesAreSaved
<1>7. CallInv /\ SoleInv
  BY <1>1 DEF CallInv, SoleInv
<1> QED
  BY <1>2, <1>3, <1>5, <1>6, <1>7 DEF DemuxInv

\* What holds of the calls holds of fewer, some of which have lost their target.
LEMMA CallsLost ==
    ASSUME DemuxInv, clashes' = clashes,
           links' \in LinkMaps,
           \A e \in Demuxes, x \in Ids : links'[e][x] \in {links[e][x], None},
           half' \subseteq HalfMade,
           \A g \in half' : g \in half \/ g.target = None,
           \A h \in half' : Linking(h) => links'[h.d][h.id] = links[h.d][h.id]
    PROVE  CallInv' /\ SoleInv'
<1>0. None \notin Users
  BY DemuxAssumption
<1>1. \A g \in half' : g.target \in Users => g \in half
  BY <1>0
<1>2. CallInv'
  BY <1>1 DEF DemuxInv, CallInv, Linking
<1>3. ASSUME NEW h \in half', NEW x \in Ids,
             Sole(h)', links'[h.d][x] \in Targets, links'[h.d][x][1] = h.target
      PROVE  h.at = "connected" /\ x = h.id /\ links'[h.d][x] = <<h.target, h.in>>
  <2>1. h \in half /\ Sole(h) /\ h.d \in Demuxes
    BY <1>1, <1>3 DEF Sole, Clear, HalfMade
  <2>2. links'[h.d][x] = links[h.d][x]
    BY <1>3, <2>1, NoTargets
  <2> QED
    BY <1>3, <2>1, <2>2 DEF DemuxInv, SoleInv
<1>4. \A g, h \in half' : Sole(g)' /\ Sole(h)' /\ g.d = h.d /\ g.target = h.target => g = h
  BY <1>1 DEF DemuxInv, SoleInv, Sole, Clear
<1> QED
  BY <1>2, <1>3, <1>4 DEF SoleInv

LEMMA UserStays ==
    ASSUME DemuxInv, NEW u \in Users, RemoveUser(u)
    PROVE  DemuxInv'
<1> DEFINE s1 == FreeInput(State, u, "PrimaryInput")
           s2 == FreeInput(s1, u, "AuxInput")
<1>1. "PrimaryInput" \in InRanks /\ "AuxInput" \in InRanks
  BY DEF InRanks
<1>2. State \in Tables /\ Agree(State) /\ State.links = links
  BY TablesOfState DEF DemuxInv
<1>3. /\ s1 \in Tables /\ Agree(s1)
      /\ \A e \in Demuxes, x \in Ids :
            s1.links[e][x] = IF links[e][x] = <<u, "PrimaryInput">> THEN None ELSE links[e][x]
  BY <1>1, <1>2, FreeInputAgrees
<1>4. /\ s2 \in Tables /\ Agree(s2)
      /\ \A e \in Demuxes, x \in Ids :
            s2.links[e][x] = IF s1.links[e][x] = <<u, "AuxInput">> THEN None ELSE s1.links[e][x]
  <2> HIDE DEF s1
  <2> QED
    BY <1>1, <1>3, FreeInputAgrees
<1>5. /\ links' = s2.links /\ inputs' = s2.inputs /\ half' = TargetDeleted(u)
      /\ UNCHANGED <<saved, clashes, crashed>>
  BY DEF RemoveUser
<1> HIDE DEF s1, s2
<1>6. links' \in LinkMaps /\ inputs' \in InputMaps /\ OutputsAgree'
  BY <1>4, <1>5 DEF Tables, Agree, OutputsAgree
<1>7. \A e \in Demuxes, x \in Ids :
         /\ links'[e][x] \in {links[e][x], None}
         /\ links[e][x] = Loose => links'[e][x] = Loose
         /\ links'[e][x] # <<u, "PrimaryInput">> /\ links'[e][x] # <<u, "AuxInput">>
  <2>1. <<u, "PrimaryInput">> \in Targets /\ <<u, "AuxInput">> \in Targets
    BY <1>1 DEF Targets
  <2> QED
    BY <1>3, <1>4, <1>5, <2>1, NoTargets
<1>8. /\ half' \subseteq HalfMade
      /\ \A g \in half' : g \in half \/ g.target = None
      /\ \A h \in half : h.target # u => h \in half'
  <2>1. half \subseteq HalfMade
    BY DEF DemuxInv, DemuxTypeOK
  <2>2. \A h \in half : [h EXCEPT !.target = None] \in HalfMade /\ [h EXCEPT !.target = None].target = None
    BY <2>1 DEF HalfMade
  <2> QED
    BY <1>5, <2>1, <2>2 DEF TargetDeleted
<1>9. DemuxTypeOK'
  BY <1>5, <1>6, <1>8, DemuxAssumption
     DEF DemuxInv, DemuxTypeOK, RemoveUser, Manage, LinkMaps, InputMaps
<1>10. CallInv' /\ SoleInv'
  <2>1. \A h \in half' : Linking(h) => links'[h.d][h.id] = links[h.d][h.id]
    <3> SUFFICES ASSUME NEW h \in half', Linking(h) PROVE links'[h.d][h.id] = links[h.d][h.id]
      OBVIOUS
    <3>1. h \in half /\ h.d \in Demuxes /\ h.id \in Ids
      BY <1>8, DemuxAssumption DEF Linking, HalfMade
    <3> QED
      BY <1>7, <3>1 DEF DemuxInv, CallInv
  <2> QED
    BY <1>5, <1>6, <1>7, <1>8, <2>1, CallsLost
<1>11. Once'
  BY <1>5, <1>7, NoTargets DEF DemuxInv, Once, Clear
<1>12. RoutesAreSaved'
  <2> SUFFICES ASSUME NEW e \in Demuxes, NEW x \in Ids, links'[e][x] \in Targets,
                      <<e, links'[e][x][1]>> \notin clashes,
                      ~\E h \in half' : Recording(h, e, x, links'[e][x][1])
               PROVE  <<links'[e][x][1], links'[e][x][2], x>> \in saved[e]
    BY <1>5 DEF RoutesAreSaved, Recording
  <2>1. links'[e][x] = links[e][x] /\ links[e][x] \in Targets
    BY <1>7, NoTargets
  <2>2. links[e][x][1] # u
    BY <1>7, <2>1 DEF Targets, InRanks
  <2>3. ~\E h \in half : Recording(h, e, x, links[e][x][1])
    BY <1>8, <2>1, <2>2 DEF Recording
  <2> QED
    BY <2>1, <2>3 DEF DemuxInv, RoutesAreSaved, Recording
<1> QED
  BY <1>6, <1>9, <1>10, <1>11, <1>12 DEF DemuxInv

LEMMA ConnectBegins ==
    ASSUME DemuxInv, NEW d \in Demuxes, NEW id \in Ids, NEW u \in Users, NEW r \in InRanks,
           BeginConnect(d, id, u, r)
    PROVE  DemuxInv'
<1> DEFINE old == links[d][id]
           f == Free(State, d, id)
           new == [no |-> calls', at |-> "new", d |-> d, id |-> id, target |-> Found(u), in |-> r]
           kept == IF old = Loose THEN LinkDeleted(d, id) ELSE half
<1>1. /\ State \in Tables /\ Agree(State) /\ State.links = links /\ State.inputs = inputs
      /\ links \in LinkMaps /\ inputs \in InputMaps
  BY TablesOfState DEF DemuxInv, DemuxTypeOK, LinkMaps, InputMaps
<1>2. calls' \in 1..MaxCalls /\ members' = members /\ clashes' = clashes
  BY DemuxAssumption DEF DemuxInv, DemuxTypeOK, BeginConnect, Manage
<1>3. CASE UNCHANGED <<links, inputs, saved, half>> /\ crashed' \in BOOLEAN
  <2>1. DemuxTypeOK'
    BY <1>2, <1>3 DEF DemuxInv, DemuxTypeOK
  <2>2. OutputsAgree' /\ Once' /\ RoutesAreSaved'
    BY <1>2, <1>3 DEF DemuxInv, OutputsAgree, Once, RoutesAreSaved, Clear
  <2>3. CallInv' /\ SoleInv'
    BY <1>2, <1>3 DEF DemuxInv, CallInv, SoleInv, Sole, Clear
  <2> QED
    BY <2>1, <2>2, <2>3 DEF DemuxInv
<1>4. CASE /\ inputs' = f.inputs
           /\ links' = [f.links EXCEPT ![d][id] = Loose]
           /\ saved' = [saved EXCEPT ![d] = {e \in @ : e[1] # TargetOf(old)}]
           /\ half' = kept \cup {new}
           /\ UNCHANGED crashed
  <2>1. /\ f \in Tables /\ Agree(f)
        /\ \A e \in Demuxes, x \in Ids :
              f.links[e][x] = IF e = d /\ x = id /\ old \in Targets THEN None ELSE links[e][x]
    BY <1>1, FreeAgrees
  <2> HIDE DEF f
  <2>2. \A e \in Demuxes, x \in Ids :
           links'[e][x] = IF e = d /\ x = id THEN Loose ELSE links[e][x]
    BY <1>4, <2>1 DEF Tables, LinkMaps
  <2>3. f.links[d][id] \notin Targets
    BY <2>1, NoTargets
  <2>4. links' \in LinkMaps /\ inputs' \in InputMaps
    BY <1>4, <2>1 DEF Tables, LinkMaps
  <2>5. saved' \in [Demuxes -> SUBSET (Users \X InRanks \X Ids)]
    BY <1>4 DEF DemuxInv, DemuxTypeOK
  <2>a. /\ half \subseteq HalfMade
        /\ \A h \in half : /\ [h EXCEPT !.target = None] \in HalfMade
                           /\ [h EXCEPT !.target = None].target = None
    BY DEF DemuxInv, DemuxTypeOK, HalfMade
  <2>b. /\ kept \subseteq HalfMade
        /\ \A g \in kept : g \in half \/ g.target = None
        /\ \A h \in half : h.at = "connected" => h \in kept
        /\ \A g \in kept : Linking(g) => ~(g.d = d /\ g.id = id)
    <3>1. CASE old = Loose
      BY <2>a, <3>1, DemuxAssumption DEF LinkDeleted, Linking
    <3>2. CASE old # Loose
      BY <2>a, <3>2 DEF DemuxInv, CallInv
    <3> QED
      BY <3>1, <3>2
  <2>c. new \in HalfMade /\ new.at = "new" /\ new.d = d /\ new.id = id
    BY <1>2 DEF HalfMade, Found
  <2> HIDE DEF kept, new
  <2>6. DemuxTypeOK'
    BY <1>2, <1>4, <2>4, <2>5, <2>b, <2>c DEF DemuxInv, DemuxTypeOK, LinkMaps, InputMaps
  <2>7. OutputsAgree'
    <3>1. ASSUME NEW e \in Demuxes, NEW x \in Ids, NEW v \in Users, NEW q \in InRanks
          PROVE  links'[e][x] = <<v, q>> <=> f.links[e][x] = <<v, q>>
      <4>1. <<v, q>> \in Targets
        BY DEF Targets
      <4> QED
        BY <2>1, <2>2, <2>3, <4>1, NoTargets
    <3> QED
      BY <1>4, <2>1, <3>1 DEF OutputsAgree, Agree
  <2>8. Once'
    BY <1>2, <2>2, NoTargets DEF Once, DemuxInv, Clear
  <2>9. RoutesAreSaved'
    <3> SUFFICES ASSUME NEW e \in Demuxes, NEW x \in Ids, links'[e][x] \in Targets,
                        Clear(e, links'[e][x][1]),
                        ~\E h \in half' : Recording(h, e, x, links'[e][x][1])
                 PROVE  <<links'[e][x][1], links'[e][x][2], x>> \in saved'[e]
      BY <1>2 DEF RoutesAreSaved, Recording, Clear
    <3> DEFINE t == links[e][x]
    <3>1. ~(e = d /\ x = id) /\ links'[e][x] = t /\ t \in Targets
      BY <2>2, NoTargets
    <3>2. <<t[1], t[2], x>> \in saved[e]
      BY <1>4, <2>b, <3>1 DEF DemuxInv, RoutesAreSaved, Recording, Clear
    <3>3. CASE e # d
      BY <1>4, <3>1, <3>2, <3>3 DEF DemuxInv, DemuxTypeOK
    <3>4. CASE e = d
      <4>1. t[1] # TargetOf(old)
        <5>1. CASE old \in Targets
          BY <3>1, <3>4, <5>1 DEF TargetOf, DemuxInv, Once
        <5>2. CASE old \notin Targets
          BY <3>1, <5>2, DemuxAssumption DEF TargetOf, Targets
        <5> QED
          BY <5>1, <5>2
      <4>2. saved'[d] = {y \in saved[d] : y[1] # TargetOf(old)}
        BY <1>4 DEF DemuxInv, DemuxTypeOK
      <4> QED
        BY <3>1, <3>2, <3>4, <4>1, <4>2
    <3> QED
      BY <3>3, <3>4
  <2>d. \A g \in kept : g.target \in Users => g \in half
    BY <2>b, DemuxAssumption
  <2>10. CallInv'
    <3>1. ASSUME NEW h \in half', Linking(h) PROVE links'[h.d][h.id] = Loose
      <4>1. CASE h = new
        BY <2>2, <2>c, <4>1
      <4>2. CASE h \in kept
        <5>1. h \in half /\ h.d \in Demuxes /\ h.id \in Ids /\ ~(h.d = d /\ h.id = id)
          BY <3>1, <4>2, <2>a, <2>b, <2>d DEF Linking, HalfMade
        <5> QED
          BY <3>1, <5>1, <2>2 DEF DemuxInv, CallInv
      <4> QED
        BY <1>4, <4>1, <4>2
    <3>2. ASSUME NEW g \in half', NEW h \in half', Linking(g), Linking(h), g.d = h.d, g.id = h.id
          PROVE  g = h
      <4>1. \A k \in half' : k = new \/ k \in kept
        BY <1>4
      <4>2. CASE g \in kept /\ h \in kept
        BY <3>2, <4>2, <2>d DEF DemuxInv, CallInv, Linking
      <4> QED
        BY <3>2, <4>1, <4>2, <2>b, <2>c
    <3> QED
      BY <3>1, <3>2 DEF CallInv
  <2>11. SoleInv'
    <3>1. \A h \in half' : Sole(h)' => h \in half /\ Sole(h)
      BY <1>2, <1>4, <2>c, <2>d DEF Sole, Clear
    <3>2. ASSUME NEW h \in half', NEW x \in Ids,
                 Sole(h)', links'[h.d][x] \in Targets, links'[h.d][x][1] = h.target
          PROVE  h.at = "connected" /\ x = h.id /\ links'[h.d][x] = <<h.target, h.in>>
      <4>1. h \in half /\ Sole(h) /\ h.d \in Demuxes
        BY <3>1, <3>2, <2>a DEF HalfMade
      <4>2. links'[h.d][x] = links[h.d][x]
        BY <2>2, <3>2, <4>1, NoTargets
      <4> QED
        BY <3>2, <4>1, <4>2 DEF DemuxInv, SoleInv
    <3> QED
      BY <3>1, <3>2 DEF DemuxInv, SoleInv
  <2> QED
    BY <2>6, <2>7, <2>8, <2>9, <2>10, <2>11 DEF DemuxInv
<1> QED
  BY <1>3, <1>4 DEF BeginConnect, DemuxInv, DemuxTypeOK

\* A call that is refused is over, one that finds no circle goes on alone or clashes.
LEMMA CheckKeeps ==
    ASSUME DemuxInv, NEW h \in half, Check(h)
    PROVE  DemuxInv'
<1> DEFINE k == [h EXCEPT !.at = "checked"]
<1>1. /\ h \in HalfMade /\ half \subseteq HalfMade
      /\ h.d \in Demuxes /\ h.id \in Ids /\ h.target \in Users /\ h.at = "new"
  BY DEF DemuxInv, DemuxTypeOK, HalfMade, Check
<1>2. /\ k \in HalfMade /\ k.at = "checked" /\ k.d = h.d /\ k.id = h.id
      /\ k.target = h.target /\ k.in = h.in
  BY <1>1 DEF HalfMade
<1> HIDE DEF k
<1>3. UNCHANGED <<members, links, inputs, saved, crashed, calls>>
  BY DEF Check
<1>4. CASE half' = half \ {h} /\ clashes' = clashes
  <2>1. DemuxTypeOK' /\ OutputsAgree' /\ Once'
    BY <1>1, <1>3, <1>4 DEF DemuxInv, DemuxTypeOK, OutputsAgree, Once, Clear
  <2>2. CallInv' /\ SoleInv'
    BY <1>3, <1>4 DEF DemuxInv, CallInv, SoleInv, Sole, Clear
  <2>3. \A g \in half : g.at = "connected" => g \in half'
    BY <1>1, <1>4
  <2>4. RoutesAreSaved'
    BY <1>3, <1>4, <2>3 DEF DemuxInv, RoutesAreSaved
  <2> QED
    BY <2>1, <2>2, <2>4 DEF DemuxInv
<1>5. CASE /\ ~Circular(h.d, h.target)
           /\ half' = (half \ {h}) \cup {k}
           /\ clashes' = clashes \cup {<<h.d, h.target>> : g \in Past(h.d, h.target)}
  <2>1. \A x \in Ids : links[h.d][x] \in Targets => links[h.d][x][1] # h.target
    BY <1>5 DEF Circular, TargetOf
  <2>2. clashes \subseteq clashes' /\ clashes' \subseteq Demuxes \X Users
    BY <1>1, <1>5 DEF DemuxInv, DemuxTypeOK
  <2>3. \A e, u : Clear(e, u)' => Clear(e, u)
    BY <2>2 DEF Clear
  <2>4. Clear(h.d, h.target)' => Past(h.d, h.target) = {}
    BY <1>5 DEF Clear
  <2>5. half' \subseteq HalfMade /\ \A g \in half' : g \in half \/ g = k
    BY <1>1, <1>2, <1>5
  <2>6. DemuxTypeOK' /\ OutputsAgree'
    BY <1>3, <2>2, <2>5 DEF DemuxInv, DemuxTypeOK, OutputsAgree
  <2>7. Once'
    BY <1>3, <2>3 DEF DemuxInv, Once
  <2>8. CallInv'
    <3>1. \A g \in half' : Linking(g) => links[g.d][g.id] = Loose
      BY <1>1, <1>2, <2>5 DEF DemuxInv, CallInv, Linking
    <3>2. ASSUME NEW g \in half', NEW i \in half', Linking(g), Linking(i), g.d = i.d, g.id = i.id
          PROVE  g = i
      <4>1. Linking(h)
        BY <1>1 DEF Linking
      <4>2. \A j \in half' : j = k \/ (j \in half /\ j # h)
        BY <1>5
      <4>3. \A j \in half : Linking(j) /\ j.d = h.d /\ j.id = h.id => j = h
        BY <4>1 DEF DemuxInv, CallInv
      <4>4. CASE g = k \/ i = k
        BY <1>2, <3>2, <4>2, <4>3, <4>4
      <4>5. CASE g \in half /\ i \in half
        BY <3>2, <4>5 DEF DemuxInv, CallInv
      <4> QED
        BY <4>2, <4>4, <4>5
    <3> QED
      BY <1>3, <3>1, <3>2 DEF CallInv
  <2>9. SoleInv'
    <3>1. \A g \in half' : Sole(g)' => g = k \/ (g \in half /\ Sole(g))
      BY <2>3, <2>5 DEF Sole
    <3>2. \A g \in half : Sole(k)' /\ Sole(g) => ~(g.d = h.d /\ g.target = h.target)
      BY <1>2, <2>4 DEF Sole, Past
    <3>3. ASSUME NEW g \in half', NEW i \in half', Sole(g)', Sole(i)', g.d = i.d, g.target = i.target
          PROVE  g = i
      <4>1. CASE g = k \/ i = k
        BY <1>2, <3>1, <3>2, <3>3, <4>1
      <4>2. CASE g # k /\ i # k
        BY <3>1, <3>3, <4>2 DEF DemuxInv, SoleInv
      <4> QED
        BY <4>1, <4>2
    <3>4. ASSUME NEW g \in half', NEW x \in Ids,
                 Sole(g)', links[g.d][x] \in Targets, links[g.d][x][1] = g.target
          PROVE  g.at = "connected" /\ x = g.id /\ links[g.d][x] = <<g.target, g.in>>
      <4>1. g # k
        BY <1>2, <2>1, <3>4
      <4> QED
        BY <3>1, <3>4, <4>1 DEF DemuxInv, SoleInv
    <3> QED
      BY <1>3, <3>3, <3>4 DEF SoleInv
  <2>10. RoutesAreSaved'
    <3>1. \A g \in half : g.at = "connected" => g \in half'
      BY <1>1, <1>5
    <3> QED
      BY <1>3, <2>3, <3>1 DEF DemuxInv, RoutesAreSaved, Clear
  <2> QED
    BY <2>6, <2>7, <2>8, <2>9, <2>10 DEF DemuxInv
<1> QED
  BY <1>4, <1>5 DEF Check, k

LEMMA ConnectKeeps ==
    ASSUME DemuxInv, NEW h \in half, Connect(h)
    PROVE  DemuxInv'
<1> DEFINE d == h.d
           id == h.id
           u == h.target
           r == h.in
           f == FreeInput(State, u, r)
           k == [h EXCEPT !.at = "connected"]
<1>1. /\ half \subseteq HalfMade /\ h.at = "checked"
      /\ d \in Demuxes /\ id \in Ids /\ u \in Users /\ r \in InRanks
  BY DEF DemuxInv, DemuxTypeOK, HalfMade, Connect
<1>2. /\ k \in HalfMade /\ k.at = "connected" /\ k.d = d /\ k.id = id
      /\ k.target = u /\ k.in = r
  BY <1>1 DEF HalfMade
<1>3. /\ State \in Tables /\ Agree(State) /\ State.links = links /\ State.inputs = inputs
      /\ links \in LinkMaps /\ inputs \in InputMaps
  BY TablesOfState DEF DemuxInv, DemuxTypeOK, LinkMaps, InputMaps
<1>4. /\ half' = (half \ {h}) \cup {k}
      /\ links' = [f.links EXCEPT ![d][id] = <<u, r>>]
      /\ inputs' = [f.inputs EXCEPT ![u][r] = <<d, id>>]
      /\ UNCHANGED <<members, saved, clashes, crashed, calls>>
  BY DEF Connect
<1>5. links[d][id] = Loose
  BY <1>1 DEF DemuxInv, CallInv, Linking
<1>6. /\ f \in Tables /\ Agree(f) /\ f.inputs[u][r] = None
      /\ \A e \in Demuxes, x \in Ids :
            f.links[e][x] = IF links[e][x] = <<u, r>> THEN None ELSE links[e][x]
  BY <1>1, <1>3, FreeInputAgrees
<1> HIDE DEF d, id, u, r, f, k
<1>7. <<u, r>> \in Targets /\ <<d, id>> \in Demuxes \X Ids
  BY <1>1 DEF Targets
<1>8. \A e \in Demuxes, x \in Ids :
         links'[e][x] = IF e = d /\ x = id THEN <<u, r>>
                        ELSE IF links[e][x] = <<u, r>> THEN None ELSE links[e][x]
  BY <1>1, <1>4, <1>6 DEF Tables, LinkMaps
<1>9. \A v \in Users, q \in InRanks :
         inputs'[v][q] = IF v = u /\ q = r THEN <<d, id>> ELSE f.inputs[v][q]
  BY <1>1, <1>4, <1>6 DEF Tables, InputMaps
<1>10. links' \in LinkMaps
  BY <1>1, <1>4, <1>6, <1>7 DEF Tables, LinkMaps
<1>11. inputs' \in InputMaps
  BY <1>1, <1>4, <1>6, <1>7 DEF Tables, InputMaps
<1>12. DemuxTypeOK'
  BY <1>1, <1>2, <1>4, <1>10, <1>11 DEF DemuxInv, DemuxTypeOK, LinkMaps, InputMaps
<1>13. OutputsAgree'
  <2> SUFFICES ASSUME NEW e \in Demuxes, NEW x \in Ids, NEW v \in Users, NEW q \in InRanks
               PROVE  links'[e][x] = <<v, q>> <=> inputs'[v][q] = <<e, x>>
    BY DEF OutputsAgree
  <2>1. f.links[e][x] = <<v, q>> <=> f.inputs[v][q] = <<e, x>>
    BY <1>6 DEF Agree
  <2>2. f.links[d][id] = Loose /\ Loose # <<v, q>> /\ None # <<e, x>> /\ None # <<v, q>>
    <3>1. <<v, q>> \in Targets /\ <<e, x>> \in Demuxes \X Ids
      BY DEF Targets
    <3> QED
      BY <1>1, <1>5, <1>6, <1>7, <3>1, NoTargets
  <2>3. ~(e = d /\ x = id) => links'[e][x] = f.links[e][x]
    BY <1>6, <1>8
  <2>4. CASE (e = d /\ x = id) /\ (v = u /\ q = r)
    BY <1>8, <1>9, <2>4
  <2>5. CASE (e = d /\ x = id) /\ ~(v = u /\ q = r)
    <3>1. links'[e][x] = <<u, r>> /\ inputs'[v][q] = f.inputs[v][q]
      BY <1>8, <1>9, <2>5
    <3>2. f.inputs[v][q] # <<e, x>>
      BY <2>1, <2>2, <2>5
    <3> QED
      BY <2>5, <3>1, <3>2
  <2>6. CASE ~(e = d /\ x = id) /\ (v = u /\ q = r)
    <3>1. inputs'[v][q] = <<d, id>> /\ f.inputs[v][q] = None
      BY <1>6, <1>9, <2>6
    <3>2. links'[e][x] # <<v, q>>
      BY <2>1, <2>2, <2>3, <2>6, <3>1
    <3> QED
      BY <2>6, <3>1, <3>2
  <2>7. CASE ~(e = d /\ x = id) /\ ~(v = u /\ q = r)
    BY <1>9, <2>1, <2>3, <2>7
  <2> QED
    BY <2>4, <2>5, <2>6, <2>7
<1>14. Clear(d, u) => \A x \in Ids : links[d][x] \in Targets => links[d][x][1] # u
  <2>1. Clear(d, u) => Sole(h)
    BY <1>1 DEF Sole, d, u
  <2>2. ASSUME NEW x \in Ids, Sole(h), links[d][x] \in Targets, links[d][x][1] = u PROVE FALSE
    <3>1. h.at = "connected"
      BY <2>2 DEF DemuxInv, SoleInv, d, u
    <3> QED
      BY <1>1, <3>1
  <2> QED
    BY <2>1, <2>2
<1>15. \A e \in Demuxes, x \in Ids :
          links'[e][x] \in Targets /\ ~(e = d /\ x = id) => links'[e][x] = links[e][x]
  BY <1>8, NoTargets
<1>16. Once'
  <2> SUFFICES ASSUME NEW e \in Demuxes, NEW x \in Ids, NEW y \in Ids,
                      links'[e][x] \in Targets, links'[e][y] \in Targets,
                      links'[e][x][1] = links'[e][y][1], Clear(e, links'[e][x][1])
               PROVE  x = y
    BY <1>4 DEF Once, Clear
  <2>1. CASE e = d /\ x = id
    BY <1>8, <1>14, <1>15, <2>1
  <2>2. CASE e = d /\ y = id
    BY <1>8, <1>14, <1>15, <2>2
  <2>3. CASE ~(e = d /\ x = id) /\ ~(e = d /\ y = id)
    BY <1>15, <2>3 DEF DemuxInv, Once
  <2> QED
    BY <2>1, <2>2, <2>3
<1>17. \A g \in half' : g = k \/ (g \in half /\ g # h)
  BY <1>4
<1>18. CallInv'
  <2>1. \A g \in half' : Linking(g) => g \in half /\ g # h
    BY <1>2, <1>17 DEF Linking
  <2>2. ASSUME NEW g \in half', Linking(g) PROVE links'[g.d][g.id] = Loose
    <3>1. g \in half /\ g # h /\ links[g.d][g.id] = Loose /\ g.d \in Demuxes /\ g.id \in Ids
      BY <1>1, <2>1, <2>2 DEF DemuxInv, CallInv, HalfMade
    <3>2. ~(g.d = d /\ g.id = id)
      BY <1>1, <2>2, <3>1 DEF DemuxInv, CallInv, Linking, d, id, u
    <3> QED
      BY <1>7, <1>8, <3>1, <3>2, NoTargets
  <2> QED
    BY <2>1, <2>2 DEF DemuxInv, CallInv
<1>19. SoleInv'
  <2>1. \A g \in half : Sole(g)' <=> Sole(g)
    BY <1>4 DEF Sole, Clear
  <2>2. Sole(k)' => Sole(h) /\ Clear(d, u)
    BY <1>1, <1>2, <1>4 DEF Sole, Clear, d, u
  <2>3. ASSUME NEW g \in half', NEW i \in half', Sole(g)', Sole(i)', g.d = i.d, g.target = i.target
        PROVE  g = i
    <3>1. \A j \in half : Sole(h) /\ Sole(j) /\ j.d = d /\ j.target = u => j = h
      BY DEF DemuxInv, SoleInv, d, u
    <3>2. CASE g = k \/ i = k
      BY <1>2, <1>17, <2>1, <2>2, <2>3, <3>1, <3>2
    <3>3. CASE g # k /\ i # k
      BY <1>17, <2>1, <2>3, <3>3 DEF DemuxInv, SoleInv
    <3> QED
      BY <3>2, <3>3
  <2>4. ASSUME NEW g \in half', NEW x \in Ids,
               Sole(g)', links'[g.d][x] \in Targets, links'[g.d][x][1] = g.target
        PROVE  g.at = "connected" /\ x = g.id /\ links'[g.d][x] = <<g.target, g.in>>
    <3>1. CASE g = k
      BY <1>1, <1>2, <1>8, <1>14, <1>15, <2>2, <2>4, <3>1
    <3>2. CASE g # k
      <4>1. g \in half /\ g # h /\ Sole(g) /\ g.d \in Demuxes
        BY <1>1, <1>17, <2>1, <2>4, <3>2 DEF HalfMade
      <4>2. ~(g.d = d /\ g.target = u)
        <5>1. g.d = d /\ g.target = u => Sole(h)
          BY <1>1, <4>1 DEF Sole, d, u
        <5> QED
          BY <4>1, <5>1 DEF DemuxInv, SoleInv, d, u
      <4>3. ~(g.d = d /\ x = id)
        BY <1>8, <2>4, <4>1, <4>2
      <4>4. links'[g.d][x] = links[g.d][x]
        BY <1>15, <2>4, <4>1, <4>3
      <4> QED
        BY <2>4, <4>1, <4>4 DEF DemuxInv, SoleInv
    <3> QED
      BY <3>1, <3>2
  <2> QED
    BY <2>3, <2>4 DEF SoleInv
<1>20. RoutesAreSaved'
  <2> SUFFICES ASSUME NEW e \in Demuxes, NEW x \in Ids, links'[e][x] \in Targets,
                      Clear(e, links'[e][x][1]),
                      ~\E g \in half' : Recording(g, e, x, links'[e][x][1])
               PROVE  <<links'[e][x][1], links'[e][x][2], x>> \in saved[e]
    BY <1>4 DEF RoutesAreSaved, Recording, Clear
  <2>1. k \in half'
    BY <1>4
  <2>2. ~(e = d /\ x = id)
    BY <1>2, <1>8, <2>1 DEF Recording
  <2>3. links'[e][x] = links[e][x]
    BY <1>15, <2>2
  <2>4. \A g \in half : g.at = "connected" => g \in half'
    BY <1>1, <1>4
  <2> QED
    BY <2>3, <2>4 DEF DemuxInv, RoutesAreSaved, Recording, Clear
<1> QED
  BY <1>12, <1>13, <1>16, <1>18, <1>19, <1>20 DEF DemuxInv

LEMMA RecordKeeps ==
    ASSUME DemuxInv, NEW h \in half, EndConnect(h)
    PROVE  DemuxInv'
<1> DEFINE d == h.d
           u == h.target
<1>1. /\ half \subseteq HalfMade /\ h.at = "connected"
      /\ d \in Demuxes /\ h.id \in Ids /\ u \in Users /\ h.in \in InRanks
  BY DEF DemuxInv, DemuxTypeOK, HalfMade, EndConnect
<1>2. /\ half' = half \ {h}
      /\ saved' = [saved EXCEPT ![d] = Record(@, u, h.in, h.id)]
      /\ UNCHANGED <<members, links, inputs, clashes, crashed, calls>>
  BY DEF EndConnect
<1> HIDE DEF d, u
<1>3. /\ \A e \in Demuxes : saved'[e] = IF e = d THEN Record(saved[d], u, h.in, h.id) ELSE saved[e]
      /\ saved' \in [Demuxes -> SUBSET (Users \X InRanks \X Ids)]
  <2>1. Record(saved[d], u, h.in, h.id) \subseteq Users \X InRanks \X Ids
    BY <1>1 DEF Record, DemuxInv, DemuxTypeOK
  <2> QED
    BY <1>1, <1>2, <2>1 DEF DemuxInv, DemuxTypeOK
<1>4. DemuxTypeOK' /\ OutputsAgree' /\ Once'
  BY <1>1, <1>2, <1>3 DEF DemuxInv, DemuxTypeOK, OutputsAgree, Once, Clear
<1>5. CallInv' /\ SoleInv'
  BY <1>2 DEF DemuxInv, CallInv, SoleInv, Sole, Clear
<1>6. RoutesAreSaved'
  <2> SUFFICES ASSUME NEW e \in Demuxes, NEW x \in Ids, links[e][x] \in Targets,
                      Clear(e, links[e][x][1]),
                      ~\E g \in half' : Recording(g, e, x, links[e][x][1])
               PROVE  <<links[e][x][1], links[e][x][2], x>> \in saved'[e]
    BY <1>2 DEF RoutesAreSaved, Recording, Clear
  <2>1. CASE e = d /\ links[e][x][1] = u
    <3>1. Sole(h)
      BY <1>1, <2>1 DEF Sole, d, u
    <3>2. x = h.id /\ links[e][x] = <<u, h.in>>
      BY <2>1, <3>1 DEF DemuxInv, SoleInv, d, u
    <3> QED
      BY <1>1, <1>3, <2>1, <3>2 DEF Record
  <2>2. CASE ~(e = d /\ links[e][x][1] = u)
    <3>1. ~\E g \in half : Recording(g, e, x, links[e][x][1])
      BY <1>2, <2>2 DEF Recording, d, u
    <3>2. <<links[e][x][1], links[e][x][2], x>> \in saved[e]
      BY <3>1 DEF DemuxInv, RoutesAreSaved, Recording, Clear
    <3> QED
      BY <1>3, <2>2, <3>2 DEF Record
  <2> QED
    BY <2>1, <2>2
<1> QED
  BY <1>4, <1>5, <1>6 DEF DemuxInv

\* A frame passed on may end the process, which changes nothing else here.
LEMMA DemuxSteps ==
    ASSUME DemuxInv,
           \/ Reconfigure
           \/ \E h \in half : GoOn(h)
           \/ /\ UNCHANGED <<members, links, inputs, saved, half, clashes, calls>>
              /\ crashed' \in BOOLEAN
    PROVE  DemuxInv'
<1>1. CASE UNCHANGED <<members, links, inputs, saved, half, clashes, calls>> /\ crashed' \in BOOLEAN
  <2>1. DemuxTypeOK' /\ OutputsAgree' /\ Once' /\ RoutesAreSaved'
    BY <1>1 DEF DemuxInv, DemuxTypeOK, OutputsAgree, Once, RoutesAreSaved, Clear
  <2>2. CallInv' /\ SoleInv'
    BY <1>1 DEF DemuxInv, CallInv, SoleInv, Sole, Clear
  <2> QED
    BY <2>1, <2>2 DEF DemuxInv
<1>2. ASSUME NEW u \in Users, AddUser(u) PROVE DemuxInv'
  <2>1. /\ UNCHANGED <<links, inputs, saved, half, clashes, crashed>>
        /\ members' \subseteq Users /\ calls' \in 0..MaxCalls
    BY <1>2, DemuxAssumption DEF AddUser, Manage, DemuxInv, DemuxTypeOK
  <2>2. DemuxTypeOK' /\ OutputsAgree' /\ Once' /\ RoutesAreSaved'
    BY <2>1 DEF DemuxInv, DemuxTypeOK, OutputsAgree, Once, RoutesAreSaved, Clear
  <2>3. CallInv' /\ SoleInv'
    BY <2>1 DEF DemuxInv, CallInv, SoleInv, Sole, Clear
  <2> QED
    BY <2>2, <2>3 DEF DemuxInv
<1>3. ASSUME NEW h \in half, Dangle(h) PROVE DemuxInv'
  BY <1>1, <1>3 DEF Dangle
<1> QED
  BY <1>1, <1>2, <1>3, UserStays, ConnectBegins, CheckKeeps, ConnectKeeps, RecordKeeps
     DEF Reconfigure, GoOn

-----------------------------------------------------------------------------
(* Queues.                                                                 *)

Held(s) == {s[i] : i \in 1..Len(s)}

\* A frame of a spacecraft of the tree that came this far under its own identifier.
Real(f) == f.from \in Demuxes /\ f.mcid = f.from

Older(f, g) == Real(f) /\ Real(g) /\ f.from = g.from => f.no < g.no

Sorted(s) == \A i, j \in 1..Len(s) : i < j => Older(s[i], s[j])

Ahead(A, B) == \A f \in A, g \in B : Older(f, g)

LEMMA Appended ==
    ASSUME NEW S, NEW s \in Seq(S), NEW f \in S
    PROVE  /\ Append(s, f) \in Seq(S)
           /\ Held(Append(s, f)) = Held(s) \cup {f}
           /\ Sorted(s) /\ Ahead(Held(s), {f}) => Sorted(Append(s, f))
<1> DEFINE a == Append(s, f)
<1>1. /\ a \in Seq(S) /\ Len(s) \in Nat /\ Len(a) = Len(s) + 1 /\ a[Len(s) + 1] = f
      /\ \A i \in 1..Len(s) : a[i] = s[i]
  OBVIOUS
<1> HIDE DEF a
<1>2. Held(a) = Held(s) \cup {f}
  <2>1. 1..Len(a) = (1..Len(s)) \cup {Len(s) + 1}
    BY <1>1
  <2> QED
    BY <1>1, <2>1 DEF Held
<1>3. ASSUME Sorted(s), Ahead(Held(s), {f}), NEW i \in 1..Len(a), NEW j \in 1..Len(a), i < j
      PROVE  Older(a[i], a[j])
  <2>1. i \in 1..Len(s) /\ a[i] = s[i] /\ s[i] \in Held(s)
    BY <1>1, <1>3 DEF Held
  <2>2. CASE j = Len(s) + 1
    BY <1>1, <1>3, <2>1, <2>2 DEF Ahead
  <2>3. CASE j # Len(s) + 1
    <3>1. j \in 1..Len(s) /\ a[j] = s[j]
      BY <1>1, <2>3
    <3> QED
      BY <1>3, <2>1, <3>1 DEF Sorted
  <2> QED
    BY <2>2, <2>3
<1>4. Sorted(s) /\ Ahead(Held(s), {f}) => Sorted(a)
  BY <1>3 DEF Sorted
<1> QED
  BY <1>1, <1>2, <1>4 DEF a

LEMMA HeadTaken ==
    ASSUME NEW S, NEW s \in Seq(S), s # <<>>
    PROVE  /\ Head(s) \in S /\ Head(s) \in Held(s)
           /\ Tail(s) \in Seq(S) /\ Held(Tail(s)) \subseteq Held(s)
           /\ Sorted(s) => Sorted(Tail(s)) /\ Ahead({Head(s)}, Held(Tail(s)))
<1> DEFINE t == Tail(s)
<1>1. /\ Head(s) = s[1] /\ Len(s) \in Nat /\ Len(s) >= 1 /\ s[1] \in S
      /\ t \in Seq(S) /\ Len(t) = Len(s) - 1
      /\ \A i \in 1..Len(t) : t[i] = s[i + 1]
  OBVIOUS
<1> HIDE DEF t
<1>2. \A i \in 1..Len(t) : t[i] = s[i + 1] /\ i + 1 \in 1..Len(s) /\ 1 < i + 1
  BY <1>1
<1>3. Held(t) \subseteq Held(s) /\ s[1] \in Held(s)
  BY <1>1, <1>2 DEF Held
<1>4. Sorted(s) => Sorted(t)
  BY <1>2 DEF Sorted
<1>5. Sorted(s) => Ahead({s[1]}, Held(t))
  BY <1>1, <1>2 DEF Sorted, Ahead, Held
<1> QED
  BY <1>1, <1>3, <1>4, <1>5 DEF t

\* The frames of one set are, but for their form, among those of another.
From(A, B) == \A f \in A : \E g \in B : f.from = g.from /\ f.mcid = g.mcid /\ f.no = g.no

Without(s, i) == [j \in 1..Len(s) - 1 |-> IF j < i THEN s[j] ELSE s[j + 1]]

LEMMA Removed ==
    ASSUME NEW s \in Seq(Frame), NEW i \in 1..Len(s)
    PROVE  /\ Without(s, i) \in Seq(Frame)
           /\ Held(Without(s, i)) \subseteq Held(s)
           /\ Sorted(s) => Sorted(Without(s, i))
<1> DEFINE n == Len(s) - 1
           t == [j \in 1..n |-> IF j < i THEN s[j] ELSE s[j + 1]]
           old(j) == IF j < i THEN j ELSE j + 1
<1>1. n \in Nat /\ \A j \in 1..n : old(j) \in 1..Len(s) /\ t[j] = s[old(j)] /\ s[old(j)] \in Frame
  OBVIOUS
<1>2. \A j, k \in 1..n : j < k => old(j) < old(k)
  OBVIOUS
<1>3. t \in Seq(Frame) /\ Len(t) = n
  BY <1>1
<1> HIDE DEF n, t, old
<1>4. Held(t) \subseteq Held(s)
  BY <1>1, <1>3 DEF Held
<1>5. Sorted(s) => Sorted(t)
  BY <1>1, <1>2, <1>3 DEF Sorted
<1> QED
  BY <1>3, <1>4, <1>5 DEF t, n, Without

LEMMA Spoilt ==
    ASSUME NEW s \in Seq(Frame), NEW i \in 1..Len(s)
    PROVE  LET t == [s EXCEPT ![i].ok = FALSE]
           IN  t \in Seq(Frame) /\ From(Held(t), Held(s)) /\ (Sorted(s) => Sorted(t))
<1> DEFINE t == [s EXCEPT ![i].ok = FALSE]
<1>1. Len(s) \in Nat /\ \A j \in 1..Len(s) : s[j] \in Frame
  OBVIOUS
<1>2. t = [j \in 1..Len(s) |-> IF j = i THEN [s[i] EXCEPT !.ok = FALSE] ELSE s[j]]
  <2>1. s \in [1..Len(s) -> Frame]
    OBVIOUS
  <2> QED
    BY <2>1
<1>3. [s[i] EXCEPT !.ok = FALSE] \in Frame
  BY <1>1 DEF Frame
<1>4. t \in Seq(Frame) /\ Len(t) = Len(s)
  BY <1>1, <1>2, <1>3
<1>5. \A j \in 1..Len(s) : t[j].from = s[j].from /\ t[j].mcid = s[j].mcid /\ t[j].no = s[j].no
  BY <1>1, <1>2 DEF Frame
<1> HIDE DEF t
<1>6. From(Held(t), Held(s))
  BY <1>4, <1>5 DEF From, Held
<1>7. Sorted(s) => Sorted(t)
  BY <1>4, <1>5 DEF Sorted, Older, Real
<1> QED
  BY <1>4, <1>6, <1>7 DEF t

-----------------------------------------------------------------------------
(* Types.                                                                  *)

TrafficTypeOK ==
    /\ vcMux \in [Demuxes -> Seq(Frame)] /\ vcDemux \in [Demuxes -> Seq(Frame)]
    /\ mcMux \in Seq(Frame) /\ line \in Seq(Frame)
    /\ got \in [Users -> Seq([frame : Frame, via : Demuxes])]
    /\ emitted \subseteq Frame /\ gone \subseteq Frame
    /\ hits \in 0..MaxHits

TypeInv == DemuxInv /\ TrafficTypeOK /\ IsFiniteSet(emitted)

LEMMA TypeStarts == Init => TypeInv
<1> SUFFICES ASSUME Init PROVE TypeInv
  OBVIOUS
<1>1. DemuxInv
  BY DemuxStarts DEF Init
<1>2. TrafficTypeOK
  BY TreeAssumption DEF Init, TrafficTypeOK
<1>3. IsFiniteSet(emitted)
  BY FS_EmptySet DEF Init
<1> QED
  BY <1>1, <1>2, <1>3 DEF TypeInv

LEMMA TypeSteps == TypeInv /\ [Next]_vars => TypeInv'
<1> SUFFICES ASSUME TypeInv, [Next]_vars PROVE TypeInv'
  OBVIOUS
<1>0. DemuxInv /\ TrafficTypeOK /\ IsFiniteSet(emitted) /\ Cardinality(emitted) \in Nat
  BY FS_CardinalityType DEF TypeInv
<1>n. MaxFrames \in Nat /\ MaxHits \in Nat /\ hits \in 0..MaxHits
  BY <1>0, TreeAssumption DEF TrafficTypeOK
<1>d. UNCHANGED demux => DemuxInv'
  BY <1>0, DemuxSteps DEF demux, DemuxInv, DemuxTypeOK
<1>1. ASSUME NEW d \in Demuxes, NEW v \in Ids, Emit(d, v)
      PROVE  TypeInv'
  <2> DEFINE f == [from |-> d, no |-> Cardinality(emitted) + 1, mcid |-> d, vcid |-> v, ok |-> TRUE]
  <2>1. f \in Frame
    BY <1>0, <1>n, <1>1 DEF Emit, Frame
  <2>2. /\ vcMux' = [vcMux EXCEPT ![d] = Append(@, f)] /\ emitted' = emitted \cup {f}
        /\ UNCHANGED <<demux, mcMux, line, vcDemux, got, gone, hits>>
    BY <1>1 DEF Emit, Putq
  <2> HIDE DEF f
  <2>3. IsFiniteSet(emitted')
    BY <1>0, <2>2, FS_AddElement
  <2>4. vcMux' \in [Demuxes -> Seq(Frame)]
    BY <1>0, <2>1, <2>2 DEF TrafficTypeOK
  <2> QED
    BY <1>0, <1>d, <2>1, <2>2, <2>3, <2>4 DEF TypeInv, TrafficTypeOK
<1>2. ASSUME NEW d \in Demuxes, NEW m \in Demuxes, NEW v \in Ids, EmitMisaddressed(d, m, v)
      PROVE  TypeInv'
  <2> DEFINE f == [from |-> d, no |-> MaxFrames + hits', mcid |-> m, vcid |-> v, ok |-> TRUE]
  <2>1. f \in Frame /\ hits' \in 0..MaxHits
    BY <1>n, <1>2 DEF EmitMisaddressed, Frame
  <2>2. /\ vcMux' = [vcMux EXCEPT ![d] = Append(@, f)]
        /\ UNCHANGED <<demux, mcMux, line, vcDemux, got, emitted, gone>>
    BY <1>2 DEF EmitMisaddressed, Putq
  <2> HIDE DEF f
  <2>3. vcMux' \in [Demuxes -> Seq(Frame)]
    BY <1>0, <2>1, <2>2 DEF TrafficTypeOK
  <2> QED
    BY <1>0, <1>d, <2>1, <2>2, <2>3 DEF TypeInv, TrafficTypeOK
<1>3. ASSUME NEW d \in Demuxes, VC_Mux(d)
      PROVE  TypeInv'
  <2>1. /\ Head(vcMux[d]) \in Frame /\ Tail(vcMux[d]) \in Seq(Frame)
    BY <1>0, <1>3, HeadTaken DEF VC_Mux, TrafficTypeOK
  <2>2. /\ vcMux' = [vcMux EXCEPT ![d] = Tail(@)]
        /\ mcMux' = Append(mcMux, Head(vcMux[d])) \/ mcMux' = mcMux
        /\ UNCHANGED <<demux, line, vcDemux, got, emitted, gone, hits>>
    BY <1>3 DEF VC_Mux, Putq
  <2>3. vcMux' \in [Demuxes -> Seq(Frame)]
    BY <1>0, <2>1, <2>2 DEF TrafficTypeOK
  <2>4. mcMux' \in Seq(Frame)
    <3>1. mcMux \in Seq(Frame) /\ Append(mcMux, Head(vcMux[d])) \in Seq(Frame)
      BY <1>0, <2>1, Appended DEF TrafficTypeOK
    <3> QED
      BY <2>2, <3>1
  <2>5. UNCHANGED <<demux, line, vcDemux, got, emitted, gone, hits>>
    BY <2>2
  <2> QED
    BY <1>0, <1>d, <2>3, <2>4, <2>5 DEF TypeInv, TrafficTypeOK
<1>4. ASSUME MC_Mux PROVE TypeInv'
  <2>1. Head(mcMux) \in Frame /\ Tail(mcMux) \in Seq(Frame)
    BY <1>0, <1>4, HeadTaken DEF MC_Mux, TrafficTypeOK
  <2>2. line' = Append(line, Head(mcMux)) /\ mcMux' = Tail(mcMux)
        /\ UNCHANGED <<demux, vcMux, vcDemux, got, emitted, gone, hits>>
    BY <1>4 DEF MC_Mux
  <2>3. line' \in Seq(Frame)
    BY <1>0, <2>1, <2>2, Appended DEF TrafficTypeOK
  <2> QED
    BY <1>0, <1>d, <2>1, <2>2, <2>3 DEF TypeInv, TrafficTypeOK
<1>5. ASSUME MC_Demux PROVE TypeInv'
  <2>1. Head(line) \in Frame /\ Tail(line) \in Seq(Frame)
    BY <1>0, <1>5, HeadTaken DEF MC_Demux, TrafficTypeOK
  <2> DEFINE f == Head(line)
             key == f.mcid % 256
  <2>2. /\ line' = Tail(line)
        /\ vcDemux' = vcDemux \/ (key \in Demuxes /\ vcDemux' = [vcDemux EXCEPT ![key] = Append(@, f)])
        /\ UNCHANGED <<demux, vcMux, mcMux, got, emitted, gone, hits>>
    BY <1>5 DEF MC_Demux
  <2> HIDE DEF f, key
  <2>3. ASSUME key \in Demuxes PROVE Append(vcDemux[key], f) \in Seq(Frame)
    BY <1>0, <2>1, <2>3, Appended DEF TrafficTypeOK, f
  <2>4. vcDemux' \in [Demuxes -> Seq(Frame)]
    BY <1>0, <2>2, <2>3 DEF TrafficTypeOK
  <2> QED
    BY <1>0, <1>d, <2>1, <2>2, <2>4 DEF TypeInv, TrafficTypeOK
<1>6. ASSUME NEW d \in Demuxes, VC_Demux(d) PROVE TypeInv'
  <2> DEFINE f == Head(vcDemux[d])
             l == links[d][f.vcid]
             g == [frame |-> f, via |-> d]
  <2>1. f \in Frame /\ Tail(vcDemux[d]) \in Seq(Frame)
    BY <1>0, <1>6, HeadTaken DEF VC_Demux, TrafficTypeOK
  <2>2. /\ vcDemux' = [vcDemux EXCEPT ![d] = Tail(@)]
        /\ UNCHANGED <<members, links, inputs, saved, half, clashes, calls, vcMux, mcMux, line, emitted, hits>>
    BY <1>6 DEF VC_Demux
  <2>3. crashed' \in BOOLEAN /\ gone' \subseteq Frame
    BY <1>0, <1>6, <2>1 DEF VC_Demux, DemuxInv, DemuxTypeOK, TrafficTypeOK
  <2>4. \/ got' = got
        \/ l \in Targets /\ got' = [got EXCEPT ![l[1]] = Append(@, g)]
    BY <1>6 DEF VC_Demux
  <2>5. g \in [frame : Frame, via : Demuxes]
    BY <2>1
  <2> HIDE DEF f, l, g
  <2>6. got' \in [Users -> Seq([frame : Frame, via : Demuxes])]
    <3>1. CASE got' = got
      BY <1>0, <3>1 DEF TrafficTypeOK
    <3>2. CASE l \in Targets /\ got' = [got EXCEPT ![l[1]] = Append(@, g)]
      <4>1. l[1] \in Users
        BY <3>2 DEF Targets
      <4>2. Append(got[l[1]], g) \in Seq([frame : Frame, via : Demuxes])
        BY <1>0, <2>5, <4>1, Appended DEF TrafficTypeOK
      <4> QED
        BY <1>0, <3>2, <4>1, <4>2 DEF TrafficTypeOK
    <3> QED
      BY <2>4, <3>1, <3>2
  <2>7. DemuxInv'
    BY <1>0, <2>2, <2>3, DemuxSteps
  <2> QED
    BY <1>0, <2>1, <2>2, <2>3, <2>6, <2>7 DEF TypeInv, TrafficTypeOK
<1>7. ASSUME NEW i \in 1..Len(line), Lose(i) \/ Spoil(i) PROVE TypeInv'
  <2>1. line[i] \in Frame
    BY <1>0 DEF TrafficTypeOK
  <2>2. line' \in Seq(Frame)
    <3>1. Lose(i) => line' = Without(line, i)
      BY DEF Lose, Without
    <3> QED
      BY <1>0, <1>7, <3>1, Removed, Spoilt DEF Spoil, TrafficTypeOK
  <2>3. /\ gone' = gone \cup {line[i]} /\ hits' \in 0..MaxHits
        /\ UNCHANGED <<demux, vcMux, mcMux, vcDemux, got, emitted>>
    BY <1>n, <1>7 DEF Lose, Spoil, Hit
  <2> QED
    BY <1>0, <1>d, <2>1, <2>2, <2>3 DEF TypeInv, TrafficTypeOK
<1>8. ASSUME NEW m \in Foreign, NEW v \in Ids, Hear(m, v) PROVE TypeInv'
  <2> DEFINE f == [from |-> m, no |-> MaxFrames + hits', mcid |-> m, vcid |-> v, ok |-> TRUE]
  <2>1. f \in Frame /\ hits' \in 0..MaxHits
    BY <1>n, <1>8 DEF Hear, Hit, Frame
  <2>2. /\ line' = Append(line, f)
        /\ UNCHANGED <<demux, vcMux, mcMux, vcDemux, got, emitted, gone>>
    BY <1>8 DEF Hear, Hit
  <2> HIDE DEF f
  <2>3. line' \in Seq(Frame)
    BY <1>0, <2>1, <2>2, Appended DEF TrafficTypeOK
  <2> QED
    BY <1>0, <1>d, <2>1, <2>2, <2>3 DEF TypeInv, TrafficTypeOK
<1>9. ASSUME Reconfigure \/ \E h \in half : GoOn(h), UNCHANGED traffic PROVE TypeInv'
  BY <1>0, <1>9, DemuxSteps DEF TypeInv, TrafficTypeOK, traffic
<1>10. CASE UNCHANGED vars
  BY <1>0, <1>d, <1>10 DEF TypeInv, TrafficTypeOK, traffic, vars
<1> QED
  BY <1>1, <1>2, <1>3, <1>4, <1>5, <1>6, <1>7, <1>8, <1>9, <1>10 DEF Next, Faults, Service

\* The demultiplexers, their users and the settings agree on who gets an identifier's frames,
\* however many calls that connect, refuse and remove are half made at once
\* (TM_Demux_Base::connectPrimaryOutput(), disconnectOutput(), withdraw()), but for a target
\* that two of them were connecting.
THEOREM RoutesStayRight == Spec => []RoutesAgree
<1>1. TypeInv => RoutesAgree
  BY DEF TypeInv, DemuxInv, TrafficTypeOK, RoutesAgree, TypeOK
<1> QED
  BY <1>1, TypeStarts, TypeSteps, PTL DEF Spec

-----------------------------------------------------------------------------
(* The order of the frames of one spacecraft: from the users back to the   *)
(* multiplexers, the frames further on are the older ones.                 *)

Delivered == {Receipt(p) : p \in Received}

\* What each stage holds, the farthest one first.
Stages == <<Delivered, UNION {Held(vcDemux[d]) : d \in Demuxes}, Held(line), Held(mcMux),
            UNION {Held(vcMux[d]) : d \in Demuxes}>>

Chain(c) == \A i, j \in 1..5 : i < j => Ahead(c[i], c[j])

\* No frame is numbered above the last one emitted.
Counted(c, n) == \A i \in 1..5 : \A f \in c[i] : Real(f) => f.no <= n

InvSorted ==
    /\ Sorted(mcMux) /\ Sorted(line)
    /\ \A d \in Demuxes : Sorted(vcMux[d]) /\ Sorted(vcDemux[d])

InvStages ==
    /\ Chain(Stages)
    /\ Counted(Stages, Cardinality(emitted))
    /\ \A f \in emitted : f.no <= Cardinality(emitted)

\* Which frames a stage can hold: past its multiplexer a frame bears its own
\* identifier, and it goes to the demultiplexer its last eight bits name.
InvFrom ==
    /\ \A d \in Demuxes : \A f \in Held(vcMux[d]) : f.from = d
    /\ \A f \in Held(mcMux) \cup Held(line) : f.mcid = f.from
    /\ \A d \in Demuxes : \A f \in Held(vcDemux[d]) : f.mcid = f.from /\ f.mcid % 256 = d

InvGot ==
    /\ \A p \in Received : /\ Receipt(p).ok /\ Real(Receipt(p))
                           /\ Receipt(p).from = got[p[1]][p[2]].via
    /\ InOrder

OrderInv == InvSorted /\ InvStages /\ InvFrom /\ InvGot

\* The first frame of a stage goes on to the next one, or is dropped.
LEMMA Moved ==
    ASSUME NEW c, NEW e, NEW n, Chain(c), Counted(c, n), NEW k \in 2..5, NEW f \in c[k],
           \A i \in 1..5 : e[i] \subseteq c[i] \cup (IF i = k - 1 THEN {f} ELSE {}),
           Ahead({f}, e[k])
    PROVE  Chain(e) /\ Counted(e, n)
<1>1. ASSUME NEW i \in 1..5, NEW j \in 1..5, i < j, NEW x \in e[i], NEW y \in e[j]
      PROVE  Older(x, y)
  <2>1. CASE x \in c[i] /\ y \in c[j]
    BY <1>1, <2>1 DEF Chain, Ahead
  <2>2. CASE x = f /\ i = k - 1 /\ j = k
    BY <1>1, <2>2 DEF Ahead
  <2>3. CASE x = f /\ i = k - 1 /\ j # k
    <3>1. k < j /\ y \in c[j]
      BY <1>1, <2>3
    <3> QED
      BY <2>3, <3>1 DEF Chain, Ahead
  <2>4. CASE y = f /\ j = k - 1
    <3>1. i < k /\ x \in c[i] /\ i \in 1..5 /\ k \in 1..5
      BY <1>1, <2>4
    <3> QED
      BY <2>4, <3>1 DEF Chain, Ahead
  <2> QED
    BY <1>1, <2>1, <2>2, <2>3, <2>4
<1>2. ASSUME NEW i \in 1..5, NEW x \in e[i], Real(x) PROVE x.no <= n
  <2>1. x \in c[i] \/ x \in c[k]
    OBVIOUS
  <2>2. k \in 1..5
    OBVIOUS
  <2> QED
    BY <1>2, <2>1, <2>2 DEF Counted
<1> QED
  BY <1>1, <1>2 DEF Chain, Ahead, Counted

\* Frames are lost or spoilt.
LEMMA Thinned ==
    ASSUME NEW c, NEW e, NEW n, Chain(c), Counted(c, n), \A i \in 1..5 : From(e[i], c[i])
    PROVE  Chain(e) /\ Counted(e, n)
<1>1. Chain(e)
  <2> SUFFICES ASSUME NEW i \in 1..5, NEW j \in 1..5, i < j, NEW x \in e[i], NEW y \in e[j]
               PROVE  Older(x, y)
    BY DEF Chain, Ahead
  <2>1. PICK a \in c[i] : x.from = a.from /\ x.mcid = a.mcid /\ x.no = a.no
    BY DEF From
  <2>2. PICK b \in c[j] : y.from = b.from /\ y.mcid = b.mcid /\ y.no = b.no
    BY DEF From
  <2>3. Older(a, b)
    BY DEF Chain, Ahead
  <2> QED
    BY <2>1, <2>2, <2>3 DEF Older, Real
<1>2. Counted(e, n)
  BY DEF Counted, From, Real
<1> QED
  BY <1>1, <1>2

\* A frame of another kind joins a stage: none of those the order is about.
LEMMA Joined ==
    ASSUME NEW c, NEW e, NEW n, Chain(c), Counted(c, n), NEW f, ~Real(f),
           \A i \in 1..5 : e[i] \subseteq c[i] \cup {f}
    PROVE  Chain(e) /\ Counted(e, n)
BY DEF Chain, Ahead, Older, Counted

\* A new frame joins the last stage.
LEMMA Numbered ==
    ASSUME NEW c, NEW e, NEW n \in Nat, Chain(c), Counted(c, n),
           \A i \in 1..5 : c[i] \subseteq Frame,
           NEW f, f.no = n + 1,
           \A i \in 1..5 : e[i] \subseteq c[i] \cup (IF i = 5 THEN {f} ELSE {})
    PROVE  Chain(e) /\ Counted(e, n + 1)
<1>1. ASSUME NEW i \in 1..5, NEW x \in c[i], Real(x) PROVE x.no \in Nat /\ x.no <= n
  BY <1>1 DEF Counted, Frame
<1>2. Chain(e)
  BY <1>1 DEF Chain, Ahead, Older
<1>3. Counted(e, n + 1)
  BY <1>1 DEF Counted
<1> QED
  BY <1>2, <1>3

LEMMA StagesAre ==
    /\ Stages[1] = Delivered
    /\ Stages[2] = UNION {Held(vcDemux[d]) : d \in Demuxes}
    /\ Stages[3] = Held(line)
    /\ Stages[4] = Held(mcMux)
    /\ Stages[5] = UNION {Held(vcMux[d]) : d \in Demuxes}
BY DEF Stages

LEMMA ReceivedAre ==
    \A p : p \in Received <=> p[1] \in Users /\ p[2] \in 1..Len(got[p[1]]) /\ p = <<p[1], p[2]>>
BY DEF Received

LEMMA StagesTyped ==
    ASSUME TypeInv PROVE \A i \in 1..5 : Stages[i] \subseteq Frame
<1>1. \A s \in Seq(Frame) : Held(s) \subseteq Frame
  BY DEF Held
<1>2. Delivered \subseteq Frame
  <2> SUFFICES ASSUME NEW p \in Received PROVE got[p[1]][p[2]].frame \in Frame
    BY DEF Delivered, Receipt
  <2>1. p[1] \in Users /\ p[2] \in 1..Len(got[p[1]])
    BY ReceivedAre
  <2>2. got[p[1]] \in Seq([frame : Frame, via : Demuxes])
    BY <2>1 DEF TypeInv, TrafficTypeOK
  <2>3. \A S : \A s \in Seq(S) : \A i \in 1..Len(s) : s[i] \in S
    OBVIOUS
  <2>4. got[p[1]][p[2]] \in [frame : Frame, via : Demuxes]
    BY <2>1, <2>2, <2>3, Zenon
  <2> QED
    BY <2>4
<1>3. /\ Held(line) \subseteq Frame /\ Held(mcMux) \subseteq Frame
      /\ UNION {Held(vcDemux[d]) : d \in Demuxes} \subseteq Frame
      /\ UNION {Held(vcMux[d]) : d \in Demuxes} \subseteq Frame
  BY <1>1 DEF TypeInv, TrafficTypeOK
<1> QED
  BY <1>2, <1>3, StagesAre

LEMMA NextStagesAre ==
    /\ Stages'[1] = Delivered'
    /\ Stages'[2] = UNION {Held(vcDemux'[d]) : d \in Demuxes}
    /\ Stages'[3] = Held(line')
    /\ Stages'[4] = Held(mcMux')
    /\ Stages'[5] = UNION {Held(vcMux'[d]) : d \in Demuxes}
BY DEF Stages

LEMMA GotStays ==
    ASSUME UNCHANGED got PROVE Delivered' = Delivered /\ (InvGot => InvGot')
BY DEF Delivered, InvGot, InOrder, Received, Receipt

\* modTM_VC_Mux::svc().
LEMMA VC_MuxKeepsOrder ==
    ASSUME DropBadFrames, TypeInv, OrderInv, NEW d \in Demuxes, VC_Mux(d)
    PROVE  OrderInv'
<1> DEFINE f == Head(vcMux[d])
           t == Tail(vcMux[d])
<1>1. /\ f \in Frame /\ f \in Held(vcMux[d]) /\ Held(t) \subseteq Held(vcMux[d])
      /\ Sorted(t) /\ Ahead({f}, Held(t))
  <2>1. vcMux[d] \in Seq(Frame) /\ vcMux[d] # <<>> /\ Sorted(vcMux[d])
    BY DEF TypeInv, TrafficTypeOK, VC_Mux, OrderInv, InvSorted
  <2> QED
    BY <2>1, HeadTaken
<1>2. /\ vcMux' = [vcMux EXCEPT ![d] = t]
      /\ mcMux' = IF f.ok /\ f.mcid = d THEN Append(mcMux, f) ELSE mcMux
      /\ UNCHANGED <<line, vcDemux, got, emitted>>
  BY DEF VC_Mux, Putq, Keeps, OfMasterChannel
<1>3. mcMux \in Seq(Frame) /\ line \in Seq(Frame)
  BY DEF TypeInv, TrafficTypeOK
<1> HIDE DEF f, t
<1>4. \A e \in Demuxes : vcMux'[e] = IF e = d THEN t ELSE vcMux[e]
  BY <1>2 DEF TypeInv, TrafficTypeOK
<1>5. \A e \in Demuxes : Held(vcMux'[e]) \subseteq Held(vcMux[e])
  BY <1>1, <1>4
<1>6. \A e \in Demuxes : \A g \in Held(vcMux[e]) : g.from = e
  BY DEF OrderInv, InvFrom
<1>7. f \in Stages[5]
  BY <1>1, StagesAre
<1>8. Ahead({f}, Stages'[5])
  <2> SUFFICES ASSUME NEW e \in Demuxes, NEW g \in Held(vcMux'[e]) PROVE Older(f, g)
    BY NextStagesAre DEF Ahead
  <2>1. CASE e = d
    BY <1>1, <1>4, <2>1 DEF Ahead
  <2>2. CASE e # d
    BY <1>1, <1>5, <1>6, <2>2 DEF Older
  <2> QED
    BY <2>1, <2>2
<1>9. Ahead(Held(mcMux), {f})
  BY <1>7, StagesAre DEF OrderInv, InvStages, Chain, Ahead
<1>10. Held(mcMux') \subseteq Held(mcMux) \cup {f} /\ Sorted(mcMux')
  <2>1. Held(Append(mcMux, f)) = Held(mcMux) \cup {f} /\ Sorted(Append(mcMux, f))
    BY <1>1, <1>3, <1>9, Appended DEF OrderInv, InvSorted
  <2> QED
    BY <1>2, <2>1 DEF OrderInv, InvSorted
<1>11. Chain(Stages') /\ Counted(Stages', Cardinality(emitted))
  <2>1. \A i \in 1..5 : Stages'[i] \subseteq Stages[i] \cup (IF i = 5 - 1 THEN {f} ELSE {})
    <3>1. Stages'[1] \subseteq Stages[1] /\ Stages'[2] \subseteq Stages[2] /\ Stages'[3] \subseteq Stages[3]
      BY <1>2, GotStays, StagesAre, NextStagesAre
    <3>2. Stages'[4] \subseteq Stages[4] \cup {f}
      BY <1>10, StagesAre, NextStagesAre
    <3>3. Stages'[5] \subseteq Stages[5]
      BY <1>5, StagesAre, NextStagesAre
    <3> QED
      BY <3>1, <3>2, <3>3
  <2>2. Chain(Stages) /\ Counted(Stages, Cardinality(emitted))
    BY DEF OrderInv, InvStages
  <2>3. 5 \in 2..5
    OBVIOUS
  <2> QED
    BY <1>7, <1>8, <2>1, <2>2, <2>3, Moved
<1>12. InvStages'
  BY <1>2, <1>11 DEF OrderInv, InvStages
<1>13. InvSorted'
  BY <1>1, <1>2, <1>4, <1>10 DEF OrderInv, InvSorted
<1>14. InvFrom'
  <2>1. \A x \in Held(mcMux') : x.mcid = x.from
    <3>1. CASE f.ok /\ f.mcid = d
      BY <1>1, <1>6, <1>10, <3>1 DEF OrderInv, InvFrom
    <3>2. CASE ~(f.ok /\ f.mcid = d)
      BY <1>2, <3>2 DEF OrderInv, InvFrom
    <3> QED
      BY <3>1, <3>2
  <2> QED
    BY <1>2, <1>5, <2>1 DEF OrderInv, InvFrom
<1> QED
  BY <1>2, <1>12, <1>13, <1>14, GotStays DEF OrderInv

\* modTM_MC_Mux::svc().
LEMMA MC_MuxKeepsOrder ==
    ASSUME TypeInv, OrderInv, MC_Mux
    PROVE  OrderInv'
<1> DEFINE f == Head(mcMux)
           t == Tail(mcMux)
<1>1. /\ f \in Frame /\ f \in Held(mcMux) /\ Held(t) \subseteq Held(mcMux)
      /\ Sorted(t) /\ Ahead({f}, Held(t))
  <2>1. mcMux \in Seq(Frame) /\ mcMux # <<>> /\ Sorted(mcMux)
    BY DEF TypeInv, TrafficTypeOK, MC_Mux, OrderInv, InvSorted
  <2> QED
    BY <2>1, HeadTaken
<1>2. mcMux' = t /\ line' = Append(line, f) /\ UNCHANGED <<vcMux, vcDemux, got, emitted>>
  BY DEF MC_Mux
<1>3. line \in Seq(Frame)
  BY DEF TypeInv, TrafficTypeOK
<1> HIDE DEF f, t
<1>4. f \in Stages[4] /\ Ahead({f}, Stages'[4])
  BY <1>1, <1>2, StagesAre, NextStagesAre
<1>5. Ahead(Held(line), {f})
  BY <1>4, StagesAre DEF OrderInv, InvStages, Chain, Ahead
<1>6. Held(line') = Held(line) \cup {f} /\ Sorted(line')
  BY <1>1, <1>2, <1>3, <1>5, Appended DEF OrderInv, InvSorted
<1>7. Chain(Stages') /\ Counted(Stages', Cardinality(emitted))
  <2>1. \A i \in 1..5 : Stages'[i] \subseteq Stages[i] \cup (IF i = 4 - 1 THEN {f} ELSE {})
    BY <1>1, <1>2, <1>6, GotStays, StagesAre, NextStagesAre
  <2>2. Chain(Stages) /\ Counted(Stages, Cardinality(emitted))
    BY DEF OrderInv, InvStages
  <2>3. 4 \in 2..5
    OBVIOUS
  <2> QED
    BY <1>4, <2>1, <2>2, <2>3, Moved
<1>8. InvStages'
  BY <1>2, <1>7 DEF OrderInv, InvStages
<1>9. InvSorted'
  BY <1>1, <1>2, <1>6 DEF OrderInv, InvSorted
<1>10. InvFrom'
  BY <1>1, <1>2, <1>6 DEF OrderInv, InvFrom
<1> QED
  BY <1>2, <1>8, <1>9, <1>10, GotStays DEF OrderInv

\* modTM_MC_Demux::svc(), whatever the upper bits of the identifier.
LEMMA MC_DemuxKeepsOrder ==
    ASSUME TypeInv, OrderInv, MC_Demux
    PROVE  OrderInv'
<1> DEFINE f == Head(line)
           t == Tail(line)
           key == f.mcid % 256
<1>1. /\ f \in Frame /\ f \in Held(line) /\ Held(t) \subseteq Held(line)
      /\ Sorted(t) /\ Ahead({f}, Held(t))
  <2>1. line \in Seq(Frame) /\ line # <<>> /\ Sorted(line)
    BY DEF TypeInv, TrafficTypeOK, MC_Demux, OrderInv, InvSorted
  <2> QED
    BY <2>1, HeadTaken
<1>2. /\ line' = t
      /\ vcDemux' = vcDemux \/ (key \in Demuxes /\ vcDemux' = [vcDemux EXCEPT ![key] = Append(@, f)])
      /\ UNCHANGED <<vcMux, mcMux, got, emitted>>
  BY DEF MC_Demux
<1>3. vcDemux \in [Demuxes -> Seq(Frame)]
  BY DEF TypeInv, TrafficTypeOK
<1> HIDE DEF f, t
<1>4. f \in Stages[3] /\ Ahead({f}, Stages'[3])
  BY <1>1, <1>2, StagesAre, NextStagesAre
<1>5. \A d \in Demuxes : Ahead(Held(vcDemux[d]), {f})
  BY <1>4, StagesAre DEF OrderInv, InvStages, Chain, Ahead
<1>6. \A d \in Demuxes :
         /\ Held(vcDemux'[d]) \subseteq Held(vcDemux[d]) \cup (IF d = key THEN {f} ELSE {})
         /\ Sorted(vcDemux'[d])
  <2> SUFFICES ASSUME NEW d \in Demuxes
               PROVE  /\ Held(vcDemux'[d]) \subseteq Held(vcDemux[d]) \cup (IF d = key THEN {f} ELSE {})
                      /\ Sorted(vcDemux'[d])
    OBVIOUS
  <2>1. Sorted(vcDemux[d]) /\ vcDemux[d] \in Seq(Frame)
    BY <1>3 DEF OrderInv, InvSorted
  <2>2. CASE vcDemux'[d] = vcDemux[d]
    BY <2>1, <2>2
  <2>3. CASE d = key /\ vcDemux'[d] = Append(vcDemux[d], f)
    <3>1. Held(Append(vcDemux[d], f)) = Held(vcDemux[d]) \cup {f} /\ Sorted(Append(vcDemux[d], f))
      BY <1>1, <1>5, <2>1, Appended
    <3> QED
      BY <2>3, <3>1
  <2> QED
    BY <1>2, <1>3, <2>2, <2>3
<1>7. Chain(Stages') /\ Counted(Stages', Cardinality(emitted))
  <2>1. \A i \in 1..5 : Stages'[i] \subseteq Stages[i] \cup (IF i = 3 - 1 THEN {f} ELSE {})
    <3>1. Stages'[1] \subseteq Stages[1] /\ Stages'[4] \subseteq Stages[4] /\ Stages'[5] \subseteq Stages[5]
      BY <1>2, GotStays, StagesAre, NextStagesAre
    <3>2. Stages'[2] \subseteq Stages[2] \cup {f}
      BY <1>6, StagesAre, NextStagesAre
    <3>3. Stages'[3] \subseteq Stages[3]
      BY <1>1, <1>2, StagesAre, NextStagesAre
    <3> QED
      BY <3>1, <3>2, <3>3
  <2>2. Chain(Stages) /\ Counted(Stages, Cardinality(emitted))
    BY DEF OrderInv, InvStages
  <2>3. 3 \in 2..5
    OBVIOUS
  <2> QED
    BY <1>4, <2>1, <2>2, <2>3, Moved
<1>8. InvStages'
  BY <1>2, <1>7 DEF OrderInv, InvStages
<1>9. InvSorted'
  BY <1>1, <1>2, <1>6 DEF OrderInv, InvSorted
<1>10. InvFrom'
  BY <1>1, <1>2, <1>6 DEF OrderInv, InvFrom
<1> QED
  BY <1>2, <1>8, <1>9, <1>10, GotStays DEF OrderInv

\* What a user has got, and one frame more.
LEMMA OneMoreGot ==
    ASSUME TypeInv, InvGot, NEW u \in Users, NEW d \in Demuxes, NEW f \in Frame,
           got' = [got EXCEPT ![u] = Append(@, [frame |-> f, via |-> d])],
           f.ok, Real(f), f.from = d, Ahead(Delivered, {f})
    PROVE  Delivered' \subseteq Delivered \cup {f} /\ InvGot'
<1> DEFINE g == [frame |-> f, via |-> d]
           n == Len(got[u])
<1>1. /\ n \in Nat
      /\ \A v \in Users : Len(got'[v]) = IF v = u THEN n + 1 ELSE Len(got[v])
      /\ \A v \in Users : \A i \in 1..Len(got[v]) : got'[v][i] = got[v][i]
      /\ got'[u][n + 1] = g
  <2>1. got \in [Users -> Seq([frame : Frame, via : Demuxes])]
    BY DEF TypeInv, TrafficTypeOK
  <2> DEFINE a == Append(got[u], g)
  <2>2. got'[u] = a /\ \A v \in Users : v # u => got'[v] = got[v]
    BY <2>1
  <2>3. got[u] \in Seq([frame : Frame, via : Demuxes])
    BY <2>1
  <2>4. n \in Nat /\ Len(a) = n + 1 /\ a[n + 1] = g /\ \A i \in 1..n : a[i] = got[u][i]
    BY <2>3
  <2> HIDE DEF a, g
  <2> QED
    BY <2>2, <2>4
<1>2. \A p : p \in Received' <=> p[1] \in Users /\ p[2] \in 1..Len(got'[p[1]]) /\ p = <<p[1], p[2]>>
  BY DEF Received
<1>3. ASSUME NEW p \in Received'
      PROVE  \/ p = <<u, n + 1>> /\ Receipt(p)' = f /\ got'[p[1]][p[2]].via = d
             \/ p \in Received /\ Receipt(p)' = Receipt(p) /\ got'[p[1]][p[2]] = got[p[1]][p[2]]
  <2>1. p[1] \in Users /\ p[2] \in 1..Len(got'[p[1]]) /\ p = <<p[1], p[2]>>
    BY <1>2
  <2>2. CASE p[2] \in 1..Len(got[p[1]])
    BY <1>1, <2>1, <2>2, ReceivedAre DEF Receipt
  <2>3. CASE p[2] \notin 1..Len(got[p[1]])
    <3>1. p[1] = u /\ p[2] = n + 1
      BY <1>1, <2>1, <2>3
    <3> QED
      BY <1>1, <2>1, <3>1 DEF Receipt
  <2> QED
    BY <2>2, <2>3
<1> HIDE DEF g, n
<1>4. Delivered' \subseteq Delivered \cup {f}
  BY <1>3 DEF Delivered
<1>5. \A p \in Received' : /\ Receipt(p)'.ok /\ Real(Receipt(p)')
                           /\ Receipt(p)'.from = got'[p[1]][p[2]].via
  BY <1>3 DEF InvGot
<1>6. ASSUME NEW p \in Received PROVE Older(Receipt(p), f) /\ Receipt(p) # f
  <2>1. Older(Receipt(p), f)
    BY <1>6 DEF Ahead, Delivered
  <2>2. f.no \in Nat
    BY DEF Frame
  <2> QED
    BY <2>1, <2>2 DEF Older
<1>7. \A p \in Received : p[1] \in Users /\ p[2] \in 1..Len(got[p[1]]) /\ p = <<p[1], p[2]>>
  BY ReceivedAre
<1>8. ASSUME NEW p \in Received', NEW q \in Received'
      PROVE  /\ Receipt(p)' = Receipt(q)' => p = q
             /\ p[1] = q[1] /\ p[2] < q[2] /\ Receipt(p)'.from = Receipt(q)'.from
                /\ Receipt(p)'.vcid = Receipt(q)'.vcid => Receipt(p)'.no < Receipt(q)'.no
  <2>1. CASE p \in Received /\ Receipt(p)' = Receipt(p) /\ q \in Received /\ Receipt(q)' = Receipt(q)
    BY <2>1 DEF InvGot, InOrder
  <2>2. CASE p \in Received /\ Receipt(p)' = Receipt(p) /\ q = <<u, n + 1>> /\ Receipt(q)' = f
    BY <1>6, <2>2 DEF InvGot, Older
  <2>3. CASE p = <<u, n + 1>> /\ Receipt(p)' = f /\ q \in Received /\ Receipt(q)' = Receipt(q)
    <3>1. q[1] = p[1] => ~(p[2] < q[2])
      BY <1>1, <1>7, <2>3 DEF n
    <3> QED
      BY <1>6, <2>3, <3>1
  <2>4. CASE p = <<u, n + 1>> /\ q = <<u, n + 1>>
    BY <1>1, <2>4
  <2> QED
    BY <1>3, <2>1, <2>2, <2>3, <2>4
<1>9. InOrder'
  BY <1>8 DEF InOrder
<1> QED
  BY <1>4, <1>5, <1>9 DEF InvGot

\* modTM_VC_Demux::svc().
LEMMA VC_DemuxKeepsOrder ==
    ASSUME DropBadFrames, TypeInv, OrderInv, NEW d \in Demuxes, VC_Demux(d)
    PROVE  OrderInv'
<1> DEFINE f == Head(vcDemux[d])
           t == Tail(vcDemux[d])
           l == links[d][f.vcid]
<1>1. /\ f \in Frame /\ f \in Held(vcDemux[d]) /\ Held(t) \subseteq Held(vcDemux[d])
      /\ Sorted(t) /\ Ahead({f}, Held(t))
  <2>1. vcDemux[d] \in Seq(Frame) /\ vcDemux[d] # <<>> /\ Sorted(vcDemux[d])
    BY DEF TypeInv, TrafficTypeOK, VC_Demux, OrderInv, InvSorted
  <2> QED
    BY <2>1, HeadTaken
<1>2. vcDemux' = [vcDemux EXCEPT ![d] = t] /\ UNCHANGED <<vcMux, mcMux, line, emitted>>
  BY DEF VC_Demux
<1>3. \/ UNCHANGED got
      \/ /\ f.ok /\ f.mcid = d /\ l \in Targets
         /\ got' = [got EXCEPT ![l[1]] = Append(@, [frame |-> f, via |-> d])]
  BY DEF VC_Demux, Keeps, OfMasterChannel
<1> HIDE DEF f, t, l
<1>4. \A e \in Demuxes : vcDemux'[e] = IF e = d THEN t ELSE vcDemux[e]
  BY <1>2 DEF TypeInv, TrafficTypeOK
<1>5. \A e \in Demuxes : Held(vcDemux'[e]) \subseteq Held(vcDemux[e])
  BY <1>1, <1>4
<1>6. \A e \in Demuxes : \A g \in Held(vcDemux[e]) : g.mcid = g.from /\ g.mcid % 256 = e
  BY DEF OrderInv, InvFrom
<1>7. f \in Stages[2]
  BY <1>1, StagesAre
<1>8. Ahead({f}, Stages'[2])
  <2> SUFFICES ASSUME NEW e \in Demuxes, NEW g \in Held(vcDemux'[e]) PROVE Older(f, g)
    BY NextStagesAre DEF Ahead
  <2>1. CASE e = d
    BY <1>1, <1>4, <2>1 DEF Ahead
  <2>2. CASE e # d
    <3>1. f.mcid % 256 # g.mcid % 256
      BY <1>1, <1>5, <1>6, <2>2
    <3> QED
      BY <3>1 DEF Older, Real
  <2> QED
    BY <2>1, <2>2
<1>9. Ahead(Delivered, {f})
  BY <1>7, StagesAre DEF OrderInv, InvStages, Chain, Ahead
<1>10. Delivered' \subseteq Delivered \cup {f} /\ InvGot'
  <2>1. CASE UNCHANGED got
    BY <2>1, GotStays DEF OrderInv
  <2>2. CASE /\ f.ok /\ f.mcid = d /\ l \in Targets
             /\ got' = [got EXCEPT ![l[1]] = Append(@, [frame |-> f, via |-> d])]
    <3>1. f.from = d /\ Real(f) /\ l[1] \in Users /\ f.ok
      BY <1>1, <1>6, <2>2 DEF Real, Targets
    <3>2. TypeInv /\ InvGot
      BY DEF OrderInv
    <3> QED
      BY <1>1, <1>9, <2>2, <3>1, <3>2, OneMoreGot
  <2> QED
    BY <1>3, <2>1, <2>2
<1>11. Chain(Stages') /\ Counted(Stages', Cardinality(emitted))
  <2>1. \A i \in 1..5 : Stages'[i] \subseteq Stages[i] \cup (IF i = 2 - 1 THEN {f} ELSE {})
    <3>1. Stages'[3] \subseteq Stages[3] /\ Stages'[4] \subseteq Stages[4] /\ Stages'[5] \subseteq Stages[5]
      BY <1>2, StagesAre, NextStagesAre
    <3>2. Stages'[1] \subseteq Stages[1] \cup {f}
      BY <1>10, StagesAre, NextStagesAre
    <3>3. Stages'[2] \subseteq Stages[2]
      BY <1>5, StagesAre, NextStagesAre
    <3> QED
      BY <3>1, <3>2, <3>3
  <2>2. Chain(Stages) /\ Counted(Stages, Cardinality(emitted))
    BY DEF OrderInv, InvStages
  <2>3. 2 \in 2..5
    OBVIOUS
  <2> QED
    BY <1>7, <1>8, <2>1, <2>2, <2>3, Moved
<1>12. InvStages'
  BY <1>2, <1>11 DEF OrderInv, InvStages
<1>13. InvSorted'
  BY <1>1, <1>2, <1>4 DEF OrderInv, InvSorted
<1>14. InvFrom'
  BY <1>2, <1>5 DEF OrderInv, InvFrom
<1> QED
  BY <1>10, <1>12, <1>13, <1>14 DEF OrderInv

\* Loss and damage on the physical channel.
LEMMA HitsKeepOrder ==
    ASSUME TypeInv, OrderInv, NEW i \in 1..Len(line), Lose(i) \/ Spoil(i)
    PROVE  OrderInv'
<1>1. line \in Seq(Frame) /\ Sorted(line)
  BY DEF TypeInv, TrafficTypeOK, OrderInv, InvSorted
<1>2. From(Held(line'), Held(line)) /\ Sorted(line')
  <2>1. CASE Lose(i)
    <3>1. line' = Without(line, i)
      BY <2>1 DEF Lose, Without
    <3>2. Held(line') \subseteq Held(line) /\ Sorted(line')
      BY <1>1, <3>1, Removed
    <3> QED
      BY <3>2 DEF From
  <2>2. CASE Spoil(i)
    BY <1>1, <2>2, Spoilt DEF Spoil
  <2> QED
    BY <2>1, <2>2
<1>3. UNCHANGED <<vcMux, mcMux, vcDemux, got, emitted>>
  BY DEF Lose, Spoil, Hit
<1>4. \A k \in 1..5 : From(Stages'[k], Stages[k])
  <2>1. \A A : From(A, A)
    BY DEF From
  <2>2. Stages'[1] = Stages[1] /\ Stages'[2] = Stages[2] /\ Stages'[4] = Stages[4] /\ Stages'[5] = Stages[5]
    BY <1>3, GotStays, StagesAre, NextStagesAre
  <2>3. From(Stages'[3], Stages[3])
    BY <1>2, StagesAre, NextStagesAre
  <2> QED
    BY <2>1, <2>2, <2>3
<1>5. Chain(Stages') /\ Counted(Stages', Cardinality(emitted))
  BY <1>4, Thinned DEF OrderInv, InvStages
<1>6. \A f \in Held(line') : f.mcid = f.from
  BY <1>2 DEF OrderInv, InvFrom, From
<1>7. InvStages' /\ InvSorted' /\ InvFrom'
  BY <1>2, <1>3, <1>5, <1>6 DEF OrderInv, InvStages, InvSorted, InvFrom
<1> QED
  BY <1>3, <1>7, GotStays DEF OrderInv

\* A frame of a spacecraft that is not one of the tree's.
LEMMA HearingKeepsOrder ==
    ASSUME TypeInv, OrderInv, NEW m \in Foreign, NEW v \in Ids, Hear(m, v)
    PROVE  OrderInv'
<1> DEFINE f == [from |-> m, no |-> MaxFrames + hits', mcid |-> m, vcid |-> v, ok |-> TRUE]
<1>1. f \in Frame
  <2>1. MaxFrames + hits' \in 1..MaxFrames + MaxHits
    BY TreeAssumption DEF TypeInv, TrafficTypeOK, Hear, Hit
  <2> QED
    BY <2>1 DEF Frame
<1>2. ~Real(f) /\ f.mcid = f.from
  BY TreeAssumption DEF Real
<1>3. line' = Append(line, f) /\ UNCHANGED <<vcMux, mcMux, vcDemux, got, emitted>>
  BY DEF Hear, Hit
<1>4. line \in Seq(Frame) /\ Sorted(line)
  BY DEF TypeInv, TrafficTypeOK, OrderInv, InvSorted
<1> HIDE DEF f
<1>5. Held(line') = Held(line) \cup {f} /\ Sorted(line')
  <2>1. Ahead(Held(line), {f})
    BY <1>2 DEF Ahead, Older
  <2> QED
    BY <1>1, <1>3, <1>4, <2>1, Appended
<1>6. Chain(Stages') /\ Counted(Stages', Cardinality(emitted))
  <2>1. \A i \in 1..5 : Stages'[i] \subseteq Stages[i] \cup {f}
    BY <1>3, <1>5, GotStays, StagesAre, NextStagesAre
  <2>2. Chain(Stages) /\ Counted(Stages, Cardinality(emitted))
    BY DEF OrderInv, InvStages
  <2> QED
    BY <1>2, <2>1, <2>2, Joined
<1>7. InvStages' /\ InvSorted' /\ InvFrom'
  BY <1>2, <1>3, <1>5, <1>6 DEF OrderInv, InvStages, InvSorted, InvFrom
<1> QED
  BY <1>3, <1>7, GotStays DEF OrderInv

\* A frame joins the queue of its virtual channel multiplexer.
LEMMA SendingKeepsOrder ==
    ASSUME TypeInv, OrderInv, NEW d \in Demuxes, NEW f \in Frame,
           vcMux' = [vcMux EXCEPT ![d] = Append(@, f)], f.from = d,
           \/ ~Real(f) /\ UNCHANGED emitted
           \/ f.no = Cardinality(emitted) + 1 /\ emitted' = emitted \cup {f},
           UNCHANGED <<mcMux, line, vcDemux, got>>
    PROVE  OrderInv'
<1> DEFINE n == Cardinality(emitted)
<1>1. IsFiniteSet(emitted) /\ n \in Nat /\ vcMux \in [Demuxes -> Seq(Frame)] /\ emitted \subseteq Frame
  BY FS_CardinalityType DEF TypeInv, TrafficTypeOK
<1>2. Chain(Stages) /\ Counted(Stages, n)
  BY DEF OrderInv, InvStages
<1>3. \A e \in Demuxes : vcMux'[e] = IF e = d THEN Append(vcMux[d], f) ELSE vcMux[e]
  BY <1>1
<1>4. Ahead(Held(vcMux[d]), {f})
  <2> SUFFICES ASSUME NEW g \in Held(vcMux[d]) PROVE Older(g, f)
    BY DEF Ahead
  <2>1. g \in Stages[5] /\ g \in Frame
    BY StagesAre, StagesTyped
  <2>2. Real(g) => g.no <= n /\ g.no \in Nat
    BY <1>2, <2>1 DEF Counted, Frame
  <2> QED
    BY <1>1, <2>2 DEF Older
<1>5. Held(Append(vcMux[d], f)) = Held(vcMux[d]) \cup {f} /\ Sorted(Append(vcMux[d], f))
  BY <1>1, <1>4, Appended DEF OrderInv, InvSorted
<1>6. \A e \in Demuxes : /\ Held(vcMux'[e]) \subseteq Held(vcMux[e]) \cup (IF e = d THEN {f} ELSE {})
                         /\ Sorted(vcMux'[e])
  BY <1>3, <1>5 DEF OrderInv, InvSorted
<1>7. \A i \in 1..5 : Stages'[i] \subseteq Stages[i] \cup (IF i = 5 THEN {f} ELSE {})
  <2>1. /\ Stages'[1] \subseteq Stages[1] /\ Stages'[2] \subseteq Stages[2]
        /\ Stages'[3] \subseteq Stages[3] /\ Stages'[4] \subseteq Stages[4]
    BY GotStays, StagesAre, NextStagesAre
  <2>2. Stages'[5] \subseteq Stages[5] \cup {f}
    BY <1>6, StagesAre, NextStagesAre
  <2> QED
    BY <2>1, <2>2
<1>8. InvStages'
  <2>1. CASE ~Real(f) /\ UNCHANGED emitted
    <3>1. \A i \in 1..5 : Stages'[i] \subseteq Stages[i] \cup {f}
      BY <1>7
    <3>2. Chain(Stages') /\ Counted(Stages', n)
      BY <1>2, <2>1, <3>1, Joined
    <3> QED
      BY <2>1, <3>2 DEF OrderInv, InvStages
  <2>2. CASE f.no = n + 1 /\ emitted' = emitted \cup {f}
    <3>1. \A g \in emitted : g.no <= n /\ g.no \in Nat
      BY <1>1 DEF OrderInv, InvStages, Frame
    <3>2. Cardinality(emitted') = n + 1
      <4>1. f \notin emitted
        BY <1>1, <2>2, <3>1
      <4>2. Cardinality(emitted \cup {f}) = n + 1
        BY <1>1, <4>1, FS_AddElement
      <4> QED
        BY <2>2, <4>2
    <3>3. Chain(Stages') /\ Counted(Stages', n + 1)
      BY <1>1, <1>2, <1>7, <2>2, StagesTyped, Numbered
    <3>4. \A g \in emitted' : g.no <= n + 1
      BY <1>1, <2>2, <3>1
    <3> QED
      BY <3>2, <3>3, <3>4 DEF InvStages
  <2> QED
    BY <2>1, <2>2
<1>9. InvSorted' /\ InvFrom'
  BY <1>6 DEF OrderInv, InvSorted, InvFrom
<1> QED
  BY <1>8, <1>9, GotStays DEF OrderInv

LEMMA OrderStarts == Init => OrderInv
<1> SUFFICES ASSUME Init PROVE OrderInv
  OBVIOUS
<1>1. /\ Received = {} /\ Held(<<>>) = {} /\ Sorted(<<>>) /\ mcMux = <<>> /\ line = <<>>
      /\ \A d \in Demuxes : vcMux[d] = <<>> /\ vcDemux[d] = <<>>
  BY DEF Init, Received, Held, Sorted
<1>2. \A i \in 1..5 : Stages[i] = {}
  BY <1>1, StagesAre DEF Delivered
<1>3. InvStages
  BY <1>2 DEF InvStages, Chain, Ahead, Counted, Init
<1> QED
  BY <1>1, <1>3 DEF OrderInv, InvSorted, InvFrom, InvGot, InOrder

LEMMA OrderSteps == DropBadFrames /\ TypeInv /\ OrderInv /\ [Next]_vars => OrderInv'
<1> SUFFICES ASSUME DropBadFrames, TypeInv, OrderInv, [Next]_vars PROVE OrderInv'
  OBVIOUS
<1>1. ASSUME NEW d \in Demuxes, NEW v \in Ids, Emit(d, v) PROVE OrderInv'
  <2> DEFINE f == [from |-> d, no |-> Cardinality(emitted) + 1, mcid |-> d, vcid |-> v, ok |-> TRUE]
  <2>1. f \in Frame
    BY <1>1, TreeAssumption, FS_CardinalityType DEF Emit, Frame, TypeInv
  <2>2. /\ vcMux' = [vcMux EXCEPT ![d] = Append(@, f)] /\ emitted' = emitted \cup {f}
        /\ UNCHANGED <<mcMux, line, vcDemux, got>>
        /\ f.from = d /\ f.no = Cardinality(emitted) + 1
    BY <1>1 DEF Emit, Putq
  <2> HIDE DEF f
  <2> QED
    BY <2>1, <2>2, SendingKeepsOrder
<1>2. ASSUME NEW d \in Demuxes, NEW m \in Demuxes, NEW v \in Ids, EmitMisaddressed(d, m, v)
      PROVE  OrderInv'
  <2> DEFINE f == [from |-> d, no |-> MaxFrames + hits', mcid |-> m, vcid |-> v, ok |-> TRUE]
  <2>1. f \in Frame
    <3>1. MaxFrames + hits' \in 1..MaxFrames + MaxHits
      BY <1>2, TreeAssumption DEF TypeInv, TrafficTypeOK, EmitMisaddressed
    <3> QED
      BY <3>1 DEF Frame
  <2>2. /\ vcMux' = [vcMux EXCEPT ![d] = Append(@, f)]
        /\ UNCHANGED <<mcMux, line, vcDemux, got, emitted>>
        /\ f.from = d /\ ~Real(f)
    BY <1>2 DEF EmitMisaddressed, Putq, Real
  <2> HIDE DEF f
  <2> QED
    BY <2>1, <2>2, SendingKeepsOrder
<1>3. CASE UNCHANGED traffic
  <2>1. UNCHANGED <<vcMux, mcMux, line, vcDemux, got, emitted>>
    BY <1>3 DEF traffic
  <2>2. InvSorted' /\ InvFrom' /\ InvGot'
    BY <2>1, GotStays DEF OrderInv, InvSorted, InvFrom
  <2>3. Stages' = Stages
    BY <2>1, GotStays DEF Stages
  <2> QED
    BY <2>1, <2>2, <2>3 DEF OrderInv, InvStages
<1> QED
  BY <1>1, <1>2, <1>3, VC_MuxKeepsOrder, MC_MuxKeepsOrder, MC_DemuxKeepsOrder, VC_DemuxKeepsOrder,
     HitsKeepOrder, HearingKeepsOrder
  DEF Next, Faults, Service, vars

\* A user is sent its own well-formed frames only, each once and those of a
\* virtual channel in the order they were emitted in, if the handlers discard
\* invalid frames, however the outputs are changed meanwhile
\* (modTM_VC_Mux.cpp:70-75, modTM_MC_Demux.cpp:61-102, modTM_VC_Demux.cpp:68-103).
THEOREM FramesStayInOrder ==
    ASSUME DropBadFrames PROVE Spec => []OwnFramesInOrder
<1>1. OrderInv => OwnFramesInOrder
  BY DEF OrderInv, InvGot, OwnFramesInOrder, OwnFramesOnly
<1>2. Init => TypeInv /\ OrderInv
  BY TypeStarts, OrderStarts
<1>3. TypeInv /\ OrderInv /\ [Next]_vars => (TypeInv /\ OrderInv)'
  BY TypeSteps, OrderSteps
<1> QED
  BY <1>1, <1>2, <1>3, PTL DEF Spec
=============================================================================
