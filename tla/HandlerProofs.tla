---------------------------- MODULE HandlerProofs ----------------------------
(***************************************************************************)
(* Proofs about traffic handlers.  The graph they form, for every set of   *)
(* handlers: the two ends of every link agree through every sequence of    *)
(* management calls, loads and failures.  The service task each one is:    *)
(* for every set of controllers and bound on their calls.  One pair of     *)
(* them, which attaches and finds sync markers, in the last part: for      *)
(* every marker, length of unit and number of bit errors allowed.          *)
(***************************************************************************)
EXTENDS HandlerGraph, BaseTask, ASM_Stream, SequenceTheorems, WellFoundedInduction, TLAPS

LinkTable == [Handlers -> [LinkTypes -> Link \cup {None}]]
CfgTable  == [Handlers -> [OutRanks -> (Handlers \X InRanks) \cup {None}]]

GraphInv == links \in LinkTable /\ cfg \in CfgTable /\ EndsAgree

-----------------------------------------------------------------------------
\* Deleting the link found in a slot clears its two ends and nothing else
\* (HandlerLink.cpp:40-65).
LEMMA DeleteAgrees ==
    ASSUME NEW ls \in LinkTable, Agree(ls), NEW h \in Handlers, NEW t \in LinkTypes
    PROVE  /\ Delete(ls, ls[h][t]) \in LinkTable
           /\ Agree(Delete(ls, ls[h][t]))
           /\ Delete(ls, ls[h][t])[h][t] = None
           /\ \A g \in Handlers, u \in LinkTypes :
                 ls[g][u] = None => Delete(ls, ls[h][t])[g][u] = None
<1> DEFINE l == ls[h][t]
<1>1. CASE l = None
  BY <1>1 DEF Delete
<1>2. CASE l # None
  <2>1. l \in Link
    BY <1>2 DEF LinkTable
  <2>2. /\ l.source \in Handlers /\ l.out \in LinkTypes /\ l.out \in OutRanks
        /\ l.target \in Handlers /\ l.in \in LinkTypes /\ l.in \in InRanks
    BY <2>1 DEF Link, LinkTypes
  <2> DEFINE d == Delete(ls, l)
  <2>3. d \in LinkTable
    BY <1>2, <2>2 DEF Delete, LinkTable
  <2>4. \A g \in Handlers, u \in LinkTypes :
           d[g][u] = IF (g = l.source /\ u = l.out) \/ (g = l.target /\ u = l.in)
                     THEN None ELSE ls[g][u]
    BY <1>2, <2>2 DEF Delete, LinkTable
  <2>5. IF t \in OutRanks THEN l.source = h /\ l.out = t
                          ELSE l.target = h /\ l.in = t
    BY <1>2 DEF Agree
  <2>6. d[h][t] = None
    BY <2>4, <2>5
  <2>7. ASSUME NEW g \in Handlers, NEW u \in LinkTypes, d[g][u] # None
        PROVE  /\ IF u \in OutRanks THEN d[g][u].source = g /\ d[g][u].out = u
                                    ELSE d[g][u].target = g /\ d[g][u].in = u
               /\ d[d[g][u].source][d[g][u].out] = d[g][u]
               /\ d[d[g][u].target][d[g][u].in] = d[g][u]
    <3> DEFINE k == ls[g][u]
    <3>1. d[g][u] = k /\ k # None
      BY <2>4, <2>7
    <3>2. k \in Link
      BY <3>1 DEF LinkTable
    <3>3. /\ k.source \in Handlers /\ k.out \in LinkTypes
          /\ k.target \in Handlers /\ k.in \in LinkTypes
      BY <3>2 DEF Link, LinkTypes
    <3>4. /\ IF u \in OutRanks THEN k.source = g /\ k.out = u
                               ELSE k.target = g /\ k.in = u
          /\ ls[k.source][k.out] = k
          /\ ls[k.target][k.in] = k
      BY <3>1 DEF Agree
    <3>5. ls[l.source][l.out] = l /\ ls[l.target][l.in] = l
      BY <1>2 DEF Agree
    <3>6. k # l
      <4> SUFFICES ASSUME k = l PROVE FALSE
        OBVIOUS
      <4>1. (g = l.source /\ u = l.out) \/ (g = l.target /\ u = l.in)
        BY <3>4
      <4> QED
        BY <4>1, <2>4, <2>7
    <3>7. d[k.source][k.out] = k /\ d[k.target][k.in] = k
      BY <2>4, <3>1, <3>3, <3>4, <3>5, <3>6
    <3> QED
      BY <3>1, <3>4, <3>7
  <2>8. Agree(d)
    BY <2>7 DEF Agree
  <2>9. \A g \in Handlers, u \in LinkTypes : ls[g][u] = None => d[g][u] = None
    BY <2>4
  <2> QED
    BY <2>3, <2>6, <2>8, <2>9
<1> QED
  BY <1>1, <1>2

\* Attaching a new link to a free output takes the target's input over from
\* whatever link held it (HandlerLink.cpp:92-113).
LEMMA AttachAgrees ==
    ASSUME NEW ls \in LinkTable, Agree(ls), NEW l \in Link,
           ls[l.source][l.out] = None
    PROVE  Attach(ls, l) \in LinkTable /\ Agree(Attach(ls, l))
<1>1. /\ l.source \in Handlers /\ l.out \in LinkTypes /\ l.out \in OutRanks
      /\ l.target \in Handlers /\ l.in \in LinkTypes /\ l.in \in InRanks
      /\ l.in \notin OutRanks
  BY DEF Link, LinkTypes, InRanks, OutRanks
<1> DEFINE freed == Delete(ls, ls[l.target][l.in])
<1>2. /\ freed \in LinkTable /\ Agree(freed)
      /\ freed[l.target][l.in] = None
      /\ freed[l.source][l.out] = None
  <2>1. /\ freed \in LinkTable /\ Agree(freed)
        /\ freed[l.target][l.in] = None
        /\ \A g \in Handlers, u \in LinkTypes : ls[g][u] = None => freed[g][u] = None
    <3>1. l.target \in Handlers /\ l.in \in LinkTypes
      BY <1>1
    <3> QED
      BY ONLY <3>1, DeleteAgrees, ls \in LinkTable, Agree(ls)
  <2> QED
    BY <1>1, <2>1
<1> DEFINE atTarget == [freed EXCEPT ![l.target][l.in] = l]
<1>3. atTarget[l.source][l.out] = None
  BY <1>1, <1>2 DEF LinkTable
<1> DEFINE a == [atTarget EXCEPT ![l.source][l.out] = l]
<1>4. Attach(ls, l) = a
  BY <1>3 DEF Attach, Delete
<1>5. a \in LinkTable
  BY <1>1, <1>2 DEF LinkTable
<1>6. \A g \in Handlers, u \in LinkTypes :
         a[g][u] = IF (g = l.source /\ u = l.out) \/ (g = l.target /\ u = l.in)
                   THEN l ELSE freed[g][u]
  BY <1>1, <1>2 DEF LinkTable
<1> HIDE DEF a, atTarget, freed
<1>7. l # None
  BY NoneAssumption
<1>8. ASSUME NEW g \in Handlers, NEW u \in LinkTypes, a[g][u] # None
      PROVE  /\ IF u \in OutRanks THEN a[g][u].source = g /\ a[g][u].out = u
                                  ELSE a[g][u].target = g /\ a[g][u].in = u
             /\ a[a[g][u].source][a[g][u].out] = a[g][u]
             /\ a[a[g][u].target][a[g][u].in] = a[g][u]
  <2>1. CASE (g = l.source /\ u = l.out) \/ (g = l.target /\ u = l.in)
    BY <2>1, <1>1, <1>6
  <2>2. CASE ~((g = l.source /\ u = l.out) \/ (g = l.target /\ u = l.in))
    <3> DEFINE k == freed[g][u]
    <3>1. a[g][u] = k /\ k # None
      BY <2>2, <1>6, <1>8
    <3>2. k \in Link
      BY <3>1, <1>2 DEF LinkTable
    <3>3. /\ k.source \in Handlers /\ k.out \in LinkTypes
          /\ k.target \in Handlers /\ k.in \in LinkTypes
      BY <3>2 DEF Link, LinkTypes
    <3>4. /\ IF u \in OutRanks THEN k.source = g /\ k.out = u
                               ELSE k.target = g /\ k.in = u
          /\ freed[k.source][k.out] = k
          /\ freed[k.target][k.in] = k
      BY <3>1, <1>2 DEF Agree
    <3>5. /\ ~(k.source = l.source /\ k.out = l.out)
          /\ ~(k.target = l.target /\ k.in = l.in)
          /\ ~(k.source = l.target /\ k.out = l.in)
          /\ ~(k.target = l.source /\ k.in = l.out)
      BY <3>1, <3>4, <1>2
    <3>6. a[k.source][k.out] = k /\ a[k.target][k.in] = k
      BY <3>3, <3>4, <3>5, <1>6
    <3> QED
      BY <3>1, <3>4, <3>6
  <2> QED
    BY <2>1, <2>2
<1>9. Agree(a)
  BY <1>8 DEF Agree
<1> QED
  BY <1>4, <1>5, <1>9

\* connectOutput() keeps the ends in agreement on every path out of it, the
\* exceptions included (BaseTrafficHandler.cpp:108-128).
LEMMA ConnectAgrees ==
    ASSUME NEW ls \in LinkTable, NEW cf \in CfgTable, NEW o, Agree(ls),
           NEW source \in Handlers, NEW out \in OutRanks,
           NEW target \in Handlers, NEW in \in InRanks
    PROVE  LET r == Connect([links |-> ls, cfg |-> cf, outcome |-> o],
                            source, out, target, in)
           IN  /\ r.links \in LinkTable /\ Agree(r.links)
               /\ r.cfg \in CfgTable
               /\ r = [links |-> r.links, cfg |-> r.cfg, outcome |-> r.outcome]
<1> DEFINE s == [links |-> ls, cfg |-> cf, outcome |-> o]
           d == Delete(ls, ls[source][out])
           cleared == [cf EXCEPT ![source][out] = None]
           l == [source |-> source, out |-> out, target |-> target, in |-> in]
<1>1. out \in LinkTypes
  BY DEF LinkTypes
<1>2. d \in LinkTable /\ Agree(d) /\ d[source][out] = None
  BY <1>1, DeleteAgrees
<1>3. l \in Link /\ l.source = source /\ l.out = out
  BY DEF Link
<1>4. Attach(d, l) \in LinkTable /\ Agree(Attach(d, l))
  BY <1>2, <1>3, AttachAgrees
<1>5. cleared \in CfgTable /\ [cleared EXCEPT ![source][out] = <<target, in>>] \in CfgTable
  BY DEF CfgTable
<1> DEFINE answer == Search(d, target)[source]
<1>6. Connect(s, source, out, target, in) =
        IF answer # "absent"
        THEN [links |-> d, cfg |-> cleared, outcome |-> answer]
        ELSE IF in = "AuxInput" /\ target \notin HasAux
        THEN [links |-> d, cfg |-> cleared, outcome |-> "no_aux"]
        ELSE [links |-> Attach(d, l),
              cfg |-> [cleared EXCEPT ![source][out] = <<target, in>>],
              outcome |-> "connected"]
  BY DEF Connect
<1> HIDE DEF d, cleared, l, answer, s
<1>7. LET r == Connect(s, source, out, target, in)
      IN  /\ r.links \in LinkTable /\ Agree(r.links)
          /\ r.cfg \in CfgTable
          /\ r = [links |-> r.links, cfg |-> r.cfg, outcome |-> r.outcome]
  BY <1>2, <1>4, <1>5, <1>6
<1> QED
  BY <1>7 DEF s

\* The connections made for an added handler, whichever of the two is tried
\* or fails (Channel.hpp:100-170).
LEMMA AddedAgrees ==
    ASSUME GraphInv, NEW h \in Handlers
    PROVE  Added(h).links \in LinkTable /\ Agree(Added(h).links) /\ Added(h).cfg \in CfgTable
<1> DEFINE Good(s) == /\ s.links \in LinkTable /\ Agree(s.links) /\ s.cfg \in CfgTable
                      /\ s = [links |-> s.links, cfg |-> s.cfg, outcome |-> s.outcome]
<1>1. Good(State)
  BY DEF GraphInv, State, EndsAgree
<1>2. ASSUME NEW s, Good(s), NEW out \in OutRanks, NEW present
      PROVE  Good(ConnectConfigured(s, h, out, present))
  <2> DEFINE c == s.cfg[h][out]
  <2>1. CASE s.outcome = "connected" /\ c # None /\ c[1] \in present
    <3>1. c[1] \in Handlers /\ c[2] \in InRanks
      BY <1>2, <2>1 DEF CfgTable
    <3>2. Good(Connect([links |-> s.links, cfg |-> s.cfg, outcome |-> s.outcome],
                       h, out, c[1], c[2]))
      BY <1>2, <3>1, ConnectAgrees
    <3> QED
      BY <1>2, <2>1, <3>2 DEF ConnectConfigured
  <2>2. CASE ~(s.outcome = "connected" /\ c # None /\ c[1] \in present)
    BY <1>2, <2>2 DEF ConnectConfigured
  <2> QED
    BY <2>1, <2>2
<1> DEFINE first == ConnectConfigured(State, h, "PrimaryOutput", members \cup {h})
<1>3. Good(first)
  BY <1>1, <1>2 DEF OutRanks
<1> HIDE DEF first
<1>4. Good(ConnectConfigured(first, h, "AuxOutput", members \cup {h}))
  BY <1>2, <1>3 DEF OutRanks
<1> QED
  BY <1>4 DEF Added, first

\* withdraw() deletes the four links of a handler (BaseTrafficHandler.cpp:148-153)
\* and leaves every slot of the handler empty.
LEMMA WithdrawnAgrees ==
    ASSUME GraphInv, NEW h \in Handlers
    PROVE  /\ Withdrawn(h) \in LinkTable /\ Agree(Withdrawn(h))
           /\ \A t \in LinkTypes : Withdrawn(h)[h][t] = None
           /\ \A g \in Handlers, u \in LinkTypes :
                 links[g][u] = None => Withdrawn(h)[g][u] = None
<1> DEFINE l1 == Delete(links, links[h]["PrimaryInput"])
           l2 == Delete(l1, l1[h]["AuxInput"])
           l3 == Delete(l2, l2[h]["PrimaryOutput"])
           l4 == Delete(l3, l3[h]["AuxOutput"])
<1>0. LinkTypes = {"PrimaryInput", "AuxInput", "PrimaryOutput", "AuxOutput"}
  BY DEF LinkTypes, InRanks, OutRanks
<1>1. /\ l1 \in LinkTable /\ Agree(l1) /\ l1[h]["PrimaryInput"] = None
      /\ \A g \in Handlers, u \in LinkTypes : links[g][u] = None => l1[g][u] = None
  BY <1>0, DeleteAgrees DEF GraphInv, EndsAgree
<1> HIDE DEF l1
<1>2. /\ l2 \in LinkTable /\ Agree(l2) /\ l2[h]["AuxInput"] = None
      /\ \A g \in Handlers, u \in LinkTypes : l1[g][u] = None => l2[g][u] = None
  BY <1>0, <1>1, DeleteAgrees
<1> HIDE DEF l2
<1>3. /\ l3 \in LinkTable /\ Agree(l3) /\ l3[h]["PrimaryOutput"] = None
      /\ \A g \in Handlers, u \in LinkTypes : l2[g][u] = None => l3[g][u] = None
  BY <1>0, <1>2, DeleteAgrees
<1> HIDE DEF l3
<1>4. /\ l4 \in LinkTable /\ Agree(l4) /\ l4[h]["AuxOutput"] = None
      /\ \A g \in Handlers, u \in LinkTypes : l3[g][u] = None => l4[g][u] = None
  BY <1>0, <1>3, DeleteAgrees
<1>5. Withdrawn(h) = l4
  BY DEF Withdrawn, l1, l2, l3
<1> HIDE DEF l4
<1> QED
  BY <1>0, <1>1, <1>2, <1>3, <1>4, <1>5

-----------------------------------------------------------------------------
LEMMA GraphInit == Init => GraphInv
BY DEF Init, GraphInv, LinkTable, CfgTable, NoLinks, NoCfg, EndsAgree, Agree

LEMMA GraphStep == GraphInv /\ [Next]_vars => GraphInv'
<1> SUFFICES ASSUME GraphInv, [Next]_vars PROVE GraphInv'
  OBVIOUS
<1> USE DEF EndsAgree
<1>1. ASSUME NEW source \in Handlers, NEW target \in Handlers, NEW out \in OutRanks,
             NEW in \in InRanks, ConnectOutput(source, out, target, in)
      PROVE  GraphInv'
  <2> DEFINE r == Connect(State, source, out, target, in)
  <2>1. links' = r.links /\ cfg' = r.cfg
    BY <1>1 DEF ConnectOutput
  <2>2. r.links \in LinkTable /\ Agree(r.links) /\ r.cfg \in CfgTable
    BY ConnectAgrees DEF State, GraphInv
  <2> HIDE DEF r
  <2> QED
    BY <2>1, <2>2 DEF GraphInv, Agree
<1>2. ASSUME NEW source \in Handlers, NEW out \in OutRanks, DisconnectOutput(source, out)
      PROVE  GraphInv'
  <2> DEFINE d == Delete(links, links[source][out])
  <2>1. d \in LinkTable /\ Agree(d)
    BY DeleteAgrees DEF GraphInv, LinkTypes
  <2>2. links' = d /\ cfg' = [cfg EXCEPT ![source][out] = None]
    BY <1>2 DEF DisconnectOutput
  <2> HIDE DEF d
  <2>3. cfg' \in CfgTable
    BY <2>2 DEF GraphInv, CfgTable
  <2> QED
    BY <2>1, <2>2, <2>3 DEF GraphInv, Agree
<1>3. ASSUME NEW h \in Handlers, AddSegment(h) \/ LoadNext(h) PROVE GraphInv'
  <2>1. links' = Added(h).links /\ cfg' = Added(h).cfg
    BY <1>3 DEF AddSegment, LoadNext
  <2> QED
    BY <2>1, AddedAgrees DEF GraphInv, Agree
<1>4. ASSUME NEW h \in Handlers, RemoveSegment(h) PROVE GraphInv'
  <2>1. links' = Withdrawn(h) /\ cfg' = [cfg EXCEPT ![h] = NoCfg]
    BY <1>4 DEF RemoveSegment
  <2>2. cfg' \in CfgTable
    BY <2>1 DEF GraphInv, CfgTable, NoCfg
  <2> QED
    BY <2>1, <2>2, WithdrawnAgrees DEF GraphInv, Agree
<1>5. CASE SwitchConfig
  <2>1. links' = [h \in Handlers |-> NoLinks] /\ cfg' = cfg
    BY <1>5 DEF SwitchConfig
  <2> QED
    BY <2>1 DEF GraphInv, LinkTable, NoLinks, Agree
<1>6. CASE (\E h \in Handlers : LoadFails(h)) \/ Traffic \/ UNCHANGED vars
  <2>1. links' = links /\ cfg' = cfg
    BY <1>6 DEF LoadFails, Traffic, ReadLink, Send, graph, vars
  <2> QED
    BY <2>1 DEF GraphInv, Agree
<1> QED
  BY <1>1, <1>2, <1>3, <1>4, <1>5, <1>6 DEF Next, Manage, Load

\* For every channel: through every order of connecting, disconnecting,
\* adding, removing and loading handlers, refused and abandoned operations
\* included, a link is held by exactly the two slots that it names.
THEOREM LinksAgree == Spec => []EndsAgree
<1>1. Spec => []GraphInv
  BY GraphInit, GraphStep, PTL DEF Spec
<1> QED
  BY <1>1, PTL DEF GraphInv

-----------------------------------------------------------------------------
(* The settings and the channel's map follow the links.                    *)

\* Deleting a link fills no slot.
LEMMA DeleteRemoves ==
    ASSUME NEW ls \in LinkTable, NEW h \in Handlers, NEW t \in LinkTypes
    PROVE  \A g \in Handlers, u \in LinkTypes : Delete(ls, ls[h][t])[g][u] \in {None, ls[g][u]}
<1> DEFINE l == ls[h][t]
<1>1. CASE l = None
  BY <1>1 DEF Delete
<1>2. CASE l # None
  <2>1. l \in Link
    BY <1>2 DEF LinkTable
  <2>2. /\ l.source \in Handlers /\ l.out \in LinkTypes
        /\ l.target \in Handlers /\ l.in \in LinkTypes
    BY <2>1 DEF Link, LinkTypes
  <2> QED
    BY <1>2, <2>2 DEF Delete, LinkTable
<1> QED
  BY <1>1, <1>2

\* Attaching a link fills its own two slots and no other.
LEMMA AttachFills ==
    ASSUME NEW ls \in LinkTable, Agree(ls), NEW l \in Link,
           ls[l.source][l.out] = None,
           NEW g \in Handlers, NEW u \in LinkTypes,
           ~(g = l.source /\ u = l.out), ~(g = l.target /\ u = l.in)
    PROVE  Attach(ls, l)[g][u] \in {None, ls[g][u]}
<1>1. /\ l.source \in Handlers /\ l.out \in LinkTypes /\ l.out \in OutRanks
      /\ l.target \in Handlers /\ l.in \in LinkTypes /\ l.in \in InRanks
      /\ l.in \notin OutRanks
  BY DEF Link, LinkTypes, InRanks, OutRanks
<1> DEFINE freed == Delete(ls, ls[l.target][l.in])
<1>2. freed \in LinkTable /\ freed[l.source][l.out] = None
  <2>1. /\ freed \in LinkTable
        /\ \A i \in Handlers, w \in LinkTypes : ls[i][w] = None => freed[i][w] = None
    <3>1. l.target \in Handlers /\ l.in \in LinkTypes
      BY <1>1
    <3> QED
      BY ONLY <3>1, DeleteAgrees, ls \in LinkTable, Agree(ls)
  <2> QED
    BY <1>1, <2>1
<1>3. freed[g][u] \in {None, ls[g][u]}
  BY <1>1, DeleteRemoves
<1> HIDE DEF freed
<1> DEFINE atTarget == [freed EXCEPT ![l.target][l.in] = l]
<1>4. atTarget[l.source][l.out] = None
  BY <1>1, <1>2 DEF LinkTable
<1>5. Attach(ls, l) = [atTarget EXCEPT ![l.source][l.out] = l]
  BY <1>4 DEF Attach, Delete, freed
<1>6. Attach(ls, l)[g][u] = freed[g][u]
  BY <1>1, <1>2, <1>5 DEF LinkTable
<1> QED
  BY <1>3, <1>6

\* What LiveIsConfigured and LinksAmongMembers say of a table of links, the settings and the
\* handlers of a channel.
OnRecord(ls, cf, ms) ==
    /\ \A h \in Handlers \ ms, t \in LinkTypes : ls[h][t] = None
    /\ \A h \in Handlers, out \in OutRanks :
          ls[h][out] # None => cf[h][out] = <<ls[h][out].target, ls[h][out].in>>

LEMMA ConnectRecords ==
    ASSUME NEW ls \in LinkTable, NEW cf \in CfgTable, NEW o, Agree(ls),
           NEW ms \in SUBSET Handlers, OnRecord(ls, cf, ms),
           NEW source \in ms, NEW out \in OutRanks, NEW target \in ms, NEW in \in InRanks
    PROVE  LET r == Connect([links |-> ls, cfg |-> cf, outcome |-> o],
                            source, out, target, in)
           IN  OnRecord(r.links, r.cfg, ms)
<1> DEFINE s == [links |-> ls, cfg |-> cf, outcome |-> o]
           d == Delete(ls, ls[source][out])
           cleared == [cf EXCEPT ![source][out] = None]
           l == [source |-> source, out |-> out, target |-> target, in |-> in]
           a == Attach(d, l)
           written == [cleared EXCEPT ![source][out] = <<target, in>>]
           answer == Search(d, target)[source]
<1>1. /\ out \in LinkTypes /\ in \in LinkTypes /\ in \notin OutRanks
      /\ source \in Handlers /\ target \in Handlers
  BY DEF LinkTypes, InRanks, OutRanks
<1>2. d \in LinkTable /\ Agree(d) /\ d[source][out] = None
  BY <1>1, DeleteAgrees
<1>3. \A g \in Handlers, u \in LinkTypes : d[g][u] \in {None, ls[g][u]}
  BY <1>1, DeleteRemoves
<1>4. \A g \in Handlers, u \in OutRanks :
         cleared[g][u] = IF g = source /\ u = out THEN None ELSE cf[g][u]
  BY <1>1 DEF CfgTable
<1>5. \A g \in Handlers, u \in OutRanks :
         written[g][u] = IF g = source /\ u = out THEN <<target, in>> ELSE cf[g][u]
  BY <1>1 DEF CfgTable
<1>6. l \in Link /\ l.source = source /\ l.out = out /\ l.target = target /\ l.in = in
  BY <1>1 DEF Link
<1> HIDE DEF d, cleared, l, written
<1>7. OnRecord(d, cleared, ms)
  BY <1>2, <1>3, <1>4 DEF OnRecord, LinkTypes
<1>8. \A g \in Handlers, u \in LinkTypes :
         ~(g = source /\ u = out) /\ ~(g = target /\ u = in) => a[g][u] \in {None, d[g][u]}
  BY <1>2, <1>6, AttachFills
<1>9. a[source][out] = l
  <2>1. a \in LinkTable
    BY <1>2, <1>6, AttachAgrees
  <2> DEFINE freed == Delete(d, d[l.target][l.in])
             atTarget == [freed EXCEPT ![l.target][l.in] = l]
             again == Delete(atTarget, atTarget[l.source][l.out])
  <2>2. freed \in LinkTable
    BY <1>1, <1>2, <1>6, DeleteAgrees
  <2>3. atTarget[l.source][l.out] \in {None} \cup Link
    BY <1>1, <1>6, <2>2 DEF LinkTable
  <2>4. atTarget \in LinkTable
    BY <1>1, <1>6, <2>2 DEF LinkTable
  <2>5. again \in LinkTable
    <3>1. CASE atTarget[l.source][l.out] = None
      BY <2>4, <3>1 DEF Delete
    <3>2. CASE atTarget[l.source][l.out] \in Link
      BY <2>4, <3>2 DEF Delete, LinkTable
    <3> QED
      BY <2>3, <3>1, <3>2
  <2> HIDE DEF again
  <2>6. a = [again EXCEPT ![l.source][l.out] = l]
    BY DEF Attach, again
  <2> QED
    BY <1>1, <1>6, <2>5, <2>6 DEF LinkTable
<1> HIDE DEF a
<1>10. OnRecord(a, written, ms)
  <2>1. ASSUME NEW g \in Handlers \ ms, NEW u \in LinkTypes PROVE a[g][u] = None
    BY <1>7, <1>8, <2>1 DEF OnRecord
  <2>2. ASSUME NEW g \in Handlers, NEW u \in OutRanks, a[g][u] # None
        PROVE  written[g][u] = <<a[g][u].target, a[g][u].in>>
    <3>1. CASE g = source /\ u = out
      BY <1>5, <1>6, <1>9, <3>1
    <3>2. CASE ~(g = source /\ u = out)
      <4>1. u \in LinkTypes /\ u # in
        BY <1>1 DEF LinkTypes
      <4>2. a[g][u] = ls[g][u]
        BY <1>3, <1>8, <2>2, <3>2, <4>1
      <4> QED
        BY <1>5, <2>2, <3>2, <4>2 DEF OnRecord
    <3> QED
      BY <3>1, <3>2
  <2> QED
    BY <2>1, <2>2 DEF OnRecord
<1>11. Connect(s, source, out, target, in) =
        IF answer # "absent"
        THEN [links |-> d, cfg |-> cleared, outcome |-> answer]
        ELSE IF in = "AuxInput" /\ target \notin HasAux
        THEN [links |-> d, cfg |-> cleared, outcome |-> "no_aux"]
        ELSE [links |-> a, cfg |-> written, outcome |-> "connected"]
  BY DEF Connect, d, cleared, l, a, written
<1> HIDE DEF answer, s
<1>12. LET r == Connect(s, source, out, target, in) IN OnRecord(r.links, r.cfg, ms)
  BY <1>7, <1>10, <1>11
<1> QED
  BY <1>12 DEF s

LEMMA AddedRecords ==
    ASSUME GraphInv, members \in SUBSET Handlers, NEW h \in Handlers, OnRecord(links, cfg, members)
    PROVE  OnRecord(Added(h).links, Added(h).cfg, members \cup {h})
<1> DEFINE ms == members \cup {h}
           Good(s) == /\ s.links \in LinkTable /\ Agree(s.links) /\ s.cfg \in CfgTable
                      /\ s = [links |-> s.links, cfg |-> s.cfg, outcome |-> s.outcome]
                      /\ OnRecord(s.links, s.cfg, ms)
<1>1. Good(State)
  BY DEF GraphInv, State, EndsAgree, OnRecord
<1>2. ASSUME NEW s, Good(s), NEW out \in OutRanks
      PROVE  Good(ConnectConfigured(s, h, out, ms))
  <2> DEFINE c == s.cfg[h][out]
  <2>1. CASE s.outcome = "connected" /\ c # None /\ c[1] \in ms
    <3>1. c[1] \in Handlers /\ c[2] \in InRanks
      BY <1>2, <2>1 DEF CfgTable
    <3>2. ms \in SUBSET Handlers /\ h \in ms
      OBVIOUS
    <3> DEFINE r == Connect([links |-> s.links, cfg |-> s.cfg, outcome |-> s.outcome],
                            h, out, c[1], c[2])
    <3>3. /\ r.links \in LinkTable /\ Agree(r.links) /\ r.cfg \in CfgTable
          /\ r = [links |-> r.links, cfg |-> r.cfg, outcome |-> r.outcome]
      BY <1>2, <3>1, ConnectAgrees
    <3>4. OnRecord(r.links, r.cfg, ms)
      BY <1>2, <2>1, <3>1, <3>2, ConnectRecords
    <3>5. ConnectConfigured(s, h, out, ms) = r
      BY <1>2, <2>1 DEF ConnectConfigured
    <3> HIDE DEF r
    <3> QED
      BY <3>3, <3>4, <3>5
  <2>2. CASE ~(s.outcome = "connected" /\ c # None /\ c[1] \in ms)
    BY <1>2, <2>2 DEF ConnectConfigured
  <2> QED
    BY <2>1, <2>2
<1> DEFINE first == ConnectConfigured(State, h, "PrimaryOutput", ms)
<1>3. Good(first)
  BY <1>1, <1>2 DEF OutRanks
<1> HIDE DEF first
<1>4. Good(ConnectConfigured(first, h, "AuxOutput", ms))
  BY <1>2, <1>3 DEF OutRanks
<1> QED
  BY <1>4 DEF Added, first

LEMMA WithdrawnRemoves ==
    ASSUME GraphInv, NEW h \in Handlers
    PROVE  \A g \in Handlers, u \in LinkTypes : Withdrawn(h)[g][u] \in {None, links[g][u]}
<1> DEFINE l1 == Delete(links, links[h]["PrimaryInput"])
           l2 == Delete(l1, l1[h]["AuxInput"])
           l3 == Delete(l2, l2[h]["PrimaryOutput"])
           l4 == Delete(l3, l3[h]["AuxOutput"])
<1>0. LinkTypes = {"PrimaryInput", "AuxInput", "PrimaryOutput", "AuxOutput"}
  BY DEF LinkTypes, InRanks, OutRanks
<1>1. /\ l1 \in LinkTable /\ Agree(l1)
      /\ \A g \in Handlers, u \in LinkTypes : l1[g][u] \in {None, links[g][u]}
  BY <1>0, DeleteAgrees, DeleteRemoves DEF GraphInv, EndsAgree
<1> HIDE DEF l1
<1>2. /\ l2 \in LinkTable /\ Agree(l2)
      /\ \A g \in Handlers, u \in LinkTypes : l2[g][u] \in {None, l1[g][u]}
  BY <1>0, <1>1, DeleteAgrees, DeleteRemoves
<1> HIDE DEF l2
<1>3. /\ l3 \in LinkTable
      /\ \A g \in Handlers, u \in LinkTypes : l3[g][u] \in {None, l2[g][u]}
  BY <1>0, <1>2, DeleteAgrees, DeleteRemoves
<1> HIDE DEF l3
<1>4. \A g \in Handlers, u \in LinkTypes : l4[g][u] \in {None, l3[g][u]}
  BY <1>0, <1>3, DeleteRemoves
<1>5. Withdrawn(h) = l4
  BY DEF Withdrawn, l1, l2, l3
<1> HIDE DEF l4
<1> QED
  BY <1>1, <1>2, <1>3, <1>4, <1>5

RecordInv == GraphInv /\ TypeOK /\ OnRecord(links, cfg, members)

LEMMA TypeStep == GraphInv /\ TypeOK /\ [Next]_vars => TypeOK'
<1> SUFFICES ASSUME GraphInv, TypeOK, [Next]_vars PROVE TypeOK'
  OBVIOUS
<1>1. links' \in LinkTable /\ cfg' \in CfgTable
  BY GraphStep DEF GraphInv
<1> USE HandlerGraphAssumption DEF TypeOK, LinkTable, CfgTable, Call, graph, load
<1>2. ASSUME NEW source \in Handlers, NEW target \in Handlers, NEW out \in OutRanks,
             NEW in \in InRanks, ConnectOutput(source, out, target, in)
      PROVE  TypeOK'
  <2> DEFINE r == Connect(State, source, out, target, in)
  <2>1. /\ calls' \in 0..MaxCalls /\ refused' \in (Handlers \X Handlers) \cup {None}
        /\ crashed' = (r.outcome = "endless")
    BY <1>2 DEF ConnectOutput
  <2>2. UNCHANGED <<members, configured, load, held>>
    BY <1>2 DEF ConnectOutput
  <2> HIDE DEF r
  <2> QED
    BY <1>1, <2>1, <2>2
<1>3. ASSUME NEW source \in Handlers, NEW out \in OutRanks, DisconnectOutput(source, out)
      PROVE  TypeOK'
  BY <1>1, <1>3 DEF DisconnectOutput
<1>4. ASSUME NEW h \in Handlers, AddSegment(h) PROVE TypeOK'
  <2>1. /\ members' = members \cup {h} /\ configured' = configured \cup {h} /\ refused' = None
        /\ calls' \in 0..MaxCalls /\ crashed' \in BOOLEAN /\ UNCHANGED <<load, held>>
    BY <1>4 DEF AddSegment
  <2> QED
    BY <1>1, <2>1
<1>5. ASSUME NEW h \in Handlers, RemoveSegment(h) PROVE TypeOK'
  <2>1. /\ members' \subseteq members /\ configured' \subseteq configured /\ refused' = None
        /\ calls' \in 0..MaxCalls /\ UNCHANGED <<load, crashed>>
        /\ held' \in [Handlers -> Link \cup {None}]
    BY <1>5 DEF RemoveSegment
  <2> QED
    BY <1>1, <2>1
<1>6. CASE SwitchConfig
  <2>1. /\ members' = {} /\ configured' = configured /\ refused' = None /\ paused' \in BOOLEAN
        /\ calls' \in 0..MaxCalls /\ crashed' = crashed /\ pending' \subseteq configured
        /\ held' \in [Handlers -> Link \cup {None}] /\ DOMAIN depth' = Handlers
    BY <1>6 DEF SwitchConfig
  <2> QED
    BY <1>1, <2>1
<1>7. ASSUME NEW h \in Handlers, LoadNext(h) PROVE TypeOK'
  <2>1. /\ members' = members \cup {h} /\ pending' \subseteq pending
        /\ crashed' \in BOOLEAN /\ paused' \in BOOLEAN
        /\ UNCHANGED <<configured, depth, refused, held, calls>>
    BY <1>7 DEF LoadNext
  <2> QED
    BY <1>1, <2>1
<1>8. ASSUME NEW h \in Handlers, LoadFails(h) PROVE TypeOK'
  BY <1>1, <1>8 DEF LoadFails
<1>9. ASSUME NEW h \in Handlers, ReadLink(h) \/ Send(h) PROVE TypeOK'
  <2>1. held' \in [Handlers -> Link \cup {None}]
    BY <1>9 DEF ReadLink, Send, LinkTypes, OutRanks
  <2>2. UNCHANGED <<graph, load, refused, crashed, calls>>
    BY <1>9 DEF ReadLink, Send
  <2> QED
    BY <1>1, <2>1, <2>2
<1>10. CASE UNCHANGED vars
  BY <1>10 DEF vars
<1> QED
  BY <1>2, <1>3, <1>4, <1>5, <1>6, <1>7, <1>8, <1>9, <1>10 DEF Next, Manage, Load, Traffic

LEMMA RecordStep == RecordInv /\ [Next]_vars => OnRecord(links, cfg, members)'
<1> SUFFICES ASSUME RecordInv, [Next]_vars PROVE OnRecord(links', cfg', members')
  BY DEF OnRecord
<1>0. /\ links \in LinkTable /\ cfg \in CfgTable /\ Agree(links) /\ members \in SUBSET Handlers
      /\ OnRecord(links, cfg, members) /\ GraphInv
  BY DEF RecordInv, GraphInv, TypeOK, EndsAgree
<1>1. ASSUME NEW source \in Handlers, NEW target \in Handlers, NEW out \in OutRanks,
             NEW in \in InRanks, ConnectOutput(source, out, target, in)
      PROVE  OnRecord(links', cfg', members')
  <2> DEFINE r == Connect(State, source, out, target, in)
  <2>1. links' = r.links /\ cfg' = r.cfg /\ members' = members
    BY <1>1 DEF ConnectOutput
  <2>2. source \in members /\ target \in members
    BY <1>1 DEF ConnectOutput
  <2>3. OnRecord(r.links, r.cfg, members)
    BY <1>0, <2>2, ConnectRecords DEF State
  <2> HIDE DEF r
  <2> QED
    BY <2>1, <2>3
<1>2. ASSUME NEW source \in Handlers, NEW out \in OutRanks, DisconnectOutput(source, out)
      PROVE  OnRecord(links', cfg', members')
  <2>1. links' = Delete(links, links[source][out]) /\ members' = members /\ out \in LinkTypes
        /\ cfg' = [cfg EXCEPT ![source][out] = None]
    BY <1>2 DEF DisconnectOutput, LinkTypes
  <2>2. /\ \A g \in Handlers, u \in LinkTypes : links'[g][u] \in {None, links[g][u]}
        /\ links'[source][out] = None
    BY <1>0, <2>1, DeleteRemoves, DeleteAgrees
  <2>3. \A g \in Handlers, u \in OutRanks :
           cfg'[g][u] = IF g = source /\ u = out THEN None ELSE cfg[g][u]
    BY <1>0, <2>1 DEF CfgTable
  <2> QED
    BY <1>0, <2>1, <2>2, <2>3 DEF OnRecord, LinkTypes
<1>3. ASSUME NEW h \in Handlers, AddSegment(h) \/ LoadNext(h)
      PROVE  OnRecord(links', cfg', members')
  <2>1. links' = Added(h).links /\ cfg' = Added(h).cfg /\ members' = members \cup {h}
    BY <1>3 DEF AddSegment, LoadNext
  <2> QED
    BY <1>0, <2>1, AddedRecords
<1>4. ASSUME NEW h \in Handlers, RemoveSegment(h) PROVE OnRecord(links', cfg', members')
  <2>1. links' = Withdrawn(h) /\ cfg' = [cfg EXCEPT ![h] = NoCfg] /\ members' = members \ {h}
    BY <1>4 DEF RemoveSegment
  <2>2. /\ \A t \in LinkTypes : links'[h][t] = None
        /\ \A g \in Handlers, u \in LinkTypes : links'[g][u] \in {None, links[g][u]}
    BY <1>0, <2>1, WithdrawnAgrees, WithdrawnRemoves
  <2>3. \A g \in Handlers : g # h => cfg'[g] = cfg[g]
    BY <1>0, <2>1 DEF CfgTable
  <2> QED
    BY <1>0, <2>1, <2>2, <2>3 DEF OnRecord, LinkTypes
<1>5. CASE SwitchConfig
  <2>1. links' = [h \in Handlers |-> NoLinks]
    BY <1>5 DEF SwitchConfig
  <2> QED
    BY <2>1 DEF OnRecord, NoLinks, LinkTypes
<1>6. CASE (\E h \in Handlers : LoadFails(h)) \/ Traffic \/ UNCHANGED vars
  <2>1. links' = links /\ cfg' = cfg /\ members' = members
    BY <1>6 DEF LoadFails, Traffic, ReadLink, Send, graph, vars
  <2> QED
    BY <1>0, <2>1
<1> QED
  BY <1>1, <1>2, <1>3, <1>4, <1>5, <1>6 DEF Next, Manage, Load

\* For every channel: a handler that has left it is in no link, and every live output is in the
\* settings under its own target, after any sequence of connections, removals and loads,
\* those that throw halfway included (Channel::remove(), BaseTrafficHandler::connectOutput()).
THEOREM GraphOnRecord == Spec => []LinksOnRecord
<1>1. Init => RecordInv
  <2> SUFFICES ASSUME Init PROVE RecordInv
    OBVIOUS
  <2>0. links \in LinkTable /\ cfg \in CfgTable
    BY GraphInit DEF GraphInv
  <2>3. /\ DOMAIN depth = Handlers /\ held \in [Handlers -> Link \cup {None}]
        /\ calls \in 0..MaxCalls
    BY HandlerGraphAssumption DEF Init
  <2>1. TypeOK
    BY <2>0, <2>3 DEF Init, TypeOK, LinkTable, CfgTable
  <2>2. OnRecord(links, cfg, members)
    BY DEF Init, OnRecord, NoLinks, LinkTypes
  <2> QED
    BY <2>1, <2>2, GraphInit DEF RecordInv
<1>2. RecordInv /\ [Next]_vars => RecordInv'
  BY GraphStep, TypeStep, RecordStep DEF RecordInv
<1>3. RecordInv => LinksOnRecord
  BY DEF RecordInv, OnRecord, LinksOnRecord, LinksAmongMembers, LiveIsConfigured
<1> QED
  BY <1>1, <1>2, <1>3, PTL DEF Spec


-----------------------------------------------------------------------------
(* The service task of a handler.                                          *)

Opening == \E d \in Controllers : pc[d] \in OpenLabels
Closed  == {"stop_id", "stop_poll", "stop_join", "stop_done"}

\* An open() in progress has reset the history of every other call.
CleanInv == Opening => ~quiet /\ \A c \in Controllers : ~clean[c]

\* A stop past msg_queue()->close() that no open() overlapped, and the quiet
\* time after it, have a deactivated queue.
ClosedInv ==
    /\ \A c \in Controllers : clean[c] /\ pc[c] \in Closed => ~queueOpen
    /\ quiet => ~queueOpen

TaskInv == TaskTypeOK /\ DoneUnlessServing /\ CleanInv /\ ClosedInv

USE DEF OpenLabels, StopLabels, InService, ThreadLabels, Goto, Closed, flags, service, control

-----------------------------------------------------------------------------
\* Every variable keeps its range: labels, flags and thread numbers
\* (BaseTask.hpp:104-126).
LEMMA TaskTypeStep == TaskTypeOK /\ [TaskNext]_taskVars => TaskTypeOK'
<1> SUFFICES ASSUME TaskTypeOK, [TaskNext]_taskVars PROVE TaskTypeOK'
  OBVIOUS
<1> USE DEF TaskTypeOK
<1>1. ASSUME NEW c \in Controllers, OpenCall(c) PROVE TaskTypeOK'
  <2>1. ops' \in 0..MaxOps
    BY <1>1, BaseTaskAssumption DEF OpenCall
  <2>2. clean' \in [Controllers -> BOOLEAN]
    BY <1>1 DEF OpenCall
  <2> QED
    BY <1>1, <2>1, <2>2 DEF OpenCall
<1>2. ASSUME NEW c \in Controllers, StopCall(c) PROVE TaskTypeOK'
  <2>1. clean' \in [Controllers -> BOOLEAN]
    BY <1>2 DEF StopCall
  <2>2. full' \in [Controllers -> BOOLEAN]
    BY <1>2 DEF StopCall
  <2>3. ops' \in 0..MaxOps
    BY <1>2, BaseTaskAssumption DEF StopCall
  <2> QED
    BY <1>2, <2>1, <2>2, <2>3 DEF StopCall
<1>3. ASSUME NEW c \in Controllers, OpenCheck(c) \/ OpenFlag(c) \/ OpenQueue(c)
      PROVE TaskTypeOK'
  BY <1>3 DEF OpenCheck, OpenFlag, OpenQueue
<1>4. ASSUME NEW c \in Controllers, OpenActivate(c) PROVE TaskTypeOK'
  <2>1. activations' \in Nat /\ svcThreadID' \in 0..activations' /\ thr' \in ThreadLabels
    BY <1>4 DEF OpenActivate, Spawn
  <2> QED
    BY <1>4, <2>1 DEF OpenActivate
<1>5. ASSUME NEW c \in Controllers, StopStep(c) PROVE TaskTypeOK'
  BY <1>5 DEF StopStep, StopCheck, StopWait, StopFlag, StopClose, StopID,
              StopPoll, StopJoin, StopDone
<1>6. CASE StartID
  BY <1>6 DEF StartID
<1>7. CASE StartFlag \/ LoopTest \/ EndFlag
  BY <1>7 DEF StartFlag, LoopTest, EndFlag
<1>8. CASE Take \/ GetFails \/ WorkDone \/ ThreadExit
  BY <1>8 DEF Take, GetFails, WorkDone, ThreadExit
<1>9. CASE RequestExit \/ UNCHANGED taskVars
  BY <1>9 DEF RequestExit, taskVars
<1> QED
  BY <1>1, <1>2, <1>3, <1>4, <1>5, <1>6, <1>7, <1>8, <1>9
     DEF TaskNext, OpenStep, ThreadStep

LEMMA DoneStep == TaskTypeOK /\ DoneUnlessServing /\ [TaskNext]_taskVars => DoneUnlessServing'
<1> SUFFICES ASSUME TaskTypeOK, DoneUnlessServing, [TaskNext]_taskVars PROVE DoneUnlessServing'
  OBVIOUS
<1> USE DEF TaskTypeOK, DoneUnlessServing
<1>1. ASSUME NEW c \in Controllers, OpenCall(c) \/ StopCall(c) PROVE DoneUnlessServing'
  BY <1>1 DEF OpenCall, StopCall
<1>2. ASSUME NEW c \in Controllers, OpenStep(c) PROVE DoneUnlessServing'
  BY <1>2 DEF OpenStep, OpenCheck, OpenFlag, OpenQueue, OpenActivate, Spawn
<1>3. ASSUME NEW c \in Controllers, StopStep(c) PROVE DoneUnlessServing'
  BY <1>3 DEF StopStep, StopCheck, StopWait, StopFlag, StopClose, StopID,
              StopPoll, StopJoin, StopDone
<1>4. CASE ThreadStep \/ Take
  BY <1>4 DEF ThreadStep, StartID, StartFlag, LoopTest, Take, GetFails,
              WorkDone, EndFlag, ThreadExit, continueService
<1>5. CASE RequestExit \/ UNCHANGED taskVars
  BY <1>5 DEF RequestExit, taskVars
<1> QED
  BY <1>1, <1>2, <1>3, <1>4, <1>5 DEF TaskNext

LEMMA HistoryStep ==
    TaskTypeOK /\ CleanInv /\ ClosedInv /\ [TaskNext]_taskVars => CleanInv' /\ ClosedInv'
<1> SUFFICES ASSUME TaskTypeOK, CleanInv, ClosedInv, [TaskNext]_taskVars
             PROVE  CleanInv' /\ ClosedInv'
  OBVIOUS
<1> USE DEF TaskTypeOK, CleanInv, ClosedInv, Opening
<1>1. ASSUME NEW c \in Controllers, OpenCall(c) PROVE CleanInv' /\ ClosedInv'
  BY <1>1 DEF OpenCall
<1>2. ASSUME NEW c \in Controllers, StopCall(c) PROVE CleanInv' /\ ClosedInv'
  BY <1>2 DEF StopCall
<1>3. ASSUME NEW c \in Controllers, OpenStep(c) PROVE CleanInv' /\ ClosedInv'
  BY <1>3 DEF OpenStep, OpenCheck, OpenFlag, OpenQueue, OpenActivate
<1>4. ASSUME NEW c \in Controllers, StopCheck(c) \/ StopWait(c) \/ StopFlag(c)
      PROVE CleanInv' /\ ClosedInv'
  BY <1>4 DEF StopCheck, StopWait, StopFlag
<1>5. ASSUME NEW c \in Controllers, StopClose(c) PROVE CleanInv' /\ ClosedInv'
  BY <1>5 DEF StopClose
<1>6. ASSUME NEW c \in Controllers, StopID(c) \/ StopPoll(c) \/ StopJoin(c)
      PROVE CleanInv' /\ ClosedInv'
  BY <1>6 DEF StopID, StopPoll, StopJoin
<1>7. ASSUME NEW c \in Controllers, StopDone(c) PROVE CleanInv' /\ ClosedInv'
  BY <1>7 DEF StopDone
<1>8. CASE ThreadStep \/ Take
  BY <1>8 DEF ThreadStep, StartID, StartFlag, LoopTest, Take, GetFails,
              WorkDone, EndFlag, ThreadExit
<1>9. CASE RequestExit \/ UNCHANGED taskVars
  BY <1>9 DEF RequestExit, taskVars
<1> QED
  BY <1>1, <1>2, <1>3, <1>4, <1>5, <1>6, <1>7, <1>8, <1>9 DEF TaskNext, StopStep

\* The strengthening of the safety properties of BaseTask is inductive.
THEOREM TaskInvariance == TaskSpec => []TaskInv
<1>1. TaskInit => TaskInv
  <2> SUFFICES ASSUME TaskInit PROVE TaskInv
    OBVIOUS
  <2>1. TaskTypeOK
    <3>1. ops \in 0..MaxOps
      BY BaseTaskAssumption DEF TaskInit
    <3>2. svcThreadID \in 0..activations /\ activations \in Nat
      BY DEF TaskInit
    <3> QED
      BY <3>1, <3>2 DEF TaskInit, TaskTypeOK
  <2>2. DoneUnlessServing
    BY DEF TaskInit, DoneUnlessServing
  <2>3. CleanInv /\ ClosedInv
    BY DEF TaskInit, CleanInv, ClosedInv, Opening
  <2> QED
    BY <2>1, <2>2, <2>3 DEF TaskInv
<1>2. TaskInv /\ [TaskNext]_taskVars => TaskInv'
  BY TaskTypeStep, DoneStep, HistoryStep DEF TaskInv
<1> QED
  BY <1>1, <1>2, PTL DEF TaskSpec

-----------------------------------------------------------------------------
\* Type correctness of the task for all constants.
THEOREM TaskTypes == TaskSpec => []TaskTypeOK
BY TaskInvariance, PTL DEF TaskInv

\* svcDone_ never reports a running service when no thread is left to raise
\* it: open() is refused, and stopTraffic() waits, only for a live thread.
THEOREM DoneFlagHonest == TaskSpec => []DoneUnlessServing
BY TaskInvariance, PTL DEF TaskInv

\* After a stopTraffic() that closed the queue has returned, no unit is
\* dequeued before the next open(), for any number of concurrent callers.
THEOREM StoppedTakesNothing == TaskSpec => NoTakeWhenQuiet
<1>1. TaskInv /\ [TaskNext]_taskVars => (thr = "get" /\ thr' = "work" => ~quiet)
  <2> SUFFICES ASSUME TaskInv, [TaskNext]_taskVars, thr = "get", thr' = "work"
               PROVE  ~quiet
    OBVIOUS
  <2> USE DEF TaskInv, TaskTypeOK, ClosedInv
  <2>1. ASSUME NEW c \in Controllers,
               OpenCall(c) \/ StopCall(c) \/ OpenStep(c) \/ StopStep(c)
        PROVE  FALSE
    BY <2>1 DEF OpenCall, StopCall, OpenStep, OpenCheck, OpenFlag, OpenQueue,
                OpenActivate, Spawn, StopStep, StopCheck, StopWait, StopFlag,
                StopClose, StopID, StopPoll, StopJoin, StopDone
  <2>2. ASSUME ThreadStep \/ RequestExit \/ UNCHANGED taskVars PROVE FALSE
    BY <2>2 DEF ThreadStep, StartID, StartFlag, LoopTest, GetFails, WorkDone,
                EndFlag, ThreadExit, RequestExit, taskVars
  <2>3. CASE Take
    BY <2>3 DEF Take
  <2> QED
    BY <2>1, <2>2, <2>3 DEF TaskNext
<1>2. TaskInv /\ [TaskNext]_taskVars => [thr = "get" /\ thr' = "work" => ~quiet]_taskVars
  BY <1>1
<1> QED
  BY <1>2, TaskInvariance, PTL DEF TaskSpec, NoTakeWhenQuiet

-----------------------------------------------------------------------------
(* Sync markers: the stream.                                               *)

\* What was sent and is not yet passed over or sent on.
UnitLen == Len(Marker) + ExpectedUnitLength
Begun   == IF goodUnit = NoUnit THEN <<>> ELSE goodUnit
Rest    == matched \o (Begun \o (data \o wire))

\* s is the end of a stream of n units.
AsSent(s, n) == \A i \in 1..Len(s) :
    /\ s[i].unit \in 1..n /\ s[i].k \in 1..UnitLen
    /\ s[i].k <= Len(Marker) => s[i].byte = Marker[s[i].k]
    /\ i < Len(s) => Adjacent(s[i], s[i + 1])
    /\ i = Len(s) => s[i].unit = n /\ s[i].k = UnitLen

\* f adds up the bits flipped in the marker at place a of s.
Flips(s, a, f) ==
    /\ f \in [0..Len(Marker) -> Nat] /\ f[0] = 0
    /\ \A n \in 1..Len(Marker) : f[n] = f[n - 1] + s[a + n - 1].flipped

\* h counts all bits flipped in the markers of s.
Recount(s, h) == \A a \in 1..Len(s) : s[a].k = 1 =>
    \E f : Flips(s, a, f) /\ f[Len(Marker)] <= h[s[a].unit]

\* What was matched are the octets counted, with their bit errors; a unit begun has a whole marker.
LookInv ==
    /\ goodUnit = NoUnit => Len(matched) = markerOffset /\ currentBitErrors = MarkerErrors(matched)
    /\ goodUnit # NoUnit => /\ Len(matched) = Len(Marker) /\ markerOffset = 0 /\ currentBitErrors = 0
                            /\ Len(goodUnit) < ExpectedUnitLength
                            /\ MarkerErrors(matched) <= AllowedMarkerBitErrors

\* With readable markers the stream goes on with the unit after those sent on.
StepInv == (\A u \in 1..sent : Readable(u)) =>
    /\ \A i \in DOMAIN delivered : /\ delivered[i].data[1].unit = i
                                   /\ delivered[i].data[1].k = Len(Marker) + 1
    /\ Rest = <<>> => Len(delivered) = sent
    /\ Rest # <<>> => Rest[1].unit = Len(delivered) + 1 /\ Rest[1].k = 1

\* No marker has had more bits flipped than there were.
HitsCounted == \A u \in 1..MaxUnits : markerHits[u] <= hits

StreamInv ==
    /\ StreamTypeOK /\ HitsCounted /\ AsSent(Rest, sent) /\ Recount(Rest, markerHits)
    /\ LookInv /\ Framed /\ StepInv

-----------------------------------------------------------------------------
(* Sums.                                                                   *)

\* A set with 0 and the next number of each is all of 0..m.
LEMMA UpTo ==
    ASSUME NEW m \in Nat, NEW T, 0 \in T, \A n \in 1..m : n - 1 \in T => n \in T
    PROVE  \A n \in 0..m : n \in T
<1> DEFINE Out == {n \in 0..m : n \notin T}
<1> SUFFICES ASSUME Out # {} PROVE FALSE
  OBVIOUS
<1>1. IsWellFoundedOn({ss \in Nat \X Nat : ss[1] < ss[2]}, Nat)
  BY NatLessThanWellFounded DEF OpToRel
<1>2. PICK R : IsWellFoundedOn(R, Nat) /\ \A i, j \in Nat : i < j => <<i, j>> \in R
  BY <1>1
<1>3. Out \subseteq Nat /\ Out # {} /\ IsWellFoundedOn(R, Nat)
  BY <1>2
<1>4. \E n \in Out : \A i \in Out : ~(<<i, n>> \in R)
  BY ONLY <1>3, WFMin, Zenon
<1>5. PICK n \in Out : \A i \in Out : ~(<<i, n>> \in R)
  BY <1>4
<1>6. n \in 1..m /\ n - 1 \in Nat /\ n \in Nat /\ n - 1 < n
  BY <1>5
<1>7. n - 1 \notin Out
  BY <1>2, <1>5, <1>6
<1> QED
  BY <1>5, <1>6, <1>7

\* The first numbers of w can be added up.
LEMMA SumsExist ==
    ASSUME NEW m \in Nat, NEW w \in [1..m -> Nat]
    PROVE  \E f \in [0..m -> Nat] : f[0] = 0 /\ \A n \in 1..m : f[n] = f[n - 1] + w[n]
<1> DEFINE Sum(f, k) == f \in [0..k -> Nat] /\ f[0] = 0 /\ \A n \in 1..k : f[n] = f[n - 1] + w[n]
           T == {k \in 0..m : \E f : Sum(f, k)}
<1>1. 0 \in T
  <2>1. Sum([n \in 0..0 |-> 0], 0)
    OBVIOUS
  <2> HIDE DEF Sum
  <2> QED BY <2>1
<1>2. ASSUME NEW k \in 1..m, k - 1 \in T PROVE k \in T
  <2>1. PICK f : Sum(f, k - 1)
    BY <1>2
  <2> DEFINE g == [n \in 0..k |-> IF n = k THEN f[k - 1] + w[k] ELSE f[n]]
  <2>2. w[k] \in Nat /\ k - 1 \in 0..(k - 1) /\ f[k - 1] \in Nat
    BY <2>1
  <2>3. g \in [0..k -> Nat]
    <3>1. \A n \in 0..k : n # k => n \in 0..(k - 1)
      OBVIOUS
    <3> QED BY <2>1, <2>2, <3>1
  <2>4. g[0] = 0
    BY <2>1
  <2>5. ASSUME NEW n \in 1..k PROVE g[n] = g[n - 1] + w[n]
    <3>1. CASE n = k
      BY <3>1
    <3>2. CASE n # k
      <4>1. n \in 1..(k - 1) /\ n - 1 \in 0..k /\ n - 1 # k
        BY <3>2
      <4> QED BY <2>1, <3>2, <4>1
    <3> QED BY <3>1, <3>2
  <2>6. Sum(g, k)
    BY <2>3, <2>4, <2>5
  <2> HIDE DEF Sum
  <2> QED BY <2>6
<1> HIDE DEF T
<1>3. \A n \in 0..m : n \in T
  BY <1>1, <1>2, UpTo
<1> HIDE DEF Sum
<1>4. PICK f : Sum(f, m)
  BY <1>3 DEF T
<1> QED
  BY <1>4 DEF Sum

\* Bit errors in one octet.
LEMMA OctetErrorsType ==
    ASSUME NEW o \in Octet, NEW x PROVE OctetErrors(o, x) \in Nat
BY StreamAssumption DEF OctetErrors, Octet

\* From place a on g grows as f does from 0.
Parallel(f, g, m, a) ==
    /\ f \in [0..m -> Nat] /\ f[0] = 0
    /\ \A n \in 0..m : g[a + n] \in Nat
    /\ \A n \in 1..m : f[n] - f[n - 1] = g[a + n] - g[a + n - 1]

LEMMA SameSums ==
    \A m, a \in Nat : \A f, g : Parallel(f, g, m, a) => \A n \in 0..m : g[a + n] = g[a] + f[n]
<1> SUFFICES ASSUME NEW m \in Nat, NEW a \in Nat, NEW f, NEW g, Parallel(f, g, m, a)
             PROVE  \A n \in 0..m : g[a + n] = g[a] + f[n]
  OBVIOUS
<1> USE DEF Parallel
<1> DEFINE T == {n \in 0..m : g[a + n] = g[a] + f[n]}
<1>0. g[a] \in Nat
  <2>1. 0 \in 0..m /\ a + 0 = a
    OBVIOUS
  <2> QED BY <2>1
<1>1. 0 \in T
  BY <1>0
<1>2. ASSUME NEW n \in 1..m, n - 1 \in T PROVE n \in T
  <2>1. n - 1 \in 0..m /\ n \in 0..m /\ a + (n - 1) = a + n - 1
    OBVIOUS
  <2>2. f[n] \in Nat /\ f[n - 1] \in Nat /\ g[a + n] \in Nat /\ g[a + n - 1] \in Nat
    BY <2>1
  <2>3. g[a + n - 1] = g[a] + f[n - 1]
    BY <1>2, <2>1
  <2>4. f[n] - f[n - 1] = g[a + n] - g[a + n - 1]
    OBVIOUS
  <2>5. g[a + n] = g[a] + f[n]
    BY ONLY <1>0, <2>2, <2>3, <2>4
  <2> QED BY <2>5
<1> HIDE DEF T
<1>3. \A n \in 0..m : n \in T
  BY <1>1, <1>2, UpTo
<1> QED
  BY <1>3 DEF T

\* Sums grow.
LEMMA SumsGrow ==
    ASSUME NEW m \in Nat, NEW f, f \in [0..m -> Nat], \A n \in 1..m : f[n - 1] <= f[n], NEW k \in 0..m
    PROVE  f[k] <= f[m]
<1> DEFINE T == {n \in 0..m : k <= n => f[k] <= f[n]}
<1>1. 0 \in T
  BY k = 0 \/ k > 0
<1>2. ASSUME NEW n \in 1..m, n - 1 \in T PROVE n \in T
  <2>1. n - 1 \in 0..m /\ n \in 0..m /\ f[n] \in Nat /\ f[n - 1] \in Nat /\ f[k] \in Nat
    OBVIOUS
  <2>2. CASE k = n
    BY <2>1, <2>2
  <2>3. CASE k # n
    BY <1>2, <2>1, <2>3
  <2> QED BY <2>2, <2>3
<1> HIDE DEF T
<1>3. \A n \in 0..m : n \in T
  BY <1>1, <1>2, UpTo
<1> QED
  BY <1>3 DEF T

\* What MarkerErrors adds up.
ErrorSums(s, f) ==
    /\ f \in [0..Len(s) -> Nat] /\ f[0] = 0
    /\ \A n \in 1..Len(s) : f[n] = f[n - 1] + OctetErrors(s[n], Marker[n])

LEMMA MarkerErrorsIs ==
    ASSUME NEW s \in Seq(Octet)
    PROVE  \E f : ErrorSums(s, f) /\ MarkerErrors(s) = f[Len(s)]
<1> DEFINE w == [n \in 1..Len(s) |-> OctetErrors(s[n], Marker[n])]
           Is(f) == f = [n \in 0..Len(s) |-> IF n = 0 THEN 0
                                             ELSE f[n - 1] + OctetErrors(s[n], Marker[n])]
<1>1. Len(s) \in Nat /\ w \in [1..Len(s) -> Nat]
  BY OctetErrorsType
<1>2. PICK f \in [0..Len(s) -> Nat] : f[0] = 0 /\ \A n \in 1..Len(s) : f[n] = f[n - 1] + w[n]
  <2> HIDE DEF w
  <2> QED BY <1>1, SumsExist
<1>3. Is(f)
  <2>1. \A n \in 0..Len(s) : f[n] = IF n = 0 THEN 0 ELSE f[n - 1] + OctetErrors(s[n], Marker[n])
    BY <1>2
  <2> QED BY <1>2, <2>1
<1> DEFINE h == CHOOSE x : Is(x)
<1>4. Is(h)
  <2> HIDE DEF Is
  <2> QED BY <1>3
<1>5. MarkerErrors(s) = h[Len(s)]
  BY DEF MarkerErrors
<1>6. h = [n \in 0..Len(s) |-> IF n = 0 THEN 0 ELSE h[n - 1] + OctetErrors(s[n], Marker[n])]
  BY <1>4
<1> HIDE DEF h
<1>7. h[0] = 0 /\ \A n \in 1..Len(s) : h[n] = h[n - 1] + OctetErrors(s[n], Marker[n])
  BY <1>1, <1>6
<1>8. \A n \in 0..Len(s) : h[n] = f[n]
  <2> DEFINE T == {n \in 0..Len(s) : h[n] = f[n]}
  <2>1. 0 \in T
    BY <1>1, <1>2, <1>7
  <2>2. \A n \in 1..Len(s) : n - 1 \in T => n \in T
    BY <1>1, <1>2, <1>7
  <2> HIDE DEF T
  <2>3. \A n \in 0..Len(s) : n \in T
    BY <1>1, <2>1, <2>2, UpTo
  <2> QED BY <2>3 DEF T
<1>9. h \in [0..Len(s) -> Nat]
  <2>1. DOMAIN h = 0..Len(s) /\ h = [n \in 0..Len(s) |-> h[n]]
    BY <1>6
  <2> QED BY <1>2, <1>8, <2>1
<1> QED
  BY <1>5, <1>7, <1>9 DEF ErrorSums
\* Two sequences joined, and a part of one.
LEMMA JoinedAt ==
    ASSUME NEW S, NEW a \in Seq(S), NEW b \in Seq(S)
    PROVE  /\ a \o b \in Seq(S) /\ Len(a \o b) = Len(a) + Len(b) /\ Len(a) \in Nat /\ Len(b) \in Nat
           /\ \A i \in 1..Len(a) : (a \o b)[i] = a[i]
           /\ \A i \in 1..Len(b) : (a \o b)[Len(a) + i] = b[i]
OBVIOUS

LEMMA PartAt ==
    ASSUME NEW S, NEW s \in Seq(S), NEW m \in 0..Len(s), NEW n \in m..Len(s)
    PROVE  /\ SubSeq(s, m + 1, n) \in Seq(S) /\ Len(SubSeq(s, m + 1, n)) = n - m
           /\ \A i \in 1..n - m : SubSeq(s, m + 1, n)[i] = s[m + i]
OBVIOUS

-----------------------------------------------------------------------------
(* Bit errors of a marker, counted part by part.                           *)

LEMMA LookTypes ==
    ASSUME StreamTypeOK
    PROVE  /\ Len(data) \in Nat /\ Wanted \in 1..Len(Marker) /\ markerOffset + Wanted = Len(Marker)
           /\ Compare \in 0..Len(data) /\ Compare \in 0..Wanted
           /\ Len(data) < Wanted => Compare = Len(data)
           /\ Len(data) >= Wanted => Compare = Wanted
<1>1. Len(Marker) \in Nat /\ markerOffset \in 0..Len(Marker) - 1 /\ Len(data) \in Nat
  BY StreamAssumption DEF StreamTypeOK
<1> QED
  BY <1>1 DEF Wanted, Compare, Lesser

LEMMA BitErrorsAre ==
    ASSUME StreamTypeOK
    PROVE  /\ BitErrors \in [0..Compare -> Nat] /\ BitErrors[0] = 0
           /\ \A n \in 1..Compare : BitErrors[n] =
                 BitErrors[n - 1] + OctetErrors(data[n], Marker[markerOffset + n])
<1> DEFINE E(n) == OctetErrors(data[n], Marker[markerOffset + n])
           w == [n \in 1..Compare |-> E(n)]
           Is(f) == f = [n \in 0..Compare |-> IF n = 0 THEN 0 ELSE f[n - 1] + E(n)]
<1>1. Compare \in Nat /\ Compare <= Len(data) /\ data \in Seq(Octet)
  BY LookTypes DEF StreamTypeOK
<1>2. w \in [1..Compare -> Nat]
  BY <1>1, OctetErrorsType
<1> HIDE DEF E
<1>3. PICK f \in [0..Compare -> Nat] : f[0] = 0 /\ \A n \in 1..Compare : f[n] = f[n - 1] + w[n]
  <2> HIDE DEF w
  <2> QED BY <1>1, <1>2, SumsExist
<1>4. Is(f)
  <2>1. \A n \in 0..Compare : f[n] = IF n = 0 THEN 0 ELSE f[n - 1] + E(n)
    BY <1>3
  <2> QED BY <1>3, <2>1
<1>5. Is(BitErrors)
  <2>1. BitErrors = CHOOSE x : Is(x)
    BY DEF BitErrors, E
  <2> HIDE DEF Is
  <2> QED BY <1>4, <2>1
<1>6. BitErrors = [n \in 0..Compare |-> IF n = 0 THEN 0 ELSE BitErrors[n - 1] + E(n)]
  BY <1>5
<1>7. BitErrors[0] = 0 /\ \A n \in 1..Compare : BitErrors[n] = BitErrors[n - 1] + E(n)
  BY <1>1, <1>6
<1>8. \A n \in 0..Compare : BitErrors[n] = f[n]
  <2> DEFINE T == {n \in 0..Compare : BitErrors[n] = f[n]}
  <2>1. 0 \in T
    BY <1>1, <1>3, <1>7
  <2>2. \A n \in 1..Compare : n - 1 \in T => n \in T
    BY <1>1, <1>3, <1>7
  <2> HIDE DEF T
  <2>3. \A n \in 0..Compare : n \in T
    BY <1>1, <2>1, <2>2, UpTo
  <2> QED BY <2>3 DEF T
<1>9. BitErrors \in [0..Compare -> Nat]
  <2>1. DOMAIN BitErrors = 0..Compare /\ BitErrors = [n \in 0..Compare |-> BitErrors[n]]
    BY <1>6
  <2> QED BY <1>3, <1>8, <2>1
<1> QED
  BY <1>7, <1>9 DEF E

\* The bit errors found in earlier buffers and those found in this one are the marker's.
LEMMA PartsAddUp ==
    ASSUME StreamTypeOK, Len(matched) = markerOffset, currentBitErrors = MarkerErrors(matched)
    PROVE  MarkerErrors(matched \o SubSeq(data, 1, Compare)) = currentBitErrors + BitErrors[Compare]
<1> DEFINE b == SubSeq(data, 1, Compare)
           s == matched \o b
<1>1. /\ Compare \in 0..Len(data) /\ Len(data) \in Nat /\ data \in Seq(Octet) /\ matched \in Seq(Octet)
      /\ Len(matched) \in Nat
  BY LookTypes DEF StreamTypeOK
<1>2. b \in Seq(Octet) /\ Len(b) = Compare /\ \A i \in 1..Compare : b[i] = data[i]
  <2>1. 0 \in 0..Len(data) /\ Compare \in 0..Len(data)
    BY <1>1
  <2>2. /\ SubSeq(data, 0 + 1, Compare) \in Seq(Octet) /\ Len(SubSeq(data, 0 + 1, Compare)) = Compare - 0
        /\ \A i \in 1..Compare - 0 : SubSeq(data, 0 + 1, Compare)[i] = data[0 + i]
    BY <1>1, <2>1, PartAt
  <2> QED BY <1>1, <2>2
<1> HIDE DEF b
<1>3. /\ s \in Seq(Octet) /\ Len(s) = Len(matched) + Compare
      /\ \A i \in 1..Len(matched) : s[i] = matched[i]
      /\ \A i \in 1..Compare : s[Len(matched) + i] = data[i]
  <2>1. /\ s \in Seq(Octet) /\ Len(s) = Len(matched) + Len(b)
        /\ \A i \in 1..Len(matched) : s[i] = matched[i]
        /\ \A i \in 1..Len(b) : s[Len(matched) + i] = b[i]
    <3>1. matched \in Seq(Octet) /\ b \in Seq(Octet)
      BY <1>1, <1>2
    <3> QED BY ONLY <3>1, JoinedAt
  <2> QED BY <1>2, <2>1
<1> HIDE DEF s
<1>4. PICK f : ErrorSums(matched, f) /\ MarkerErrors(matched) = f[Len(matched)]
  BY <1>1, MarkerErrorsIs
<1>5. PICK g : ErrorSums(s, g) /\ MarkerErrors(s) = g[Len(s)]
  BY <1>3, MarkerErrorsIs
<1>6. g[Len(matched)] = f[Len(matched)]
  <2>1. f \in [0..Len(matched) -> Nat] /\ f[0] = 0 /\ g[0] = 0
    BY <1>4, <1>5 DEF ErrorSums
  <2>2. \A n \in 0..Len(matched) : g[0 + n] \in Nat
    BY <1>1, <1>3, <1>5 DEF ErrorSums
  <2>3. ASSUME NEW n \in 1..Len(matched) PROVE f[n] - f[n - 1] = g[0 + n] - g[0 + n - 1]
    <3>1. f[n] = f[n - 1] + OctetErrors(matched[n], Marker[n])
      BY <1>4 DEF ErrorSums
    <3>2. n \in 1..Len(s) /\ s[n] = matched[n]
      BY <1>1, <1>3
    <3>3. g[n] = g[n - 1] + OctetErrors(matched[n], Marker[n])
      BY <1>5, <3>2 DEF ErrorSums
    <3>4. OctetErrors(matched[n], Marker[n]) \in Nat
      BY <1>1, OctetErrorsType
    <3>5. n - 1 \in 0..Len(matched) /\ n - 1 \in 0..Len(s) /\ 0 + n = n /\ 0 + n - 1 = n - 1
      BY <1>1, <1>3
    <3>6. f[n - 1] \in Nat /\ g[n - 1] \in Nat
      BY <1>4, <1>5, <3>5 DEF ErrorSums
    <3> QED BY <3>1, <3>3, <3>4, <3>5, <3>6
  <2>4. \A n \in 0..Len(matched) : g[0 + n] = 0 + f[n]
    <3>1. Parallel(f, g, Len(matched), 0)
      BY <2>1, <2>2, <2>3 DEF Parallel
    <3>2. \A n \in 0..Len(matched) : g[0 + n] = g[0] + f[n]
      BY <1>1, <3>1, SameSums
    <3> QED BY <2>1, <3>2
  <2> QED BY <1>1, <2>1, <2>4
<1>7. \A n \in 0..Compare : g[Len(matched) + n] = g[Len(matched)] + BitErrors[n]
  <2>1. BitErrors \in [0..Compare -> Nat] /\ BitErrors[0] = 0 /\ Compare \in Nat /\ Len(matched) \in Nat
    BY <1>1, BitErrorsAre
  <2>2. \A n \in 0..Compare : g[Len(matched) + n] \in Nat
    BY <1>1, <1>3, <1>5 DEF ErrorSums
  <2>3. g[Len(matched)] \in Nat
    BY <1>1, <1>3, <1>5 DEF ErrorSums
  <2>4. ASSUME NEW n \in 1..Compare
        PROVE  BitErrors[n] - BitErrors[n - 1] = g[Len(matched) + n] - g[Len(matched) + n - 1]
    <3>1. BitErrors[n] = BitErrors[n - 1] + OctetErrors(data[n], Marker[Len(matched) + n])
      BY BitErrorsAre
    <3>2. Len(matched) + n \in 1..Len(s) /\ s[Len(matched) + n] = data[n]
      BY <1>1, <1>3
    <3>3. g[Len(matched) + n] = g[Len(matched) + n - 1] + OctetErrors(data[n], Marker[Len(matched) + n])
      BY <1>5, <3>2 DEF ErrorSums
    <3>4. OctetErrors(data[n], Marker[Len(matched) + n]) \in Nat
      BY <1>1, OctetErrorsType
    <3>5. n - 1 \in 0..Compare /\ Len(matched) + n - 1 \in 0..Len(s)
      BY <1>1, <1>3
    <3>6. BitErrors[n - 1] \in Nat /\ g[Len(matched) + n - 1] \in Nat
      BY <1>5, <2>1, <3>5 DEF ErrorSums
    <3> QED BY <3>1, <3>3, <3>4, <3>6
  <2>5. Parallel(BitErrors, g, Compare, Len(matched))
    BY <2>1, <2>2, <2>4 DEF Parallel
  <2> QED BY <2>1, <2>5, SameSums
<1> QED
  <2>1. MarkerErrors(s) = g[Len(matched)] + BitErrors[Compare]
    BY <1>1, <1>3, <1>5, <1>7
  <2> QED BY <1>4, <1>6, <2>1 DEF s, b
-----------------------------------------------------------------------------
(* What a pass of the loop leaves of the stream.                           *)

\* Four sequences in a row.
LEMMA FourAt ==
    ASSUME NEW S, NEW a \in Seq(S), NEW b \in Seq(S), NEW c \in Seq(S), NEW d \in Seq(S)
    PROVE  /\ a \o (b \o (c \o d)) \in Seq(S)
           /\ Len(a \o (b \o (c \o d))) = Len(a) + Len(b) + Len(c) + Len(d)
           /\ \A i \in 1..Len(a) + Len(b) + Len(c) + Len(d) : (a \o (b \o (c \o d)))[i] =
                 IF i <= Len(a) THEN a[i]
                 ELSE IF i <= Len(a) + Len(b) THEN b[i - Len(a)]
                 ELSE IF i <= Len(a) + Len(b) + Len(c) THEN c[i - Len(a) - Len(b)]
                 ELSE d[i - Len(a) - Len(b) - Len(c)]
<1> DEFINE e == c \o d
           f == b \o e
           g == a \o f
<1>0. Len(a) \in Nat /\ Len(b) \in Nat /\ Len(c) \in Nat /\ Len(d) \in Nat
  OBVIOUS
<1>1. /\ e \in Seq(S) /\ Len(e) = Len(c) + Len(d)
      /\ \A i \in 1..Len(c) + Len(d) : e[i] = IF i <= Len(c) THEN c[i] ELSE d[i - Len(c)]
  BY ConcatProperties
<1> HIDE DEF e
<1>2. /\ f \in Seq(S) /\ Len(f) = Len(b) + Len(e)
      /\ \A i \in 1..Len(b) + Len(e) : f[i] = IF i <= Len(b) THEN b[i] ELSE e[i - Len(b)]
  <2>1. b \in Seq(S) /\ e \in Seq(S)
    BY <1>1
  <2> QED BY ONLY <2>1, ConcatProperties
<1> HIDE DEF f
<1>3. /\ g \in Seq(S) /\ Len(g) = Len(a) + Len(f)
      /\ \A i \in 1..Len(a) + Len(f) : g[i] = IF i <= Len(a) THEN a[i] ELSE f[i - Len(a)]
  <2>1. a \in Seq(S) /\ f \in Seq(S)
    BY <1>2
  <2> QED BY ONLY <2>1, ConcatProperties
<1> HIDE DEF g
<1>4. Len(g) = Len(a) + Len(b) + Len(c) + Len(d)
  BY <1>0, <1>1, <1>2, <1>3
<1>5. ASSUME NEW i \in 1..Len(a) + Len(b) + Len(c) + Len(d)
      PROVE  g[i] = IF i <= Len(a) THEN a[i]
                    ELSE IF i <= Len(a) + Len(b) THEN b[i - Len(a)]
                    ELSE IF i <= Len(a) + Len(b) + Len(c) THEN c[i - Len(a) - Len(b)]
                    ELSE d[i - Len(a) - Len(b) - Len(c)]
  <2>1. CASE i <= Len(a)
    BY <1>0, <1>1, <1>2, <1>3, <2>1
  <2>2. CASE ~(i <= Len(a))
    <3>1. i - Len(a) \in 1..Len(b) + Len(e) /\ g[i] = f[i - Len(a)]
      BY <1>0, <1>1, <1>2, <1>3, <2>2
    <3>2. CASE i <= Len(a) + Len(b)
      BY <1>0, <1>2, <2>2, <3>1, <3>2
    <3>3. CASE ~(i <= Len(a) + Len(b))
      <4>1. i - Len(a) - Len(b) \in 1..Len(c) + Len(d) /\ f[i - Len(a)] = e[i - Len(a) - Len(b)]
        BY <1>0, <1>1, <1>2, <3>1, <3>3
      <4>2. e[i - Len(a) - Len(b)] = IF i - Len(a) - Len(b) <= Len(c) THEN c[i - Len(a) - Len(b)]
                                     ELSE d[i - Len(a) - Len(b) - Len(c)]
        BY <1>1, <4>1
      <4> QED BY <1>0, <2>2, <3>1, <3>3, <4>1, <4>2
    <3> QED BY <3>2, <3>3
  <2> QED BY <2>1, <2>2
<1> QED
  BY <1>3, <1>4, <1>5 DEF g, f, e

\* r is the row of a, b, c and d, by places.
Places(r, a, b, c, d) ==
    /\ Len(a) \in Nat /\ Len(b) \in Nat /\ Len(c) \in Nat /\ Len(d) \in Nat
    /\ Len(r) = Len(a) + Len(b) + Len(c) + Len(d)
    /\ \A i \in 1..Len(a) + Len(b) + Len(c) + Len(d) : r[i] =
          IF i <= Len(a) THEN a[i]
          ELSE IF i <= Len(a) + Len(b) THEN b[i - Len(a)]
          ELSE IF i <= Len(a) + Len(b) + Len(c) THEN c[i - Len(a) - Len(b)]
          ELSE d[i - Len(a) - Len(b) - Len(c)]

Row(r, a, b, c, d) == r \in Seq(Octet) /\ Places(r, a, b, c, d)

LEMMA RestIs ==
    ASSUME matched \in Seq(Octet), Begun \in Seq(Octet), data \in Seq(Octet), wire \in Seq(Octet)
    PROVE  Row(Rest, matched, Begun, data, wire)
<1>1. /\ Len(matched) \in Nat /\ Len(Begun) \in Nat /\ Len(data) \in Nat /\ Len(wire) \in Nat
  OBVIOUS
<1> QED
  BY <1>1, FourAt DEF Row, Places, Rest

LEMMA RestIsNext ==
    ASSUME matched' \in Seq(Octet), Begun' \in Seq(Octet), data' \in Seq(Octet), wire' \in Seq(Octet)
    PROVE  Row(Rest', matched', Begun', data', wire')
<1>1. /\ Len(matched') \in Nat /\ Len(Begun') \in Nat /\ Len(data') \in Nat /\ Len(wire') \in Nat
  OBVIOUS
<1> QED
  BY <1>1, FourAt DEF Row, Places, Rest

\* t is s without its first n octets.
TailOf(t, s, n) ==
    /\ n \in Nat /\ s \in Seq(Octet) /\ t \in Seq(Octet) /\ Len(s) = n + Len(t)
    /\ \A i \in 1..Len(t) : t[i] = s[n + i]

\* The two parts of a sequence cut at n.
LEMMA CutAt ==
    ASSUME NEW S, NEW s \in Seq(S), NEW n \in 0..Len(s)
    PROVE  /\ Len(s) \in Nat
           /\ SubSeq(s, 1, n) \in Seq(S) /\ Len(SubSeq(s, 1, n)) = n
           /\ \A i \in 1..n : SubSeq(s, 1, n)[i] = s[i]
           /\ SubSeq(s, n + 1, Len(s)) \in Seq(S) /\ Len(SubSeq(s, n + 1, Len(s))) = Len(s) - n
           /\ \A i \in 1..Len(s) - n : SubSeq(s, n + 1, Len(s))[i] = s[n + i]
OBVIOUS


\* The first two parts of a row and m octets of the third are passed over.
LEMMA DropRow ==
    ASSUME NEW a, NEW b, NEW c, NEW d, NEW e, NEW r \in Seq(Octet), NEW s \in Seq(Octet),
           Places(r, a, b, c, d), Places(s, <<>>, <<>>, e, d), Len(<<>>) = 0,
           NEW m \in 0..Len(c), Len(e) = Len(c) - m, \A i \in 1..Len(c) - m : e[i] = c[m + i]
    PROVE  TailOf(s, r, Len(a) + Len(b) + m)
<1> DEFINE n == Len(a) + Len(b) + m
<1>1. /\ Len(a) \in Nat /\ Len(b) \in Nat /\ Len(c) \in Nat /\ Len(d) \in Nat /\ Len(e) \in Nat
      /\ Len(r) = Len(a) + Len(b) + Len(c) + Len(d) /\ Len(s) = Len(e) + Len(d) /\ m \in Nat
  BY DEF Places
<1>2. n \in Nat /\ Len(r) = n + Len(s)
  BY <1>1
<1>3. ASSUME NEW i \in 1..Len(s) PROVE s[i] = r[n + i]
  <2>1. /\ n + i \in 1..Len(a) + Len(b) + Len(c) + Len(d) /\ i \in Nat /\ n \in Nat
        /\ ~(n + i <= Len(a)) /\ ~(n + i <= Len(a) + Len(b))
        /\ n + i - Len(a) - Len(b) = m + i /\ n + i - Len(a) - Len(b) - Len(c) = i - Len(e)
        /\ n + i <= Len(a) + Len(b) + Len(c) <=> i <= Len(e)
        /\ i \in 1..0 + 0 + Len(e) + Len(d)
    BY <1>1
  <2> HIDE DEF n
  <2>2. r[n + i] = IF i <= Len(e) THEN c[m + i] ELSE d[i - Len(e)]
    <3>1. r[n + i] = IF n + i <= Len(a) + Len(b) + Len(c) THEN c[n + i - Len(a) - Len(b)]
                     ELSE d[n + i - Len(a) - Len(b) - Len(c)]
      BY ONLY <1>1, <2>1, Places(r, a, b, c, d) DEF Places
    <3> QED BY <2>1, <3>1
  <2>3. s[i] = IF i <= Len(e) THEN e[i] ELSE d[i - Len(e)]
    BY ONLY <1>1, <2>1, Places(s, <<>>, <<>>, e, d), Len(<<>>) = 0 DEF Places
  <2>4. i <= Len(e) => e[i] = c[m + i]
    BY <1>1, <2>1
  <2> QED BY <2>2, <2>3, <2>4
<1> HIDE DEF n
<1>4. TailOf(s, r, n)
  BY <1>2, <1>3 DEF TailOf
<1> QED
  BY <1>4 DEF n

\* f and g are the row of a, b and c.
Regrouped(f, g, a, b, c) ==
    /\ Len(f) + Len(g) = Len(a) + Len(b) + Len(c)
    /\ \A i \in 1..Len(f) + Len(g) :
          (IF i <= Len(f) THEN f[i] ELSE g[i - Len(f)]) =
             IF i <= Len(a) THEN a[i] ELSE IF i <= Len(a) + Len(b) THEN b[i - Len(a)]
             ELSE c[i - Len(a) - Len(b)]

\* The third part of a row is used up, and kept in the first two.
LEMMA KeepRow ==
    ASSUME NEW a, NEW b, NEW c, NEW d, NEW r \in Seq(Octet), Places(r, a, b, c, d),
           NEW f, NEW g, NEW e, NEW s \in Seq(Octet), Places(s, f, g, e, d), Len(e) = 0,
           Regrouped(f, g, a, b, c)
    PROVE  TailOf(s, r, 0)
<1>1. /\ Len(a) \in Nat /\ Len(b) \in Nat /\ Len(c) \in Nat /\ Len(d) \in Nat
      /\ Len(f) \in Nat /\ Len(g) \in Nat
      /\ Len(r) = Len(a) + Len(b) + Len(c) + Len(d) /\ Len(s) = Len(r)
      /\ Len(e) = 0 /\ Len(f) + Len(g) = Len(a) + Len(b) + Len(c)
  <2>1. /\ Len(a) \in Nat /\ Len(b) \in Nat /\ Len(c) \in Nat /\ Len(d) \in Nat
        /\ Len(r) = Len(a) + Len(b) + Len(c) + Len(d)
    BY ONLY Places(r, a, b, c, d) DEF Places
  <2>2. Len(f) \in Nat /\ Len(g) \in Nat /\ Len(s) = Len(f) + Len(g) + Len(e) + Len(d)
    BY ONLY Places(s, f, g, e, d) DEF Places
  <2>3. Len(e) = 0 /\ Len(f) + Len(g) = Len(a) + Len(b) + Len(c)
    BY DEF Regrouped
  <2> QED BY ONLY <2>1, <2>2, <2>3
<1>2. ASSUME NEW i \in 1..Len(s) PROVE s[i] = r[0 + i]
  <2>1. /\ i \in 1..Len(a) + Len(b) + Len(c) + Len(d) /\ i \in 1..Len(f) + Len(g) + Len(e) + Len(d)
        /\ i \in Nat /\ i > 0 /\ 0 + i = i
        /\ i - Len(f) - Len(g) - Len(e) = i - Len(a) - Len(b) - Len(c)
        /\ i <= Len(f) + Len(g) <=> i <= Len(a) + Len(b) + Len(c)
        /\ i <= Len(f) + Len(g) + Len(e) <=> i <= Len(f) + Len(g)
    <3>1. i \in 1..Len(s)
      OBVIOUS
    <3> QED BY ONLY <1>1, <3>1
  <2>2. r[i] = IF i <= Len(a) THEN a[i] ELSE IF i <= Len(a) + Len(b) THEN b[i - Len(a)]
               ELSE IF i <= Len(a) + Len(b) + Len(c) THEN c[i - Len(a) - Len(b)]
               ELSE d[i - Len(a) - Len(b) - Len(c)]
    BY ONLY <2>1, Places(r, a, b, c, d) DEF Places
  <2>3. s[i] = IF i <= Len(f) THEN f[i] ELSE IF i <= Len(f) + Len(g) THEN g[i - Len(f)]
               ELSE IF i <= Len(f) + Len(g) + Len(e) THEN e[i - Len(f) - Len(g)]
               ELSE d[i - Len(f) - Len(g) - Len(e)]
    BY ONLY <2>1, Places(s, f, g, e, d) DEF Places
  <2>4. CASE i <= Len(f) + Len(g)
    <3>1. i \in 1..Len(f) + Len(g)
      BY <1>1, <2>1, <2>4
    <3>2. (IF i <= Len(f) THEN f[i] ELSE g[i - Len(f)]) =
             IF i <= Len(a) THEN a[i] ELSE IF i <= Len(a) + Len(b) THEN b[i - Len(a)]
             ELSE c[i - Len(a) - Len(b)]
      BY <3>1 DEF Regrouped
    <3>3. s[i] = IF i <= Len(f) THEN f[i] ELSE g[i - Len(f)]
      BY ONLY <2>3, <2>4
    <3>4. r[i] = IF i <= Len(a) THEN a[i] ELSE IF i <= Len(a) + Len(b) THEN b[i - Len(a)]
                 ELSE c[i - Len(a) - Len(b)]
      BY ONLY <2>1, <2>2, <2>4
    <3> QED BY ONLY <3>2, <3>3, <3>4
  <2>5. CASE ~(i <= Len(f) + Len(g))
    <3>1. s[i] = d[i - Len(a) - Len(b) - Len(c)]
      BY ONLY <1>1, <2>1, <2>3, <2>5
    <3>2. ~(i <= Len(a)) /\ ~(i <= Len(a) + Len(b)) /\ ~(i <= Len(a) + Len(b) + Len(c))
      BY <1>1, <2>1, <2>5
    <3> QED BY ONLY <2>1, <2>2, <3>1, <3>2
  <2> QED BY <2>4, <2>5
<1> QED
  BY <1>1, <1>2 DEF TailOf

\* A unit is sent on.
SendsOn == \E p, q \in Seq(Octet) :
    /\ Len(p) = Len(Marker) /\ Len(q) = ExpectedUnitLength
    /\ \A i \in 1..UnitLen : Rest[i] = IF i <= Len(Marker) THEN p[i] ELSE q[i - Len(Marker)]
    /\ MarkerErrors(p) <= AllowedMarkerBitErrors
    /\ delivered' = Append(delivered, [marker |-> p, data |-> q])
    /\ TailOf(Rest', Rest, UnitLen)
LEMMA BegunType ==
    ASSUME StreamTypeOK
    PROVE  /\ Begun \in Seq(Octet)
           /\ goodUnit = NoUnit => Begun = <<>>
           /\ goodUnit # NoUnit => Begun = goodUnit
BY DEF StreamTypeOK, Begun

LEMMA RestTyped == ASSUME StreamTypeOK PROVE Row(Rest, matched, Begun, data, wire)
<1>1. matched \in Seq(Octet) /\ Begun \in Seq(Octet) /\ data \in Seq(Octet) /\ wire \in Seq(Octet)
  BY BegunType DEF StreamTypeOK
<1> QED
  BY <1>1, RestIs

LEMMA NoUnitYet == <<>> \in Seq(Octet) /\ Len(<<>>) = 0 /\ \A s \in Seq(Octet) : s # NoUnit
BY StreamAssumption

\* Types of the octets held.
HeldTypes ==
    /\ wire \in Seq(Octet) /\ data \in Seq(Octet) /\ matched \in Seq(Octet)
    /\ goodUnit \in Seq(Octet) \cup {NoUnit}
    /\ markerOffset \in 0..Len(Marker) - 1 /\ currentBitErrors \in 0..AllowedMarkerBitErrors

LEMMA NoErrorsInNothing == MarkerErrors(<<>>) = 0
<1>1. <<>> \in Seq(Octet) /\ Len(<<>>) = 0
  OBVIOUS
<1> QED
  BY <1>1, MarkerErrorsIs DEF ErrorSums

LEMMA GetDataTail ==
    ASSUME StreamTypeOK, LookInv, GetData
    PROVE  HeldTypes' /\ LookInv' /\ TailOf(Rest', Rest, 0)
<1>1. PICK n \in BufferLengths : /\ data = <<>> /\ n <= Len(wire)
                                 /\ data' = SubSeq(wire, 1, n) /\ wire' = SubSeq(wire, n + 1, Len(wire))
  BY DEF GetData
<1>2. /\ UNCHANGED <<goodUnit, markerOffset, currentBitErrors, matched>> /\ Begun' = Begun
  BY DEF GetData, Begun
<1>3. n \in 0..Len(wire) /\ wire \in Seq(Octet)
  BY <1>1, StreamAssumption DEF StreamTypeOK
<1>4. /\ data' \in Seq(Octet) /\ Len(data') = n /\ \A i \in 1..n : data'[i] = wire[i]
      /\ wire' \in Seq(Octet) /\ Len(wire') = Len(wire) - n
      /\ \A i \in 1..Len(wire) - n : wire'[i] = wire[n + i]
  BY <1>1, <1>3, CutAt
<1>5. HeldTypes'
  BY <1>2, <1>4 DEF HeldTypes, StreamTypeOK
<1>6. LookInv'
  BY <1>2 DEF LookInv
<1>7. Row(Rest, matched, Begun, data, wire) /\ Len(data) = 0
  BY <1>1, RestTyped
<1>8. Row(Rest', matched, Begun, data', wire')
  <2>1. matched' \in Seq(Octet) /\ Begun' \in Seq(Octet) /\ matched' = matched /\ Begun' = Begun
    BY <1>2, BegunType DEF StreamTypeOK
  <2> QED BY <1>4, <2>1, RestIsNext
<1>9. TailOf(Rest', Rest, 0)
  <2>0. Rest \in Seq(Octet) /\ Rest' \in Seq(Octet) /\ Len(Begun') = Len(Begun)
    BY <1>2, <1>7, <1>8 DEF Row, Places
  <2>a. Places(Rest, matched, Begun, data, wire) /\ Places(Rest', matched, Begun, data', wire')
    BY <1>7, <1>8 DEF Row, Places
  <2>1. /\ Len(matched) \in Nat /\ Len(Begun) \in Nat /\ Len(wire) \in Nat /\ n \in 0..Len(wire)
        /\ Len(Rest') = Len(Rest) /\ Len(Rest) = Len(matched) + Len(Begun) + Len(wire)
    BY <1>3, <1>4, <1>7, <2>a DEF Places
  <2>2. ASSUME NEW i \in 1..Len(Rest') PROVE Rest'[i] = Rest[0 + i]
    <3> DEFINE l == Len(matched) + Len(Begun)
    <3>1. i \in 1..Len(matched) + Len(Begun) + Len(data) + Len(wire) /\ l \in Nat
      BY <1>7, <2>1
    <3>2. CASE i <= l
      <4>1. i <= Len(matched) + Len(Begun)
        BY <3>2
      <4>2. i \in 1..Len(matched) + Len(Begun) + Len(data) + Len(wire) /\ 0 + i = i
            /\ i \in 1..Len(matched) + Len(Begun) + Len(data') + Len(wire')
        BY <1>3, <1>4, <1>7, <2>1
      <4> HIDE DEF l
      <4> QED BY ONLY <2>a, <2>1, <4>1, <4>2 DEF Places
    <3>3. CASE ~(i <= l)
      <4>1. i - l \in 1..Len(wire) /\ Rest[i] = wire[i - l]
        <5>1. Rest[i] = wire[i - Len(matched) - Len(Begun) - Len(data)]
          BY ONLY <1>7, <2>a, <2>1, <3>1, <3>3 DEF Places
        <5>2. i - l = i - Len(matched) - Len(Begun) - Len(data)
          BY <1>7, <2>1
        <5> QED BY <1>7, <2>1, <3>1, <3>3, <5>1, <5>2
      <4>2. Rest'[i] = IF i - l <= n THEN data'[i - l] ELSE wire'[i - l - n]
        <5>1. Rest'[i] = IF i <= Len(matched) + Len(Begun) + Len(data') THEN data'[i - Len(matched) - Len(Begun)]
                         ELSE wire'[i - Len(matched) - Len(Begun) - Len(data')]
          <6>1. ~(i <= Len(matched)) /\ ~(i <= Len(matched) + Len(Begun))
                /\ i \in 1..Len(matched) + Len(Begun) + Len(data') + Len(wire')
            BY <1>4, <1>7, <2>1, <3>1, <3>3
          <6> HIDE DEF l
          <6> QED BY ONLY <2>a, <6>1 DEF Places
        <5>2. /\ i - l = i - Len(matched) - Len(Begun) /\ i - l - n = i - Len(matched) - Len(Begun) - Len(data')
              /\ i <= Len(matched) + Len(Begun) + Len(data') <=> i - l <= n
          BY <1>4, <2>1, <3>1
        <5> QED BY <5>1, <5>2
      <4> HIDE DEF l
      <4>3. Rest'[i] = wire[i - l]
        BY <1>3, <1>4, <2>1, <4>1, <4>2
      <4> QED BY <3>1, <4>1, <4>3
    <3> QED BY <3>2, <3>3
  <2> QED BY <2>0, <2>1, <2>2 DEF TailOf
<1> QED
  BY <1>5, <1>6, <1>9

LEMMA PartOfMarkerTail ==
    ASSUME StreamTypeOK, LookInv, PartOfMarker
    PROVE  /\ HeldTypes' /\ LookInv'
           /\ MarkerMatch => TailOf(Rest', Rest, 0)
           /\ ~MarkerMatch => TailOf(Rest', Rest, Len(matched) + Len(data))
<1>1. /\ data # <<>> /\ goodUnit = NoUnit /\ Len(data) < Wanted /\ wire' = wire /\ goodUnit' = NoUnit
      /\ data' = SubSeq(data, Len(data) + 1, Len(data))
  BY DEF PartOfMarker, Advance
<1>2. /\ data \in Seq(Octet) /\ matched \in Seq(Octet) /\ wire \in Seq(Octet)
      /\ Len(matched) = markerOffset /\ currentBitErrors = MarkerErrors(matched)
      /\ Len(data) \in Nat /\ Compare = Len(data) /\ markerOffset + Wanted = Len(Marker)
      /\ markerOffset \in Nat /\ Wanted \in Nat
  BY <1>1, LookTypes DEF StreamTypeOK, LookInv
<1>3. /\ data' \in Seq(Octet) /\ Len(data') = 0 /\ SubSeq(data, 1, Len(data)) \in Seq(Octet)
      /\ Len(SubSeq(data, 1, Len(data))) = Len(data)
      /\ \A i \in 1..Len(data) : SubSeq(data, 1, Len(data))[i] = data[i]
  BY <1>1, <1>2, CutAt
<1>4. Begun = <<>> /\ Begun' = <<>> /\ <<>> \in Seq(Octet) /\ Len(<<>>) = 0
  BY <1>1, NoUnitYet DEF Begun
<1>5. Row(Rest, matched, <<>>, data, wire)
  BY <1>4, RestTyped
<1>6. CASE MarkerMatch
  <2>1. /\ markerOffset' = markerOffset + Len(data) /\ currentBitErrors' = currentBitErrors + BitErrors[Compare]
        /\ matched' = matched \o SubSeq(data, 1, Compare)
    BY <1>2, <1>6 DEF PartOfMarker, KeepPart
  <2>2. /\ matched' \in Seq(Octet) /\ Len(matched') = Len(matched) + Len(data)
        /\ \A i \in 1..Len(matched) + Len(data) :
              matched'[i] = IF i <= Len(matched) THEN matched[i] ELSE data[i - Len(matched)]
    <3> DEFINE b == SubSeq(data, 1, Len(data))
    <3>1. matched' = matched \o b /\ Len(b) = Len(data) /\ b \in Seq(Octet) /\ \A i \in 1..Len(data) : b[i] = data[i]
      BY <1>2, <1>3, <2>1
    <3> HIDE DEF b
    <3>2. /\ matched \o b \in Seq(Octet) /\ Len(matched \o b) = Len(matched) + Len(b)
          /\ \A i \in 1..Len(matched) + Len(b) :
                (matched \o b)[i] = IF i <= Len(matched) THEN matched[i] ELSE b[i - Len(matched)]
      <4>1. matched \in Seq(Octet) /\ b \in Seq(Octet)
        BY <1>2, <3>1
      <4> QED BY ONLY <4>1, ConcatProperties
    <3> QED BY <1>2, <3>1, <3>2
  <2>3. currentBitErrors' = MarkerErrors(matched') /\ Len(matched') = markerOffset'
    BY <1>2, <2>1, <2>2, PartsAddUp
  <2>4. currentBitErrors' \in 0..AllowedMarkerBitErrors
    <3>1. BitErrors[Compare] \in Nat /\ currentBitErrors \in Nat
      BY <1>2, BitErrorsAre DEF StreamTypeOK
    <3>2. currentBitErrors + BitErrors[Compare] <= AllowedMarkerBitErrors
      BY <1>6 DEF MarkerMatch
    <3> QED BY <2>1, <3>1, <3>2, StreamAssumption
  <2>5. markerOffset' \in 0..Len(Marker) - 1
    BY <1>1, <1>2, <2>1
  <2>6. LookInv'
    BY <1>1, <2>3 DEF LookInv
  <2>7. HeldTypes'
    BY <1>1, <1>2, <1>3, <2>2, <2>4, <2>5 DEF HeldTypes
  <2>8. Row(Rest', matched', <<>>, data', wire)
    BY <1>1, <1>2, <1>3, <1>4, <2>2, RestIsNext
  <2>9. TailOf(Rest', Rest, 0)
    <3>1. /\ Places(Rest, matched, <<>>, data, wire) /\ Rest \in Seq(Octet) /\ Rest' \in Seq(Octet)
          /\ Places(Rest', matched', <<>>, data', wire)
      BY <1>5, <2>8 DEF Row
    <3>2. Len(matched') + Len(<<>>) = Len(matched) + Len(<<>>) + Len(data) /\ Len(matched) \in Nat
      BY <1>2, <1>4, <2>2
    <3>3. ASSUME NEW i \in 1..Len(matched') + Len(<<>>)
          PROVE  (IF i <= Len(matched') THEN matched'[i] ELSE <<>>[i - Len(matched')]) =
                    IF i <= Len(matched) THEN matched[i] ELSE IF i <= Len(matched) + Len(<<>>)
                    THEN <<>>[i - Len(matched)] ELSE data[i - Len(matched) - Len(<<>>)]
      <4>1. /\ i \in 1..Len(matched) + Len(data)
            /\ i <= Len(matched')
            /\ i - Len(matched) - Len(<<>>) = i - Len(matched)
            /\ i <= Len(matched) + Len(<<>>) <=> i <= Len(matched)
        BY <1>2, <1>4, <2>2
      <4> QED BY ONLY <2>2, <4>1
    <3>4. Regrouped(matched', <<>>, matched, <<>>, data)
      BY ONLY <3>2, <3>3 DEF Regrouped
    <3> QED BY <1>3, <3>1, <3>4, KeepRow
  <2> QED BY <1>6, <2>6, <2>7, <2>9
<1>7. CASE ~MarkerMatch
  <2>1. markerOffset' = 0 /\ currentBitErrors' = 0 /\ matched' = <<>>
    BY <1>7 DEF PartOfMarker, Forget
  <2>2. HeldTypes'
    BY <1>1, <1>2, <1>3, <1>4, <2>1, StreamAssumption DEF HeldTypes
  <2>3. LookInv'
    BY <1>1, <1>4, <2>1, NoErrorsInNothing DEF LookInv
  <2>4. Row(Rest', <<>>, <<>>, data', wire)
    BY <1>1, <1>2, <1>3, <1>4, <2>1, RestIsNext
  <2>5. TailOf(Rest', Rest, Len(matched) + Len(data))
    <3>1. /\ Places(Rest, matched, <<>>, data, wire) /\ Rest \in Seq(Octet) /\ Rest' \in Seq(Octet)
          /\ Places(Rest', <<>>, <<>>, data', wire)
      BY <1>5, <2>4 DEF Row
    <3>2. /\ Len(data) \in 0..Len(data) /\ Len(data') = Len(data) - Len(data)
          /\ \A i \in 1..Len(data) - Len(data) : data'[i] = data[Len(data) + i]
      BY <1>2, <1>3
    <3>3. TailOf(Rest', Rest, Len(matched) + Len(<<>>) + Len(data))
      BY <1>4, <3>1, <3>2, DropRow
    <3> QED BY <1>2, <1>4, <3>3
  <2> QED BY <1>7, <2>2, <2>3, <2>5
<1> QED
  BY <1>6, <1>7

LEMMA NoMarkerTail ==
    ASSUME StreamTypeOK, LookInv, NoMarker
    PROVE  HeldTypes' /\ LookInv' /\ TailOf(Rest', Rest, Len(matched) + 1)
<1>1. /\ data # <<>> /\ goodUnit = NoUnit /\ wire' = wire /\ goodUnit' = NoUnit
      /\ data' = SubSeq(data, 1 + 1, Len(data))
      /\ markerOffset' = 0 /\ currentBitErrors' = 0 /\ matched' = <<>>
  BY DEF NoMarker, Advance, Forget
<1>2. data \in Seq(Octet) /\ matched \in Seq(Octet) /\ wire \in Seq(Octet) /\ 1 \in 0..Len(data)
  BY <1>1 DEF StreamTypeOK
<1>3. /\ data' \in Seq(Octet) /\ Len(data') = Len(data) - 1 /\ \A i \in 1..Len(data) - 1 : data'[i] = data[1 + i]
  BY <1>1, <1>2, CutAt
<1>4. Begun = <<>> /\ Begun' = <<>> /\ <<>> \in Seq(Octet) /\ Len(<<>>) = 0
  BY <1>1, NoUnitYet DEF Begun
<1>5. Row(Rest, matched, <<>>, data, wire)
  BY <1>4, RestTyped
<1>6. Row(Rest', <<>>, <<>>, data', wire)
  BY <1>1, <1>2, <1>3, <1>4, RestIsNext
<1>7. TailOf(Rest', Rest, Len(matched) + 1)
  <2>1. /\ Places(Rest, matched, <<>>, data, wire) /\ Rest \in Seq(Octet) /\ Rest' \in Seq(Octet)
        /\ Places(Rest', <<>>, <<>>, data', wire)
    BY <1>5, <1>6 DEF Row
  <2>2. TailOf(Rest', Rest, Len(matched) + Len(<<>>) + 1)
    BY <1>2, <1>3, <1>4, <2>1, DropRow
  <2>3. Len(matched) \in Nat
    BY <1>2
  <2> QED BY <1>4, <2>2, <2>3
<1>8. HeldTypes'
  BY <1>1, <1>2, <1>3, <1>4, StreamAssumption DEF HeldTypes
<1>9. LookInv'
  BY <1>1, <1>4, NoErrorsInNothing DEF LookInv
<1> QED
  BY <1>7, <1>8, <1>9
LEMMA MarkerFoundTail ==
    ASSUME StreamTypeOK, LookInv, MarkerFound
    PROVE  /\ HeldTypes' /\ LookInv'
           /\ (delivered' = delivered /\ TailOf(Rest', Rest, 0)) \/ SendsOn
<1> DEFINE p == matched \o SubSeq(data, 1, Wanted)
           l == Lesser(Len(data), Wanted + ExpectedUnitLength)
           b == SubSeq(data, Wanted + 1, l)
           E == ExpectedUnitLength
<1>1. /\ data # <<>> /\ goodUnit = NoUnit /\ Len(data) >= Wanted /\ MarkerMatch /\ wire' = wire
      /\ data' = SubSeq(data, Wanted + Len(b) + 1, Len(data))
      /\ markerOffset' = 0 /\ currentBitErrors' = 0
      /\ IF Len(b) = E
         THEN delivered' = Append(delivered, [marker |-> p, data |-> b]) /\ matched' = <<>>
              /\ UNCHANGED goodUnit
         ELSE goodUnit' = b /\ matched' = p /\ UNCHANGED delivered
  BY DEF MarkerFound, Advance, Deliver
<1>2. /\ data \in Seq(Octet) /\ matched \in Seq(Octet) /\ wire \in Seq(Octet) /\ E \in Nat \ {0}
      /\ Len(matched) = markerOffset /\ currentBitErrors = MarkerErrors(matched)
      /\ Len(data) \in Nat /\ Compare = Wanted /\ Len(matched) + Wanted = Len(Marker)
      /\ Len(matched) \in Nat /\ Wanted \in 1..Len(data) /\ l \in Wanted..Len(data) /\ Wanted \in Nat
      /\ Len(wire) \in Nat /\ Len(Marker) \in Nat
  <2>1. /\ data \in Seq(Octet) /\ matched \in Seq(Octet) /\ wire \in Seq(Octet) /\ E \in Nat \ {0}
        /\ Len(matched) = markerOffset /\ currentBitErrors = MarkerErrors(matched) /\ Len(Marker) \in Nat
    BY <1>1, StreamAssumption DEF StreamTypeOK, LookInv
  <2>2. /\ Len(data) \in Nat /\ Compare = Wanted /\ Len(matched) + Wanted = Len(Marker)
        /\ Len(matched) \in Nat /\ Wanted \in 1..Len(data) /\ Wanted \in Nat /\ Len(wire) \in Nat
    BY <1>1, <2>1, LookTypes
  <2>3. l \in Wanted..Len(data)
    BY <2>1, <2>2 DEF Lesser
  <2> QED BY <2>1, <2>2, <2>3
<1>n. /\ E \in Nat \ {0} /\ Len(data) \in Nat /\ Len(matched) + Wanted = Len(Marker)
      /\ Len(matched) \in Nat /\ Wanted \in 1..Len(data) /\ l \in Wanted..Len(data) /\ Wanted \in Nat
      /\ Len(wire) \in Nat /\ Len(Marker) \in Nat
  BY <1>2
<1>3. l - Wanted < E => l = Len(data)
  BY <1>2 DEF Lesser
<1>4. l - Wanted <= E
  BY <1>2 DEF Lesser
<1> HIDE DEF l
<1>5. /\ b \in Seq(Octet) /\ Len(b) = l - Wanted /\ \A i \in 1..l - Wanted : b[i] = data[Wanted + i]
  <2>1. data \in Seq(Octet) /\ Wanted \in 0..Len(data) /\ l \in Wanted..Len(data)
    BY <1>2
  <2> HIDE DEF E
  <2> QED BY ONLY <2>1, PartAt
<1>6. /\ p \in Seq(Octet) /\ Len(p) = Len(Marker)
      /\ \A i \in 1..Len(Marker) : p[i] = IF i <= Len(matched) THEN matched[i] ELSE data[i - Len(matched)]
  <2> DEFINE h == SubSeq(data, 1, Wanted)
  <2>1. h \in Seq(Octet) /\ Len(h) = Wanted /\ \A i \in 1..Wanted : h[i] = data[i]
    BY <1>2, CutAt
  <2> HIDE DEF h
  <2>2. /\ matched \o h \in Seq(Octet) /\ Len(matched \o h) = Len(matched) + Len(h)
        /\ \A i \in 1..Len(matched) + Len(h) :
              (matched \o h)[i] = IF i <= Len(matched) THEN matched[i] ELSE h[i - Len(matched)]
    <3>1. matched \in Seq(Octet) /\ h \in Seq(Octet)
      BY <1>2, <2>1
    <3> QED BY ONLY <3>1, ConcatProperties
  <2>3. p = matched \o h
    BY DEF h
  <2> HIDE DEF p
  <2>4. p \in Seq(Octet) /\ Len(p) = Len(Marker)
    BY <1>n, <2>1, <2>2, <2>3
  <2>5. ASSUME NEW i \in 1..Len(Marker)
        PROVE  p[i] = IF i <= Len(matched) THEN matched[i] ELSE data[i - Len(matched)]
    <3>1. Len(h) = Wanted
      BY <2>1
    <3>2. i \in 1..Len(matched) + Len(h)
      BY ONLY <1>n, <3>1, i \in 1..Len(Marker)
    <3>3. p[i] = IF i <= Len(matched) THEN matched[i] ELSE h[i - Len(matched)]
      BY <2>2, <2>3, <3>2
    <3>4. ~(i <= Len(matched)) => i - Len(matched) \in 1..Wanted
      BY ONLY <1>n, <3>1, <3>2
    <3> QED BY <2>1, <3>3, <3>4
  <2> QED BY <2>4, <2>5
<1>7. MarkerErrors(p) <= AllowedMarkerBitErrors
  <2>1. MarkerErrors(p) = currentBitErrors + BitErrors[Compare]
    BY <1>2, PartsAddUp
  <2> QED BY <1>1, <2>1 DEF MarkerMatch
<1>m. Len(b) = l - Wanted /\ Len(p) = Len(Marker) /\ Len(<<>>) = 0
  BY <1>5, <1>6, NoUnitYet
<1> HIDE DEF b, p
<1>8. Begun = <<>> /\ <<>> \in Seq(Octet) /\ Len(<<>>) = 0
  BY <1>1, NoUnitYet DEF Begun
<1>9. Row(Rest, matched, <<>>, data, wire)
  BY <1>8, RestTyped
<1>10. /\ data' \in Seq(Octet) /\ Len(data') = Len(data) - l /\ \A i \in 1..Len(data) - l : data'[i] = data[l + i]
  <2>1. data' = SubSeq(data, l + 1, Len(data))
    BY <1>1, <1>2, <1>5
  <2>2. l \in 0..Len(data)
    BY <1>2
  <2> QED BY <1>2, <2>1, <2>2, CutAt
<1>11. CASE Len(b) = E
  <2>1. delivered' = Append(delivered, [marker |-> p, data |-> b]) /\ matched' = <<>> /\ goodUnit' = NoUnit
    BY <1>1, <1>11
  <2>2. Begun' = <<>>
    BY <2>1 DEF Begun
  <2>3. Row(Rest', <<>>, <<>>, data', wire)
    BY <1>1, <1>2, <1>8, <1>10, <2>1, <2>2, RestIsNext
  <2>4. TailOf(Rest', Rest, UnitLen)
    <3>1. /\ Places(Rest, matched, <<>>, data, wire) /\ Rest \in Seq(Octet) /\ Rest' \in Seq(Octet)
          /\ Places(Rest', <<>>, <<>>, data', wire) /\ l \in 0..Len(data)
      BY <1>2, <1>9, <2>3 DEF Row
    <3>2. TailOf(Rest', Rest, Len(matched) + Len(<<>>) + l)
      BY <1>8, <1>10, <3>1, DropRow
    <3>3. UnitLen = Len(matched) + Len(<<>>) + l
      BY ONLY <1>n, <1>m, <1>11 DEF UnitLen
    <3> QED BY <3>2, <3>3
  <2>5. HeldTypes'
    BY <1>1, <1>2, <1>8, <1>10, <2>1, StreamAssumption DEF HeldTypes
  <2>6. LookInv'
    BY <1>1, <1>8, <2>1, NoErrorsInNothing DEF LookInv
  <2>7. ASSUME NEW i \in 1..UnitLen PROVE Rest[i] = IF i <= Len(Marker) THEN p[i] ELSE b[i - Len(Marker)]
    <3>1. Places(Rest, matched, <<>>, data, wire)
      BY <1>9 DEF Row
    <3>2. /\ i \in 1..Len(matched) + 0 + Len(data) + Len(wire) /\ i \in Nat /\ i <= Len(matched) + Len(data)
          /\ l = Wanted + E /\ i <= Len(Marker) + E /\ Len(Marker) \in Nat
      BY <1>2, <1>5, <1>11 DEF UnitLen
    <3>3. Rest[i] = IF i <= Len(matched) THEN matched[i] ELSE data[i - Len(matched)]
      BY ONLY <1>2, <1>8, <3>1, <3>2 DEF Places
    <3>4. CASE i <= Len(Marker)
      BY <1>6, <3>2, <3>3, <3>4
    <3>5. CASE ~(i <= Len(Marker))
      <4>1. i - Len(Marker) \in 1..l - Wanted /\ Wanted + (i - Len(Marker)) = i - Len(matched) /\ ~(i <= Len(matched))
        BY ONLY <1>n, <3>2, <3>5
      <4> QED BY ONLY <1>5, <3>3, <3>5, <4>1
    <3> QED BY <3>4, <3>5
  <2>8. SendsOn
    BY <1>5, <1>6, <1>7, <1>11, <2>1, <2>4, <2>7 DEF SendsOn
  <2> QED BY <2>5, <2>6, <2>8
<1>12. CASE Len(b) # E
  <2>1. goodUnit' = b /\ matched' = p /\ delivered' = delivered /\ goodUnit' # NoUnit
    BY <1>1, <1>5, <1>12, NoUnitYet
  <2>2. Begun' = b
    BY <2>1 DEF Begun
  <2>3. l = Len(data) /\ Len(data') = 0 /\ Len(b) < E
    BY <1>2, <1>3, <1>4, <1>5, <1>10, <1>12
  <2>4. Row(Rest', p, b, data', wire)
    BY <1>1, <1>2, <1>5, <1>6, <1>10, <2>1, <2>2, RestIsNext
  <2>5. HeldTypes'
    BY <1>1, <1>2, <1>5, <1>6, <1>10, <2>1, StreamAssumption DEF HeldTypes
  <2>6. LookInv'
    BY <1>1, <1>6, <1>7, <2>1, <2>3 DEF LookInv
  <2>7. TailOf(Rest', Rest, 0)
    <3>1. /\ Places(Rest, matched, <<>>, data, wire) /\ Rest \in Seq(Octet) /\ Rest' \in Seq(Octet)
          /\ Places(Rest', p, b, data', wire)
      BY <1>9, <2>4 DEF Row
    <3>2. Len(p) + Len(b) = Len(matched) + Len(<<>>) + Len(data) /\ Len(Marker) \in Nat
      BY ONLY <1>n, <1>m, <2>3
    <3>3. ASSUME NEW i \in 1..Len(p) + Len(b)
          PROVE  (IF i <= Len(p) THEN p[i] ELSE b[i - Len(p)]) =
                    IF i <= Len(matched) THEN matched[i] ELSE IF i <= Len(matched) + Len(<<>>)
                    THEN <<>>[i - Len(matched)] ELSE data[i - Len(matched) - Len(<<>>)]
      <4>1. /\ i - Len(matched) - Len(<<>>) = i - Len(matched)
            /\ i <= Len(matched) + Len(<<>>) <=> i <= Len(matched)
            /\ i \in Nat /\ i > 0 /\ i <= Len(matched) + Len(data) /\ Len(p) = Len(Marker)
        BY <1>2, <1>6, <1>8, <3>2
      <4>2. CASE i <= Len(Marker)
        <5>1. i \in 1..Len(Marker)
          BY <3>2, <4>1, <4>2
        <5> QED BY ONLY <1>6, <4>1, <4>2, <5>1
      <4>3. CASE ~(i <= Len(Marker))
        <5>1. /\ i - Len(Marker) \in 1..l - Wanted
              /\ Wanted + (i - Len(Marker)) = i - Len(matched) /\ ~(i <= Len(matched))
          BY ONLY <1>n, <2>3, <3>2, <4>1, <4>3
        <5> QED BY ONLY <1>5, <4>1, <4>3, <5>1
      <4> QED BY <4>2, <4>3
    <3>4. Regrouped(p, b, matched, <<>>, data)
      BY ONLY <3>2, <3>3 DEF Regrouped
    <3> QED BY <2>3, <3>1, <3>4, KeepRow
  <2> QED BY <2>1, <2>5, <2>6, <2>7
<1> QED
  BY <1>11, <1>12
LEMMA ContinueUnitTail ==
    ASSUME StreamTypeOK, LookInv, ContinueUnit
    PROVE  /\ HeldTypes' /\ LookInv'
           /\ (delivered' = delivered /\ TailOf(Rest', Rest, 0)) \/ SendsOn
<1> DEFINE E == ExpectedUnitLength
           n == Lesser(Len(data), E - Len(goodUnit))
           h == SubSeq(data, 1, n)
           q == goodUnit \o h
<1>1. /\ data # <<>> /\ goodUnit # NoUnit /\ wire' = wire /\ data' = SubSeq(data, n + 1, Len(data))
      /\ markerOffset' = markerOffset /\ currentBitErrors' = currentBitErrors
      /\ IF Len(q) = E
         THEN delivered' = Append(delivered, [marker |-> matched, data |-> q])
              /\ goodUnit' = NoUnit /\ matched' = <<>>
         ELSE goodUnit' = q /\ UNCHANGED <<delivered, matched>>
  BY DEF ContinueUnit, Advance, Deliver
<1>2. /\ data \in Seq(Octet) /\ matched \in Seq(Octet) /\ wire \in Seq(Octet) /\ goodUnit \in Seq(Octet)
      /\ Begun = goodUnit /\ markerOffset \in 0..Len(Marker) - 1
      /\ Len(matched) = Len(Marker) /\ markerOffset = 0 /\ currentBitErrors = 0 /\ Len(goodUnit) < E
      /\ MarkerErrors(matched) <= AllowedMarkerBitErrors
  BY <1>1 DEF StreamTypeOK, LookInv, Begun
<1>n. /\ E \in Nat \ {0} /\ Len(data) \in Nat /\ Len(matched) = Len(Marker) /\ Len(goodUnit) < E
      /\ Len(goodUnit) \in Nat /\ Len(wire) \in Nat /\ Len(Marker) \in Nat
      /\ Len(matched) \in Nat /\ n \in 0..Len(data)
      /\ n <= E - Len(goodUnit) /\ n \in Nat
      /\ n < E - Len(goodUnit) => n = Len(data)
  <2>1. E \in Nat \ {0} /\ Len(Marker) \in Nat
    BY StreamAssumption
  <2>2. Len(data) \in Nat /\ Len(goodUnit) \in Nat /\ Len(wire) \in Nat /\ Len(matched) \in Nat
    BY <1>2
  <2> QED BY <1>2, <2>1, <2>2 DEF Lesser
<1> HIDE DEF n
<1>3. /\ h \in Seq(Octet) /\ Len(h) = n /\ \A i \in 1..n : h[i] = data[i]
      /\ data' \in Seq(Octet) /\ Len(data') = Len(data) - n /\ \A i \in 1..Len(data) - n : data'[i] = data[n + i]
  <2>1. data \in Seq(Octet) /\ n \in 0..Len(data)
    BY <1>2, <1>n
  <2>2. /\ h \in Seq(Octet) /\ Len(h) = n /\ \A i \in 1..n : h[i] = data[i]
        /\ SubSeq(data, n + 1, Len(data)) \in Seq(Octet) /\ Len(SubSeq(data, n + 1, Len(data))) = Len(data) - n
        /\ \A i \in 1..Len(data) - n : SubSeq(data, n + 1, Len(data))[i] = data[n + i]
    BY ONLY <2>1, CutAt
  <2> QED BY ONLY <1>1, <2>2
<1> HIDE DEF h
<1>4. /\ q \in Seq(Octet) /\ Len(q) = Len(goodUnit) + n
      /\ \A i \in 1..Len(goodUnit) + n : q[i] = IF i <= Len(goodUnit) THEN goodUnit[i] ELSE data[i - Len(goodUnit)]
  <2>1. goodUnit \in Seq(Octet) /\ h \in Seq(Octet)
    BY <1>2, <1>3
  <2>2. /\ q \in Seq(Octet) /\ Len(q) = Len(goodUnit) + Len(h)
        /\ \A i \in 1..Len(goodUnit) + Len(h) :
              q[i] = IF i <= Len(goodUnit) THEN goodUnit[i] ELSE h[i - Len(goodUnit)]
    BY ONLY <2>1, ConcatProperties
  <2> HIDE DEF q
  <2>3. ASSUME NEW i \in 1..Len(goodUnit) + n
        PROVE  q[i] = IF i <= Len(goodUnit) THEN goodUnit[i] ELSE data[i - Len(goodUnit)]
    <3>1. ~(i <= Len(goodUnit)) => i - Len(goodUnit) \in 1..n
      BY ONLY <1>n, i \in 1..Len(goodUnit) + n
    <3>2. q[i] = IF i <= Len(goodUnit) THEN goodUnit[i] ELSE h[i - Len(goodUnit)]
      BY <1>3, <2>2
    <3> QED BY <1>3, <3>1, <3>2
  <2> QED BY <1>3, <2>2, <2>3
<1>m. Len(q) = Len(goodUnit) + n /\ Len(<<>>) = 0 /\ <<>> \in Seq(Octet)
  BY <1>4, NoUnitYet
<1> HIDE DEF q
<1>5. Row(Rest, matched, goodUnit, data, wire)
  BY <1>2, RestTyped
<1>6. CASE Len(q) = E
  <2>1. /\ delivered' = Append(delivered, [marker |-> matched, data |-> q]) /\ goodUnit' = NoUnit
        /\ matched' = <<>> /\ Begun' = <<>>
    BY <1>1, <1>6 DEF Begun
  <2>2. Row(Rest', <<>>, <<>>, data', wire)
    BY <1>1, <1>2, <1>3, <1>m, <2>1, RestIsNext
  <2>3. TailOf(Rest', Rest, UnitLen)
    <3>1. /\ Places(Rest, matched, goodUnit, data, wire) /\ Rest \in Seq(Octet) /\ Rest' \in Seq(Octet)
          /\ Places(Rest', <<>>, <<>>, data', wire) /\ n \in 0..Len(data) /\ Len(<<>>) = 0
      BY <1>n, <1>m, <1>5, <2>2 DEF Row
    <3>2. TailOf(Rest', Rest, Len(matched) + Len(goodUnit) + n)
      BY <1>3, <3>1, DropRow
    <3>3. UnitLen = Len(matched) + Len(goodUnit) + n
      BY ONLY <1>n, <1>m, <1>6 DEF UnitLen
    <3> QED BY <3>2, <3>3
  <2>4. HeldTypes'
    BY <1>1, <1>2, <1>3, <1>m, <2>1, StreamAssumption DEF HeldTypes
  <2>5. LookInv'
    BY <1>1, <1>2, <1>m, <2>1, NoErrorsInNothing DEF LookInv
  <2>6. ASSUME NEW i \in 1..UnitLen PROVE Rest[i] = IF i <= Len(Marker) THEN matched[i] ELSE q[i - Len(Marker)]
    <3>1. Places(Rest, matched, goodUnit, data, wire)
      BY <1>5 DEF Row
    <3>2. i \in 1..Len(Marker) + E
      BY DEF UnitLen
    <3>3. /\ i \in 1..Len(matched) + Len(goodUnit) + Len(data) + Len(wire) /\ i \in Nat /\ i > 0
          /\ i <= Len(matched) + Len(goodUnit) + Len(data) /\ n = E - Len(goodUnit)
      BY ONLY <1>n, <1>m, <1>6, <3>2
    <3>4. Rest[i] = IF i <= Len(matched) THEN matched[i]
                    ELSE IF i <= Len(matched) + Len(goodUnit) THEN goodUnit[i - Len(matched)]
                    ELSE data[i - Len(matched) - Len(goodUnit)]
      BY ONLY <3>1, <3>3 DEF Places
    <3>5. ~(i <= Len(matched)) => /\ i - Len(matched) \in 1..Len(goodUnit) + n
                                  /\ i - Len(matched) <= Len(goodUnit) <=> i <= Len(matched) + Len(goodUnit)
      BY ONLY <1>n, <3>2, <3>3
    <3> QED BY ONLY <1>n, <1>4, <3>4, <3>5
  <2>7. SendsOn
    BY <1>2, <1>4, <1>6, <2>1, <2>3, <2>6 DEF SendsOn
  <2> QED BY <2>4, <2>5, <2>7
<1>7. CASE Len(q) # E
  <2>1. goodUnit' = q /\ matched' = matched /\ delivered' = delivered /\ goodUnit' # NoUnit /\ Begun' = q
    BY <1>1, <1>4, <1>7, NoUnitYet DEF Begun
  <2>2. n = Len(data) /\ Len(data') = 0 /\ Len(q) < E
    <3>1. Len(data') = Len(data) - n
      BY <1>3
    <3> QED BY ONLY <1>n, <1>m, <1>7, <3>1
  <2>3. Row(Rest', matched, q, data', wire)
    BY <1>1, <1>2, <1>3, <1>4, <2>1, RestIsNext
  <2>4. HeldTypes'
    BY <1>1, <1>2, <1>3, <1>4, <2>1, StreamAssumption DEF HeldTypes
  <2>5. LookInv'
    BY <1>1, <1>2, <2>1, <2>2 DEF LookInv
  <2>6. TailOf(Rest', Rest, 0)
    <3>1. /\ Places(Rest, matched, goodUnit, data, wire) /\ Rest \in Seq(Octet) /\ Rest' \in Seq(Octet)
          /\ Places(Rest', matched, q, data', wire)
      BY <1>5, <2>3 DEF Row
    <3>2. Len(matched) + Len(q) = Len(matched) + Len(goodUnit) + Len(data)
      BY ONLY <1>n, <1>m, <2>2
    <3>3. ASSUME NEW i \in 1..Len(matched) + Len(q)
          PROVE  (IF i <= Len(matched) THEN matched[i] ELSE q[i - Len(matched)]) =
                    IF i <= Len(matched) THEN matched[i] ELSE IF i <= Len(matched) + Len(goodUnit)
                    THEN goodUnit[i - Len(matched)] ELSE data[i - Len(matched) - Len(goodUnit)]
      <4>1. ~(i <= Len(matched)) => /\ i - Len(matched) \in 1..Len(goodUnit) + n
                                    /\ i - Len(matched) <= Len(goodUnit) <=> i <= Len(matched) + Len(goodUnit)
        BY ONLY <1>n, <1>m, i \in 1..Len(matched) + Len(q)
      <4> QED BY ONLY <1>4, <4>1
    <3>4. Regrouped(matched, q, matched, goodUnit, data)
      BY ONLY <3>2, <3>3 DEF Regrouped
    <3> QED BY <2>2, <3>1, <3>4, KeepRow
  <2> QED BY <2>1, <2>4, <2>5, <2>6
<1> QED
  BY <1>6, <1>7
-----------------------------------------------------------------------------
(* The order of the octets.                                                *)

LEMMA LengthsAre ==
    /\ Len(Marker) \in Nat \ {0} /\ ExpectedUnitLength \in Nat \ {0} /\ UnitLen \in Nat
    /\ UnitLen = Len(Marker) + ExpectedUnitLength /\ AllowedMarkerBitErrors \in Nat
BY StreamAssumption DEF UnitLen

LEMMA OctetIs == \A o \in Octet : o.unit \in Nat /\ o.k \in Nat /\ o.flipped \in 0..1
BY DEF Octet

\* The rest of a unit follows each of its octets.
LEMMA RunFrom ==
    ASSUME NEW s \in Seq(Octet), NEW m, AsSent(s, m), NEW a \in 1..Len(s)
    PROVE  \A j \in 0..UnitLen - s[a].k :
              a + j \in 1..Len(s) /\ s[a + j].unit = s[a].unit /\ s[a + j].k = s[a].k + j
<1> DEFINE l == UnitLen - s[a].k
           T == {j \in 0..l : a + j \in 1..Len(s) /\ s[a + j].unit = s[a].unit /\ s[a + j].k = s[a].k + j}
<1>1. /\ s[a].k \in 1..UnitLen /\ UnitLen \in Nat /\ Len(s) \in Nat /\ l \in Nat
      /\ a \in Nat /\ s[a].unit \in Nat
  BY LengthsAre, OctetIs DEF AsSent
<1>2. 0 \in T
  <2>1. a + 0 = a /\ s[a].k + 0 = s[a].k
    BY <1>1
  <2> QED BY <1>1, <2>1
<1>3. ASSUME NEW j \in 1..l, j - 1 \in T PROVE j \in T
  <2> DEFINE b == a + (j - 1)
  <2>1. b \in 1..Len(s) /\ s[b].unit = s[a].unit /\ s[b].k = s[a].k + (j - 1)
    BY <1>3
  <2>2. b + 1 = a + j /\ j \in Nat /\ s[b].k < UnitLen
    BY <1>1, <2>1
  <2> HIDE DEF b
  <2>3. b < Len(s)
    BY <1>1, <2>1, <2>2 DEF AsSent
  <2>4. Adjacent(s[b], s[b + 1])
    BY <2>1, <2>3 DEF AsSent
  <2>5. s[b + 1].unit = s[b].unit /\ s[b + 1].k = s[b].k + 1
    BY <1>1, <2>2, <2>4, LengthsAre DEF Adjacent
  <2>6. s[a].k + (j - 1) + 1 = s[a].k + j /\ b + 1 \in 1..Len(s)
    BY <1>1, <2>1, <2>2, <2>3
  <2>7. s[a + j].unit = s[a].unit /\ s[a + j].k = s[a].k + j /\ a + j \in 1..Len(s)
    BY <2>1, <2>2, <2>5, <2>6
  <2> QED BY <2>7
<1> HIDE DEF T
<1>4. \A j \in 0..l : j \in T
  <2> HIDE DEF l
  <2> QED BY <1>1, <1>2, <1>3, UpTo
<1> QED
  BY <1>4 DEF T

LEMMA TailSent ==
    ASSUME NEW s, NEW t, NEW n, NEW m, TailOf(t, s, n), AsSent(s, m)
    PROVE  AsSent(t, m)
<1>1. /\ n \in Nat /\ Len(s) \in Nat /\ Len(t) \in Nat /\ Len(s) = n + Len(t)
      /\ \A i \in 1..Len(t) : t[i] = s[n + i]
  BY DEF TailOf
<1>2. ASSUME NEW i \in 1..Len(t)
      PROVE  /\ t[i].unit \in 1..m /\ t[i].k \in 1..UnitLen
             /\ t[i].k <= Len(Marker) => t[i].byte = Marker[t[i].k]
             /\ i < Len(t) => Adjacent(t[i], t[i + 1])
             /\ i = Len(t) => t[i].unit = m /\ t[i].k = UnitLen
  <2>1. n + i \in 1..Len(s) /\ t[i] = s[n + i]
    BY <1>1
  <2>2. i < Len(t) => n + i < Len(s) /\ t[i + 1] = s[(n + i) + 1]
    <3>1. n + (i + 1) = (n + i) + 1
      BY <1>1
    <3>2. i < Len(t) => i + 1 \in 1..Len(t) /\ n + i < Len(s)
      BY ONLY <1>1, i \in 1..Len(t)
    <3> QED BY <1>1, <3>1, <3>2
  <2>3. i = Len(t) => n + i = Len(s)
    BY <1>1
  <2> QED BY <2>1, <2>2, <2>3 DEF AsSent
<1> QED
  BY <1>2 DEF AsSent

LEMMA TailRecount ==
    ASSUME NEW s, NEW t, NEW n, NEW m, NEW h, TailOf(t, s, n), AsSent(s, m), Recount(s, h)
    PROVE  Recount(t, h)
<1>1. /\ n \in Nat /\ Len(s) \in Nat /\ Len(t) \in Nat /\ Len(s) = n + Len(t) /\ s \in Seq(Octet)
      /\ t \in Seq(Octet) /\ \A i \in 1..Len(t) : t[i] = s[n + i]
  BY DEF TailOf
<1>2. ASSUME NEW a \in 1..Len(t), t[a].k = 1
      PROVE  \E f : Flips(t, a, f) /\ f[Len(Marker)] <= h[t[a].unit]
  <2>1. n + a \in 1..Len(s) /\ t[a] = s[n + a]
    BY <1>1
  <2>2. PICK f : Flips(s, n + a, f) /\ f[Len(Marker)] <= h[t[a].unit]
    BY <1>2, <2>1 DEF Recount
  <2>3. ASSUME NEW i \in 1..Len(Marker) PROVE s[n + a + i - 1] = t[a + i - 1]
    <3>1. i - 1 \in 0..UnitLen - 1
      BY LengthsAre
    <3>2. AsSent(t, m)
      BY TailSent
    <3>3. a + (i - 1) \in 1..Len(t)
      BY <1>1, <1>2, <3>1, <3>2, RunFrom
    <3>4. n + a + i - 1 = n + (a + i - 1) /\ a + i - 1 = a + (i - 1)
      BY <1>1, LengthsAre
    <3> QED BY <1>1, <3>3, <3>4
  <2>4. Flips(t, a, f)
    BY <2>2, <2>3 DEF Flips
  <2> QED BY <2>2, <2>4
<1> QED
  BY <1>2 DEF Recount

LEMMA UnitsSentType ==
    ASSUME StreamTypeOK
    PROVE  sent \in Nat /\ delivered \in Seq([marker : Seq(Octet), data : Seq(Octet)]) /\ Rest \in Seq(Octet)
BY RestTyped, StreamAssumption DEF StreamTypeOK, Row

LEMMA MarkerHitsType ==
    ASSUME StreamTypeOK PROVE \A u \in 1..sent : u \in 1..MaxUnits /\ markerHits[u] \in Nat /\ sent <= MaxUnits
BY StreamAssumption DEF StreamTypeOK

\* A readable marker is not missed.
LEMMA ReadableMatches ==
    ASSUME StreamTypeOK, AsSent(Rest, sent), Recount(Rest, markerHits), LookInv, StepInv,
           goodUnit = NoUnit, data # <<>>, \A u \in 1..sent : Readable(u)
    PROVE  MarkerMatch
<1> DEFINE b == SubSeq(data, 1, Compare)
           s == matched \o b
           c == Len(matched) + Compare
<1>1. /\ data \in Seq(Octet) /\ matched \in Seq(Octet) /\ Len(matched) = markerOffset
      /\ currentBitErrors = MarkerErrors(matched) /\ Begun = <<>> /\ Rest \in Seq(Octet)
      /\ Places(Rest, matched, <<>>, data, wire) /\ Len(<<>>) = 0 /\ Len(data) > 0
  BY RestTyped, BegunType, NoUnitYet DEF StreamTypeOK, LookInv, Row
<1>2. /\ Len(data) \in Nat /\ Compare \in 0..Len(data) /\ Compare \in Nat /\ Len(matched) \in Nat
      /\ c \in 0..Len(Marker) /\ Len(wire) \in Nat /\ Len(Rest) = Len(matched) + Len(data) + Len(wire)
      /\ Len(Marker) \in Nat
  <2>1. /\ Len(data) \in Nat /\ Compare \in 0..Len(data) /\ Compare \in Nat /\ markerOffset + Compare <= Len(Marker)
    <3>1. /\ Len(data) \in Nat /\ Wanted \in 1..Len(Marker) /\ markerOffset + Wanted = Len(Marker)
          /\ Compare \in 0..Len(data) /\ Compare \in 0..Wanted
      BY LookTypes
    <3>2. markerOffset \in Nat /\ Len(Marker) \in Nat
      BY LengthsAre DEF StreamTypeOK
    <3> QED BY ONLY <3>1, <3>2
  <2>2. Len(matched) \in Nat /\ Len(wire) \in Nat /\ Len(Rest) = Len(matched) + Len(data) + Len(wire)
    BY ONLY <1>1 DEF Places
  <2> QED BY <1>1, <2>1, <2>2, LengthsAre
<1>3. /\ s \in Seq(Octet) /\ Len(s) = c /\ MarkerErrors(s) = currentBitErrors + BitErrors[Compare]
      /\ \A i \in 1..c : s[i] = Rest[i]
  <2>1. b \in Seq(Octet) /\ Len(b) = Compare /\ \A i \in 1..Compare : b[i] = data[i]
    BY ONLY <1>1, <1>2, CutAt
  <2>2. MarkerErrors(s) = currentBitErrors + BitErrors[Compare]
    BY <1>1, PartsAddUp
  <2> HIDE DEF b
  <2>3. /\ s \in Seq(Octet) /\ Len(s) = Len(matched) + Len(b)
        /\ \A i \in 1..Len(matched) + Len(b) : s[i] = IF i <= Len(matched) THEN matched[i] ELSE b[i - Len(matched)]
    <3>1. matched \in Seq(Octet) /\ b \in Seq(Octet)
      BY <1>1, <2>1
    <3> QED BY ONLY <3>1, ConcatProperties
  <2> HIDE DEF s
  <2>4. ASSUME NEW i \in 1..c PROVE s[i] = Rest[i]
    <3>1. Len(b) = Compare
      BY <2>1
    <3>2. /\ i \in 1..Len(matched) + 0 + Len(data) + Len(wire) /\ i <= Len(matched) + 0 + Len(data)
          /\ i \in 1..Len(matched) + Len(b)
          /\ ~(i <= Len(matched)) => i - Len(matched) \in 1..Compare
          /\ i - Len(matched) - 0 = i - Len(matched)
          /\ i <= Len(matched) + 0 <=> i <= Len(matched)
      BY ONLY <1>2, <3>1, i \in 1..c
    <3>3. Rest[i] = IF i <= Len(matched) THEN matched[i] ELSE data[i - Len(matched)]
      BY ONLY <1>1, <3>2 DEF Places
    <3>4. s[i] = IF i <= Len(matched) THEN matched[i] ELSE b[i - Len(matched)]
      BY <2>3, <3>2
    <3> QED BY <2>1, <3>2, <3>3, <3>4
  <2> QED BY <2>1, <2>2, <2>3, <2>4
<1> HIDE DEF s, b
<1>4. 1 \in 1..Len(Rest) /\ Rest # <<>>
  BY <1>1, <1>2
<1>5. Rest[1].k = 1 /\ Rest[1].unit \in 1..sent
  BY <1>4 DEF StepInv, AsSent
<1>6. PICK g : Flips(Rest, 1, g) /\ g[Len(Marker)] <= markerHits[Rest[1].unit]
  BY <1>4, <1>5 DEF Recount
<1>7. g[Len(Marker)] <= AllowedMarkerBitErrors
  <2>1. markerHits[Rest[1].unit] <= AllowedMarkerBitErrors /\ markerHits[Rest[1].unit] \in Nat
    BY <1>5, MarkerHitsType DEF Readable
  <2>2. g[Len(Marker)] \in Nat /\ AllowedMarkerBitErrors \in Nat
    BY <1>6, LengthsAre DEF Flips
  <2> QED BY <1>6, <2>1, <2>2
<1>8. PICK f : ErrorSums(s, f) /\ MarkerErrors(s) = f[c]
  BY <1>3, MarkerErrorsIs
<1>9. ASSUME NEW n \in 1..Len(Marker) PROVE 1 + n - 1 = n /\ Rest[n].k = n /\ Rest[n] \in Octet
  <2>1. n - 1 \in 0..UnitLen - 1 /\ 1 + (n - 1) = n
    BY LengthsAre
  <2>2. 1 + (n - 1) \in 1..Len(Rest) /\ Rest[1 + (n - 1)].k = 1 + (n - 1)
    BY <1>1, <1>4, <1>5, <2>1, RunFrom
  <2> QED BY <1>1, <2>1, <2>2
<1>10. ASSUME NEW n \in 1..c PROVE OctetErrors(s[n], Marker[n]) = Rest[1 + n - 1].flipped
  <2>1. n \in 1..Len(Marker) /\ n \in 1..Len(Rest)
    BY <1>2
  <2>2. Rest[n].byte = Marker[n]
    BY <1>9, <2>1 DEF AsSent
  <2> QED BY <1>3, <1>9, <2>1, <2>2 DEF OctetErrors
<1>11. g \in [0..Len(Marker) -> Nat] /\ g[0] = 0
       /\ \A n \in 1..Len(Marker) : g[n] = g[n - 1] + Rest[1 + n - 1].flipped
  BY <1>6 DEF Flips
<1>12. Parallel(f, g, c, 0)
  <2>1. f \in [0..c -> Nat] /\ f[0] = 0 /\ \A n \in 1..c : f[n] = f[n - 1] + OctetErrors(s[n], Marker[n])
    BY <1>3, <1>8 DEF ErrorSums
  <2>2. \A n \in 0..c : 0 + n = n /\ n \in 0..Len(Marker) /\ g[0 + n] \in Nat
    BY <1>2, <1>11
  <2>3. ASSUME NEW n \in 1..c PROVE f[n] - f[n - 1] = g[0 + n] - g[0 + n - 1]
    <3>1. n \in 0..c /\ n - 1 \in 0..c /\ 0 + n = n /\ 0 + n - 1 = n - 1
          /\ n \in 1..Len(Marker) /\ n - 1 \in 0..Len(Marker)
      BY <1>2
    <3>2. f[n] \in Nat /\ f[n - 1] \in Nat /\ g[n] \in Nat /\ g[n - 1] \in Nat
      BY <1>11, <2>1, <3>1
    <3>3. f[n] = f[n - 1] + Rest[1 + n - 1].flipped /\ g[n] = g[n - 1] + Rest[1 + n - 1].flipped
      BY <1>10, <1>11, <2>1, <3>1
    <3>4. Rest[1 + n - 1].flipped \in Nat
      BY <1>9, <3>1, OctetIs
    <3> HIDE DEF c
    <3> QED BY ONLY <3>1, <3>2, <3>3, <3>4
  <2> HIDE DEF c
  <2> QED BY <2>1, <2>2, <2>3 DEF Parallel
<1>13. f[c] = g[c]
  <2>1. g[0 + c] = g[0] + f[c] /\ c \in 0..c /\ f[c] \in Nat
    <3>1. c \in Nat /\ c \in 0..c
      BY <1>2
    <3>2. f[c] \in Nat
      BY <1>12, <3>1 DEF Parallel
    <3> HIDE DEF c
    <3> QED BY <1>12, <3>1, <3>2, SameSums
  <2> QED BY <1>2, <1>11, <2>1
<1>14. g[c] <= g[Len(Marker)]
  <2>1. ASSUME NEW n \in 1..Len(Marker) PROVE g[n - 1] <= g[n]
    <3>1. n \in 0..Len(Marker) /\ n - 1 \in 0..Len(Marker)
      BY <1>2
    <3>2. g[n] \in Nat /\ g[n - 1] \in Nat /\ Rest[1 + n - 1].flipped \in Nat
      BY <1>9, <1>11, <3>1, OctetIs
    <3>3. g[n] = g[n - 1] + Rest[1 + n - 1].flipped
      BY <1>11
    <3> QED BY <3>2, <3>3
  <2> HIDE DEF c
  <2> QED BY <1>2, <1>11, <2>1, SumsGrow
<1> QED
  <2>1. g[c] \in Nat /\ g[Len(Marker)] \in Nat /\ AllowedMarkerBitErrors \in Nat
    BY <1>2, <1>11, LengthsAre
  <2>2. g[c] <= AllowedMarkerBitErrors
    BY <1>7, <1>14, <2>1
  <2> QED BY <1>3, <1>8, <1>13, <2>2 DEF MarkerMatch
-----------------------------------------------------------------------------
(* The invariant, step by step.                                            *)

\* Octets passed over, or only moved.
LEMMA TailKeeps ==
    ASSUME StreamInv, UNCHANGED <<sent, hits, markerHits, delivered>>, HeldTypes', LookInv',
           NEW n, TailOf(Rest', Rest, n), (\A u \in 1..sent : Readable(u)) => n = 0
    PROVE  StreamInv'
<1>1. StreamTypeOK' /\ Framed' /\ HitsCounted'
  <2>1. StreamTypeOK /\ Framed /\ HitsCounted
    BY DEF StreamInv
  <2>2. StreamTypeOK'
    BY <2>1 DEF StreamTypeOK, HeldTypes
  <2>3. Framed'
    BY <2>1 DEF Framed
  <2>4. HitsCounted'
    BY <2>1 DEF HitsCounted
  <2> QED BY <2>2, <2>3, <2>4
<1>2. AsSent(Rest', sent') /\ Recount(Rest', markerHits')
  BY TailSent, TailRecount DEF StreamInv
<1>3. StepInv'
  <2> SUFFICES ASSUME \A u \in 1..sent : Readable(u)
               PROVE  /\ \A i \in DOMAIN delivered : /\ delivered[i].data[1].unit = i
                                                     /\ delivered[i].data[1].k = Len(Marker) + 1
                      /\ Rest' = <<>> => Len(delivered) = sent
                      /\ Rest' # <<>> => Rest'[1].unit = Len(delivered) + 1 /\ Rest'[1].k = 1
    BY DEF StepInv, Readable
  <2>1. /\ \A i \in DOMAIN delivered : /\ delivered[i].data[1].unit = i
                                       /\ delivered[i].data[1].k = Len(Marker) + 1
        /\ Rest = <<>> => Len(delivered) = sent
        /\ Rest # <<>> => Rest[1].unit = Len(delivered) + 1 /\ Rest[1].k = 1
    BY DEF StreamInv, StepInv
  <2>2. n = 0
    OBVIOUS
  <2>3. /\ Rest \in Seq(Octet) /\ Rest' \in Seq(Octet) /\ Len(Rest) = 0 + Len(Rest')
        /\ \A i \in 1..Len(Rest') : Rest'[i] = Rest[0 + i]
    BY <2>2 DEF TailOf
  <2>4. (Rest' = <<>>) <=> (Rest = <<>>)
    BY <2>3
  <2>5. Rest' # <<>> => Rest'[1] = Rest[1]
    <3>1. Rest' # <<>> => 1 \in 1..Len(Rest') /\ 0 + 1 = 1
      BY <2>3
    <3> QED BY <2>3, <3>1
  <2> QED BY <2>1, <2>4, <2>5
<1> QED
  BY <1>1, <1>2, <1>3 DEF StreamInv

LEMMA AppendedAt ==
    ASSUME NEW S, NEW s \in Seq(S), NEW x \in S
    PROVE  /\ Append(s, x) \in Seq(S) /\ Len(Append(s, x)) = Len(s) + 1 /\ Len(s) \in Nat
           /\ \A i \in 1..Len(s) : Append(s, x)[i] = s[i]
           /\ Append(s, x)[Len(s) + 1] = x
           /\ DOMAIN Append(s, x) = 1..Len(s) + 1 /\ DOMAIN s = 1..Len(s)
OBVIOUS

\* A unit sent on is the next one of the stream.
LEMMA SendKeepsStream ==
    ASSUME StreamInv, UNCHANGED <<sent, hits, markerHits>>, HeldTypes', LookInv', SendsOn
    PROVE  StreamInv'
<1>1. PICK p \in Seq(Octet), q \in Seq(Octet) :
         /\ Len(p) = Len(Marker) /\ Len(q) = ExpectedUnitLength
         /\ \A i \in 1..UnitLen : Rest[i] = IF i <= Len(Marker) THEN p[i] ELSE q[i - Len(Marker)]
         /\ MarkerErrors(p) <= AllowedMarkerBitErrors
         /\ delivered' = Append(delivered, [marker |-> p, data |-> q])
         /\ TailOf(Rest', Rest, UnitLen)
  BY DEF SendsOn
<1> DEFINE D == [marker : Seq(Octet), data : Seq(Octet)]
           x == [marker |-> p, data |-> q]
           d == Len(delivered)
<1>2. x \in D /\ x.marker = p /\ x.data = q
  OBVIOUS
<1>3. delivered \in Seq(D) /\ delivered' = Append(delivered, x)
  BY <1>1, UnitsSentType DEF StreamInv
<1>4. /\ delivered' \in Seq(D) /\ d \in Nat /\ \A i \in 1..d : delivered'[i] = delivered[i]
      /\ delivered'[d + 1] = x /\ DOMAIN delivered' = 1..d + 1 /\ DOMAIN delivered = 1..d /\ Len(delivered') = d + 1
  <2> HIDE DEF D, x
  <2> QED BY <1>2, <1>3, AppendedAt
<1> HIDE DEF x
<1>5. StreamTypeOK'
  <2>1. StreamTypeOK
    BY DEF StreamInv
  <2> QED BY <1>4, <2>1 DEF StreamTypeOK, HeldTypes
<1>6. /\ AsSent(Rest, sent) /\ AsSent(Rest', sent') /\ Recount(Rest', markerHits')
      /\ Rest \in Seq(Octet) /\ Rest' \in Seq(Octet) /\ Len(Rest) = UnitLen + Len(Rest')
      /\ Len(Rest) \in Nat /\ Len(Rest') \in Nat
      /\ \A i \in 1..Len(Rest') : Rest'[i] = Rest[UnitLen + i]
  <2>1. TailOf(Rest', Rest, UnitLen) /\ AsSent(Rest, sent) /\ Recount(Rest, markerHits)
    BY <1>1 DEF StreamInv
  <2>2. AsSent(Rest', sent) /\ Recount(Rest', markerHits)
    BY <2>1, TailSent, TailRecount
  <2>3. /\ Rest \in Seq(Octet) /\ Rest' \in Seq(Octet) /\ Len(Rest) = UnitLen + Len(Rest')
        /\ \A i \in 1..Len(Rest') : Rest'[i] = Rest[UnitLen + i]
    BY <2>1 DEF TailOf
  <2>4. Len(Rest) \in Nat /\ Len(Rest') \in Nat
    BY <2>3
  <2> QED BY <2>1, <2>2, <2>3, <2>4
<1>7. Framed'
  <2>1. ASSUME NEW i \in 1..d + 1
        PROVE  LET run == delivered'[i].marker \o delivered'[i].data IN
               /\ Len(delivered'[i].marker) = Len(Marker)
               /\ Len(delivered'[i].data) = ExpectedUnitLength
               /\ \A j \in 1..Len(run) - 1 : Adjacent(run[j], run[j + 1])
               /\ MarkerErrors(delivered'[i].marker) <= AllowedMarkerBitErrors
    <3>1. CASE i \in 1..d
      BY <1>4, <3>1 DEF StreamInv, Framed
    <3>2. CASE i \notin 1..d
      <4>1. i = d + 1
        BY <1>4, <3>2
      <4>2. delivered'[i].marker = p /\ delivered'[i].data = q
        BY <1>2, <1>4, <4>1
      <4> DEFINE r == p \o q
      <4>3. /\ Len(r) = Len(p) + Len(q)
            /\ \A j \in 1..Len(p) + Len(q) : r[j] = IF j <= Len(p) THEN p[j] ELSE q[j - Len(p)]
        BY ONLY p \in Seq(Octet), q \in Seq(Octet), ConcatProperties
      <4> HIDE DEF r
      <4>4. Len(r) = UnitLen /\ \A j \in 1..UnitLen : r[j] = Rest[j]
        BY <1>1, <4>3, LengthsAre
      <4>5. ASSUME NEW j \in 1..Len(r) - 1 PROVE Adjacent(r[j], r[j + 1])
        <5>1. j \in 1..UnitLen /\ j + 1 \in 1..UnitLen /\ j \in 1..Len(Rest) /\ j < Len(Rest)
          BY <1>6, <4>4, LengthsAre
        <5> QED BY <1>6, <4>4, <5>1 DEF AsSent
      <4> QED BY <1>1, <4>2, <4>5 DEF r
    <3> QED BY <3>1, <3>2
  <2> QED BY <1>4, <2>1 DEF Framed
<1>8. StepInv'
  <2> SUFFICES ASSUME \A u \in 1..sent : Readable(u)
               PROVE  /\ \A i \in DOMAIN delivered' : /\ delivered'[i].data[1].unit = i
                                                      /\ delivered'[i].data[1].k = Len(Marker) + 1
                      /\ Rest' = <<>> => Len(delivered') = sent
                      /\ Rest' # <<>> => Rest'[1].unit = Len(delivered') + 1 /\ Rest'[1].k = 1
    BY DEF StepInv, Readable
  <2>1. 1 \in 1..Len(Rest) /\ Rest # <<>> /\ UnitLen \in 1..Len(Rest)
    BY <1>6, LengthsAre
  <2>2. /\ \A i \in DOMAIN delivered : /\ delivered[i].data[1].unit = i
                                       /\ delivered[i].data[1].k = Len(Marker) + 1
        /\ Rest[1].unit = d + 1 /\ Rest[1].k = 1
    BY <2>1 DEF StreamInv, StepInv
  <2>3. ASSUME NEW i \in 1..UnitLen PROVE Rest[i].unit = d + 1 /\ Rest[i].k = i
    <3>1. i - 1 \in 0..UnitLen - Rest[1].k /\ 1 + (i - 1) = i
      BY <2>2, LengthsAre
    <3>2. Rest[1 + (i - 1)].unit = Rest[1].unit /\ Rest[1 + (i - 1)].k = Rest[1].k + (i - 1)
      BY <1>6, <2>1, <3>1, RunFrom
    <3> QED BY <2>2, <3>1, <3>2
  <2>4. q[1].unit = d + 1 /\ q[1].k = Len(Marker) + 1
    <3>1. Len(Marker) + 1 \in 1..UnitLen /\ ~(Len(Marker) + 1 <= Len(Marker)) /\ Len(Marker) + 1 - Len(Marker) = 1
      BY LengthsAre
    <3>2. Rest[Len(Marker) + 1] = q[1]
      BY <1>1, <3>1
    <3> QED BY <2>3, <3>1, <3>2
  <2>5. ASSUME NEW i \in DOMAIN delivered'
        PROVE  delivered'[i].data[1].unit = i /\ delivered'[i].data[1].k = Len(Marker) + 1
    <3>1. CASE i \in 1..d
      BY <1>4, <2>2, <3>1
    <3>2. CASE i \notin 1..d
      <4>1. i = d + 1
        BY <1>4, <3>2
      <4> QED BY <1>2, <1>4, <2>4, <4>1
    <3> QED BY <3>1, <3>2
  <2>6. Rest' = <<>> => Len(delivered') = sent
    <3> SUFFICES ASSUME Rest' = <<>> PROVE d + 1 = sent
      BY <1>4
    <3>1. UnitLen = Len(Rest)
      BY <1>6, LengthsAre
    <3>2. Rest[UnitLen].unit = sent
      BY <1>6, <2>1, <3>1 DEF AsSent
    <3> QED BY <2>1, <2>3, <3>2, LengthsAre
  <2>7. Rest' # <<>> => Rest'[1].unit = d + 1 + 1 /\ Rest'[1].k = 1
    <3> SUFFICES ASSUME Rest' # <<>> PROVE Rest'[1].unit = d + 1 + 1 /\ Rest'[1].k = 1
      OBVIOUS
    <3>1. 1 \in 1..Len(Rest') /\ UnitLen < Len(Rest) /\ UnitLen \in 1..UnitLen
      BY <1>6, LengthsAre
    <3>2. Rest'[1] = Rest[UnitLen + 1] /\ Adjacent(Rest[UnitLen], Rest[UnitLen + 1])
      BY <1>6, <2>1, <3>1 DEF AsSent
    <3>3. Rest[UnitLen].unit = d + 1 /\ Rest[UnitLen].k = UnitLen
      BY <2>3, <3>1
    <3>4. Rest'[1].k \in 1..UnitLen
      BY <1>6, <3>1 DEF AsSent
    <3>5. Rest'[1].k # UnitLen + 1
      BY <3>4, LengthsAre
    <3> QED BY <3>2, <3>3, <3>5 DEF Adjacent
  <2> QED BY <1>4, <2>5, <2>6, <2>7
<1>9. HitsCounted'
  BY DEF StreamInv, HitsCounted
<1> QED
  BY <1>5, <1>6, <1>7, <1>8, <1>9 DEF StreamInv

\* Every pass of the loop, and taking a buffer.
LEMMA RemoveKeeps == ASSUME StreamInv, Remove PROVE StreamInv'
<1>1. StreamTypeOK /\ LookInv /\ AsSent(Rest, sent) /\ Recount(Rest, markerHits) /\ StepInv
  BY DEF StreamInv
<1>2. UNCHANGED <<sent, hits, markerHits>>
  BY DEF Remove, GetData, PartOfMarker, MarkerFound, NoMarker, ContinueUnit
<1>3. CASE GetData
  <2>1. UNCHANGED delivered
    BY <1>3 DEF GetData
  <2> QED BY <1>1, <1>2, <1>3, <2>1, GetDataTail, TailKeeps
<1>4. CASE PartOfMarker
  <2>1. UNCHANGED delivered /\ goodUnit = NoUnit /\ data # <<>>
    BY <1>4 DEF PartOfMarker
  <2>2. HeldTypes' /\ LookInv'
    BY <1>1, <1>4, PartOfMarkerTail
  <2>3. CASE MarkerMatch
    <3>1. TailOf(Rest', Rest, 0)
      BY <1>1, <1>4, <2>3, PartOfMarkerTail
    <3> QED BY <1>2, <2>1, <2>2, <3>1, TailKeeps
  <2>4. CASE ~MarkerMatch
    <3>1. TailOf(Rest', Rest, Len(matched) + Len(data))
      BY <1>1, <1>4, <2>4, PartOfMarkerTail
    <3>2. ~(\A u \in 1..sent : Readable(u))
      BY <1>1, <2>1, <2>4, ReadableMatches
    <3> QED BY <1>2, <2>1, <2>2, <3>1, <3>2, TailKeeps
  <2> QED BY <2>3, <2>4
<1>5. CASE MarkerFound
  <2>1. /\ HeldTypes' /\ LookInv'
        /\ (delivered' = delivered /\ TailOf(Rest', Rest, 0)) \/ SendsOn
    BY <1>1, <1>5, MarkerFoundTail
  <2>2. CASE SendsOn
    BY <1>2, <2>1, <2>2, SendKeepsStream
  <2>3. CASE delivered' = delivered /\ TailOf(Rest', Rest, 0)
    BY <1>2, <2>1, <2>3, TailKeeps
  <2> QED BY <2>1, <2>2, <2>3
<1>6. CASE NoMarker
  <2>1. UNCHANGED delivered /\ goodUnit = NoUnit /\ data # <<>> /\ ~MarkerMatch
    BY <1>6 DEF NoMarker
  <2>2. HeldTypes' /\ LookInv' /\ TailOf(Rest', Rest, Len(matched) + 1)
    BY <1>1, <1>6, NoMarkerTail
  <2>3. ~(\A u \in 1..sent : Readable(u))
    BY <1>1, <2>1, ReadableMatches
  <2> QED BY <1>2, <2>1, <2>2, <2>3, TailKeeps
<1>7. CASE ContinueUnit
  <2>1. /\ HeldTypes' /\ LookInv'
        /\ (delivered' = delivered /\ TailOf(Rest', Rest, 0)) \/ SendsOn
    BY <1>1, <1>7, ContinueUnitTail
  <2>2. CASE SendsOn
    BY <1>2, <2>1, <2>2, SendKeepsStream
  <2>3. CASE delivered' = delivered /\ TailOf(Rest', Rest, 0)
    BY <1>2, <2>1, <2>3, TailKeeps
  <2> QED BY <2>1, <2>2, <2>3
<1> QED
  BY <1>3, <1>4, <1>5, <1>6, <1>7 DEF Remove
LEMMA StillRest ==
    ASSUME StreamInv, UNCHANGED <<matched, goodUnit, data>>, wire' \in Seq(Octet)
    PROVE  /\ Places(Rest, matched, Begun, data, wire) /\ Places(Rest', matched, Begun, data, wire')
           /\ Rest \in Seq(Octet) /\ Rest' \in Seq(Octet)
<1>1. StreamTypeOK /\ Begun' = Begun
  BY DEF StreamInv, Begun
<1>2. matched' \in Seq(Octet) /\ Begun' \in Seq(Octet) /\ data' \in Seq(Octet) /\ data' = data /\ matched' = matched
  BY <1>1, BegunType DEF StreamTypeOK
<1>3. Row(Rest', matched', Begun', data', wire')
  BY <1>2, RestIsNext
<1>4. Row(Rest, matched, Begun, data, wire)
  BY <1>1, RestTyped
<1> QED
  BY <1>1, <1>2, <1>3, <1>4 DEF Row

\* The octets of a unit behind its marker.
LEMMA MarkedIs ==
    ASSUME NEW n \in Nat, NEW content \in Contents
    PROVE  /\ Marked(n, content) \in Seq(Octet) /\ Len(Marked(n, content)) = UnitLen
           /\ \A i \in 1..UnitLen : /\ Marked(n, content)[i].unit = n /\ Marked(n, content)[i].k = i
                                    /\ i <= Len(Marker) => Marked(n, content)[i].byte = Marker[i]
                                    /\ Marked(n, content)[i].flipped = 0
<1> DEFINE all == Marker \o content
<1>1. Marker \in Seq(Bytes) /\ content \in Seq(Bytes) /\ Len(content) = ExpectedUnitLength
  BY StreamAssumption
<1>2. /\ all \in Seq(Bytes) /\ Len(all) = Len(Marker) + Len(content)
      /\ \A i \in 1..Len(Marker) + Len(content) :
            all[i] = IF i <= Len(Marker) THEN Marker[i] ELSE content[i - Len(Marker)]
  BY ONLY <1>1, ConcatProperties
<1>3. Len(all) = UnitLen
  BY <1>1, <1>2 DEF UnitLen
<1>4. Marked(n, content) = [i \in 1..UnitLen |-> [unit |-> n, k |-> i, byte |-> all[i], flipped |-> 0]]
  BY <1>3 DEF Marked
<1>5. \A i \in 1..UnitLen : all[i] \in Bytes /\ (i <= Len(Marker) => all[i] = Marker[i])
  <2> HIDE DEF all
  <2> QED BY <1>1, <1>2, <1>3, LengthsAre
<1> HIDE DEF all
<1>6. \A i \in 1..UnitLen : [unit |-> n, k |-> i, byte |-> all[i], flipped |-> 0] \in Octet
  BY <1>5, LengthsAre DEF Octet
<1> DEFINE r == [i \in 1..UnitLen |-> [unit |-> n, k |-> i, byte |-> all[i], flipped |-> 0]]
<1>7. r \in Seq(Octet) /\ Len(r) = UnitLen
  BY <1>6, LengthsAre
<1>8. \A i \in 1..UnitLen : r[i] = [unit |-> n, k |-> i, byte |-> all[i], flipped |-> 0]
  OBVIOUS
<1> HIDE DEF r
<1>9. Marked(n, content) = r
  BY <1>4 DEF r
<1> QED
  BY <1>5, <1>7, <1>8, <1>9

LEMMA AddKeeps == ASSUME StreamInv, Add PROVE StreamInv'
<1>1. PICK content \in Contents : sent < MaxUnits /\ wire' = wire \o Marked(sent + 1, content)
  BY DEF Add
<1>2. /\ sent' = sent + 1
      /\ UNCHANGED <<hits, markerHits, data, goodUnit, markerOffset, currentBitErrors, matched, delivered>>
  BY DEF Add
<1> DEFINE n == sent + 1
           b == Marked(sent + 1, content)
<1>3. /\ StreamTypeOK /\ AsSent(Rest, sent) /\ Recount(Rest, markerHits) /\ sent \in Nat /\ n \in Nat
      /\ wire \in Seq(Octet) /\ n \in 1..MaxUnits
  BY <1>1, StreamAssumption DEF StreamInv, StreamTypeOK
<1>4. /\ b \in Seq(Octet) /\ Len(b) = UnitLen
      /\ \A i \in 1..UnitLen : /\ b[i].unit = n /\ b[i].k = i /\ b[i].flipped = 0
                               /\ i <= Len(Marker) => b[i].byte = Marker[i]
  BY <1>3, MarkedIs
<1> HIDE DEF b
<1>5. /\ wire' \in Seq(Octet) /\ Len(wire') = Len(wire) + UnitLen
      /\ \A i \in 1..Len(wire) + UnitLen : wire'[i] = IF i <= Len(wire) THEN wire[i] ELSE b[i - Len(wire)]
  <2>1. wire \in Seq(Octet) /\ b \in Seq(Octet) /\ wire' = wire \o b
    BY <1>1, <1>3, <1>4 DEF b
  <2>2. /\ wire \o b \in Seq(Octet) /\ Len(wire \o b) = Len(wire) + Len(b)
        /\ \A i \in 1..Len(wire) + Len(b) : (wire \o b)[i] = IF i <= Len(wire) THEN wire[i] ELSE b[i - Len(wire)]
    BY ONLY <2>1, ConcatProperties
  <2> QED BY <1>4, <2>1, <2>2
<1>6. /\ Places(Rest, matched, Begun, data, wire) /\ Places(Rest', matched, Begun, data, wire')
      /\ Rest \in Seq(Octet) /\ Rest' \in Seq(Octet)
  BY <1>2, <1>5, StillRest
<1> DEFINE l == Len(matched) + Len(Begun) + Len(data)
<1>7. /\ l \in Nat /\ Len(matched) \in Nat /\ Len(Begun) \in Nat /\ Len(data) \in Nat /\ Len(wire) \in Nat
      /\ Len(Rest) = l + Len(wire) /\ Len(Rest') = Len(Rest) + UnitLen /\ Len(Rest) \in Nat
      /\ UnitLen \in Nat /\ UnitLen > 0
  <2>1. UnitLen \in Nat /\ UnitLen > 0 /\ Len(wire') = Len(wire) + UnitLen
    BY <1>5, LengthsAre
  <2> QED BY ONLY <1>6, <2>1 DEF Places
<1>8. ASSUME NEW i \in 1..Len(Rest') PROVE Rest'[i] = IF i <= Len(Rest) THEN Rest[i] ELSE b[i - Len(Rest)]
  <2>1. /\ i \in 1..Len(matched) + Len(Begun) + Len(data) + Len(wire')
        /\ i <= Len(Rest) => i \in 1..Len(matched) + Len(Begun) + Len(data) + Len(wire)
        /\ ~(i <= l) => i - Len(matched) - Len(Begun) - Len(data) \in 1..Len(wire) + UnitLen
        /\ i - Len(matched) - Len(Begun) - Len(data) <= Len(wire) <=> i <= Len(Rest)
        /\ i - Len(matched) - Len(Begun) - Len(data) - Len(wire) = i - Len(Rest)
        /\ i \in Nat
    <3>1. Len(wire') = Len(wire) + UnitLen
      BY <1>5
    <3> QED BY ONLY <1>7, <3>1, i \in 1..Len(Rest')
  <2>2. CASE i <= l
    <3>1. i <= Len(Rest)
      BY <1>7, <2>1, <2>2
    <3> QED BY ONLY <1>6, <1>7, <2>1, <2>2, <3>1 DEF Places
  <2>3. CASE ~(i <= l)
    <3>1. ~(i <= Len(matched)) /\ ~(i <= Len(matched) + Len(Begun)) /\ ~(i <= Len(matched) + Len(Begun) + Len(data))
      BY ONLY <1>7, <2>1, <2>3
    <3>2. Rest'[i] = wire'[i - Len(matched) - Len(Begun) - Len(data)]
      BY ONLY <1>6, <2>1, <3>1 DEF Places
    <3>3. i <= Len(Rest) => Rest[i] = wire[i - Len(matched) - Len(Begun) - Len(data)]
      BY ONLY <1>6, <2>1, <3>1 DEF Places
    <3> QED BY ONLY <1>5, <2>1, <2>3, <3>2, <3>3
  <2> QED BY <2>2, <2>3
<1> HIDE DEF l
<1>9. AsSent(Rest', n)
  <2>1. ASSUME NEW i \in 1..Len(Rest')
        PROVE  /\ Rest'[i].unit \in 1..n /\ Rest'[i].k \in 1..UnitLen
               /\ Rest'[i].k <= Len(Marker) => Rest'[i].byte = Marker[Rest'[i].k]
               /\ i < Len(Rest') => Adjacent(Rest'[i], Rest'[i + 1])
               /\ i = Len(Rest') => Rest'[i].unit = n /\ Rest'[i].k = UnitLen
    <3>1. i < Len(Rest') => i + 1 \in 1..Len(Rest')
      BY <1>7
    <3>2. CASE i <= Len(Rest)
      <4>1. /\ i \in 1..Len(Rest) /\ Rest'[i] = Rest[i] /\ i < Len(Rest') /\ i # Len(Rest')
        BY <1>7, <1>8, <3>2
      <4>2. /\ Rest[i].unit \in 1..sent /\ Rest[i].k \in 1..UnitLen
            /\ Rest[i].k <= Len(Marker) => Rest[i].byte = Marker[Rest[i].k]
            /\ i < Len(Rest) => Adjacent(Rest[i], Rest[i + 1])
            /\ i = Len(Rest) => Rest[i].unit = sent /\ Rest[i].k = UnitLen
        BY <1>3, <4>1 DEF AsSent
      <4>3. CASE i < Len(Rest)
        <5>1. Rest'[i + 1] = Rest[i + 1]
          BY <1>7, <1>8, <3>1, <4>1, <4>3
        <5> QED BY <1>3, <4>1, <4>2, <4>3, <5>1
      <4>4. CASE i = Len(Rest)
        <5>1. Rest'[i + 1] = b[1]
          <6>1. i + 1 \in 1..Len(Rest') /\ ~(i + 1 <= Len(Rest)) /\ i + 1 - Len(Rest) = 1
            BY <1>7, <3>1, <4>1, <4>4
          <6> QED BY <1>8, <6>1
        <5>2. b[1].unit = sent + 1 /\ b[1].k = 1
          BY <1>4, <1>7
        <5>3. Adjacent(Rest'[i], Rest'[i + 1])
          BY <4>1, <4>2, <4>4, <5>1, <5>2 DEF Adjacent, UnitLen
        <5> QED BY <1>3, <4>1, <4>2, <4>4, <5>3
      <4> QED BY <1>7, <3>2, <4>3, <4>4
    <3>3. CASE ~(i <= Len(Rest))
      <4> DEFINE j == i - Len(Rest)
      <4>1. j \in 1..UnitLen /\ Rest'[i] = b[j] /\ j \in Nat
        BY <1>7, <1>8, <3>3
      <4>2. /\ i < Len(Rest') => j + 1 \in 1..UnitLen /\ ~(i + 1 <= Len(Rest)) /\ i + 1 - Len(Rest) = j + 1
            /\ i = Len(Rest') => j = UnitLen
        BY <1>7, <3>3
      <4> HIDE DEF j
      <4>3. i < Len(Rest') => Rest'[i + 1] = b[j + 1]
        BY <1>8, <3>1, <4>2
      <4>4. i < Len(Rest') => Adjacent(Rest'[i], Rest'[i + 1])
        BY <1>4, <4>1, <4>2, <4>3 DEF Adjacent
      <4> QED BY <1>3, <1>4, <4>1, <4>2, <4>4
    <3> QED BY <3>2, <3>3
  <2> QED BY <2>1 DEF AsSent
<1>10. Recount(Rest', markerHits)
  <2>1. ASSUME NEW a \in 1..Len(Rest'), Rest'[a].k = 1
        PROVE  \E f : Flips(Rest', a, f) /\ f[Len(Marker)] <= markerHits[Rest'[a].unit]
    <3>1. CASE a <= Len(Rest)
      <4>1. a \in 1..Len(Rest) /\ Rest'[a] = Rest[a]
        BY <1>7, <1>8, <3>1
      <4>2. PICK f : Flips(Rest, a, f) /\ f[Len(Marker)] <= markerHits[Rest[a].unit]
        BY <1>3, <2>1, <4>1 DEF Recount
      <4>3. ASSUME NEW i \in 1..Len(Marker) PROVE Rest'[a + i - 1] = Rest[a + i - 1]
        <5>1. i - 1 \in 0..UnitLen - Rest[a].k /\ a + (i - 1) = a + i - 1
          BY <2>1, <4>1, LengthsAre
        <5>2. a + (i - 1) \in 1..Len(Rest)
          BY <1>3, <1>6, <4>1, <5>1, RunFrom
        <5>3. a + i - 1 \in 1..Len(Rest') /\ a + i - 1 <= Len(Rest)
          BY <1>7, <5>1, <5>2
        <5> QED BY <1>8, <5>3
      <4>4. Flips(Rest', a, f)
        BY <4>2, <4>3 DEF Flips
      <4> QED BY <4>1, <4>2, <4>4
    <3>2. CASE ~(a <= Len(Rest))
      <4> DEFINE j == a - Len(Rest)
                 f == [i \in 0..Len(Marker) |-> 0]
      <4>1. j \in 1..UnitLen /\ Rest'[a] = b[j]
        BY <1>7, <1>8, <3>2
      <4>2. j = 1 /\ a = Len(Rest) + 1 /\ Rest'[a].unit = n
        BY <1>4, <1>7, <2>1, <4>1
      <4>3. ASSUME NEW i \in 1..Len(Marker) PROVE Rest'[a + i - 1].flipped = 0
        <5>1. a + i - 1 \in 1..Len(Rest') /\ ~(a + i - 1 <= Len(Rest))
              /\ a + i - 1 - Len(Rest) = i /\ i \in 1..UnitLen
          <6>1. UnitLen = Len(Marker) + ExpectedUnitLength /\ Len(Marker) \in Nat /\ ExpectedUnitLength \in Nat
            BY LengthsAre
          <6> QED BY ONLY <1>7, <4>2, <6>1, i \in 1..Len(Marker)
        <5>2. Rest'[a + i - 1] = b[i]
          BY <1>8, <5>1
        <5> QED BY <1>4, <5>1, <5>2
      <4>4. Flips(Rest', a, f)
        BY <4>3, LengthsAre DEF Flips
      <4>5. f[Len(Marker)] = 0 /\ markerHits[n] \in Nat
        <5>1. f[Len(Marker)] = 0
          BY LengthsAre
        <5>2. markerHits \in [1..MaxUnits -> 0..MaxHits]
          BY <1>3 DEF StreamTypeOK
        <5>3. markerHits[n] \in 0..MaxHits
          BY ONLY <1>3, <5>2
        <5> QED BY <5>1, <5>3
      <4>6. f[Len(Marker)] <= markerHits[Rest'[a].unit]
        BY <4>2, <4>5
      <4> HIDE DEF f
      <4> QED BY <4>4, <4>6
    <3> QED BY <3>1, <3>2
  <2> QED BY <2>1 DEF Recount
<1>11. StepInv'
  <2> SUFFICES ASSUME \A u \in 1..n : Readable(u)
               PROVE  /\ \A i \in DOMAIN delivered : /\ delivered[i].data[1].unit = i
                                                     /\ delivered[i].data[1].k = Len(Marker) + 1
                      /\ Rest' = <<>> => Len(delivered) = n
                      /\ Rest' # <<>> => Rest'[1].unit = Len(delivered) + 1 /\ Rest'[1].k = 1
    BY <1>2 DEF StepInv, Readable
  <2>1. \A u \in 1..sent : Readable(u)
    BY <1>3
  <2>2. /\ \A i \in DOMAIN delivered : /\ delivered[i].data[1].unit = i
                                       /\ delivered[i].data[1].k = Len(Marker) + 1
        /\ Rest = <<>> => Len(delivered) = sent
        /\ Rest # <<>> => Rest[1].unit = Len(delivered) + 1 /\ Rest[1].k = 1
    BY <2>1 DEF StreamInv, StepInv
  <2>3. Rest' # <<>> /\ 1 \in 1..Len(Rest')
    BY <1>6, <1>7
  <2>4. CASE Rest = <<>>
    <3>1. Len(Rest) = 0 /\ 1 \in 1..UnitLen
      BY <1>7, <2>4
    <3>2. Rest'[1] = b[1]
      BY <1>8, <2>3, <3>1
    <3> QED BY <1>4, <2>2, <2>3, <2>4, <3>1, <3>2
  <2>5. CASE Rest # <<>>
    <3>1. 1 <= Len(Rest)
      BY <1>6, <1>7, <2>5
    <3>2. Rest'[1] = Rest[1]
      BY <1>8, <2>3, <3>1
    <3> QED BY <2>2, <2>3, <2>5, <3>2
  <2> QED BY <2>4, <2>5
<1>12. StreamTypeOK' /\ LookInv' /\ Framed' /\ HitsCounted'
  <2>1. StreamTypeOK'
    <3>1. sent' \in 0..MaxUnits
      BY <1>2, <1>3
    <3> QED BY <1>2, <1>3, <1>5, <3>1 DEF StreamTypeOK
  <2>2. LookInv'
    BY <1>2 DEF StreamInv, LookInv
  <2>3. Framed'
    BY <1>2 DEF StreamInv, Framed
  <2>4. HitsCounted'
    BY <1>2 DEF StreamInv, HitsCounted
  <2> QED BY <2>1, <2>2, <2>3, <2>4
<1> QED
  BY <1>2, <1>9, <1>10, <1>11, <1>12 DEF StreamInv
\* t is s with one bit flipped in octet p.
Bent(t, s, p) ==
    /\ s \in Seq(Octet) /\ t \in Seq(Octet) /\ Len(t) = Len(s) /\ p \in 1..Len(s)
    /\ s[p].flipped = 0 /\ t[p].flipped = 1
    /\ t[p].unit = s[p].unit /\ t[p].k = s[p].k /\ t[p].byte = s[p].byte
    /\ \A i \in 1..Len(s) : i # p => t[i] = s[i]

LEMMA FlipBends ==
    ASSUME StreamInv, Flip
    PROVE  \E p : /\ Bent(Rest', Rest, p) /\ hits' \in 0..MaxHits /\ wire' \in Seq(Octet)
                  /\ markerHits' = IF Rest[p].k <= Len(Marker)
                                   THEN [markerHits EXCEPT ![Rest[p].unit] = @ + 1] ELSE markerHits
<1>1. PICK j \in DOMAIN wire :
         /\ hits < MaxHits /\ wire[j].flipped = 0 /\ wire' = [wire EXCEPT ![j].flipped = 1] /\ hits' = hits + 1
         /\ markerHits' = IF wire[j].k <= Len(Marker)
                          THEN [markerHits EXCEPT ![wire[j].unit] = @ + 1] ELSE markerHits
         /\ UNCHANGED <<sent, data, goodUnit, markerOffset, currentBitErrors, matched, delivered>>
  BY DEF Flip
<1>2. /\ wire \in Seq(Octet) /\ hits \in 0..MaxHits /\ MaxHits \in Nat /\ j \in 1..Len(wire) /\ Len(wire) \in Nat
      /\ wire[j] \in Octet
  BY <1>1, StreamAssumption DEF StreamInv, StreamTypeOK
<1> DEFINE o == [wire[j] EXCEPT !.flipped = 1]
<1>3. /\ o \in Octet /\ o.flipped = 1 /\ o.unit = wire[j].unit /\ o.k = wire[j].k /\ o.byte = wire[j].byte
  <2>1. wire[j] \in [unit : Nat, k : Nat, byte : Bytes, flipped : 0..1]
    BY <1>2 DEF Octet
  <2>2. 1 \in 0..1
    OBVIOUS
  <2>3. o \in [unit : Nat, k : Nat, byte : Bytes, flipped : 0..1]
    BY ONLY <2>1, <2>2
  <2>4. o.flipped = 1 /\ o.unit = wire[j].unit /\ o.k = wire[j].k /\ o.byte = wire[j].byte
    BY ONLY <2>1
  <2> QED BY <2>3, <2>4 DEF Octet
<1>4. wire' = [wire EXCEPT ![j] = o]
  BY <1>1, <1>2
<1> HIDE DEF o
<1>5. /\ wire' \in Seq(Octet) /\ Len(wire') = Len(wire) /\ wire'[j] = o
      /\ \A i \in 1..Len(wire) : i # j => wire'[i] = wire[i]
  BY <1>2, <1>3, <1>4
<1>6. /\ Places(Rest, matched, Begun, data, wire) /\ Places(Rest', matched, Begun, data, wire')
      /\ Rest \in Seq(Octet) /\ Rest' \in Seq(Octet)
  BY <1>1, <1>5, StillRest
<1> DEFINE l == Len(matched) + Len(Begun) + Len(data)
           p == l + j
<1>7. /\ l \in Nat /\ Len(matched) \in Nat /\ Len(Begun) \in Nat /\ Len(data) \in Nat /\ Len(wire) \in Nat
      /\ Len(Rest) = l + Len(wire) /\ Len(Rest') = Len(Rest) /\ Len(Rest) \in Nat /\ j \in 1..Len(wire)
  <2>1. Len(wire') = Len(wire) /\ j \in 1..Len(wire)
    BY <1>2, <1>5
  <2> QED BY ONLY <1>6, <2>1 DEF Places
<1>8. ASSUME NEW i \in 1..Len(Rest)
      PROVE  /\ i <= l => Rest'[i] = Rest[i]
             /\ ~(i <= l) => Rest'[i] = wire'[i - l] /\ Rest[i] = wire[i - l] /\ i - l \in 1..Len(wire)
  <2>1. /\ i \in 1..Len(matched) + Len(Begun) + Len(data) + Len(wire')
        /\ i \in 1..Len(matched) + Len(Begun) + Len(data) + Len(wire)
        /\ i - Len(matched) - Len(Begun) - Len(data) = i - l
        /\ i \in Nat
    <3>1. Len(wire') = Len(wire)
      BY <1>5
    <3> QED BY ONLY <1>7, <3>1, i \in 1..Len(Rest)
  <2>2. CASE i <= l
    BY ONLY <1>6, <1>7, <2>1, <2>2 DEF Places
  <2>3. CASE ~(i <= l)
    <3>1. ~(i <= Len(matched)) /\ ~(i <= Len(matched) + Len(Begun)) /\ ~(i <= Len(matched) + Len(Begun) + Len(data))
          /\ i - l \in 1..Len(wire)
      BY ONLY <1>7, <2>1, <2>3
    <3> HIDE DEF l
    <3> QED BY ONLY <1>6, <2>1, <2>3, <3>1 DEF Places
  <2> QED BY <2>2, <2>3
<1>9. p \in 1..Len(Rest) /\ ~(p <= l) /\ p - l = j
  BY ONLY <1>7
<1>10. /\ Rest[p] = wire[j] /\ Rest'[p] = o
  <2> HIDE DEF l, p
  <2> QED BY <1>5, <1>8, <1>9
<1>11. ASSUME NEW i \in 1..Len(Rest), i # p PROVE Rest'[i] = Rest[i]
  <2>1. ~(i <= l) => i - l # j
    BY ONLY <1>7, <1>9, i \in 1..Len(Rest), i # p
  <2> HIDE DEF l, p
  <2> QED BY <1>5, <1>8, <2>1
<1> HIDE DEF l, p
<1>12. Bent(Rest', Rest, p)
  BY <1>1, <1>3, <1>6, <1>7, <1>9, <1>10, <1>11 DEF Bent
<1>13. hits' \in 0..MaxHits
  BY <1>1, <1>2
<1> QED
  BY <1>1, <1>5, <1>10, <1>12, <1>13

LEMMA BentSent ==
    ASSUME NEW s, NEW t, NEW p, NEW m, Bent(t, s, p), AsSent(s, m)
    PROVE  AsSent(t, m)
<1>1. ASSUME NEW i \in 1..Len(s) PROVE t[i].unit = s[i].unit /\ t[i].k = s[i].k /\ t[i].byte = s[i].byte
  BY DEF Bent
<1>2. Len(t) = Len(s) /\ Len(s) \in Nat
  BY DEF Bent
<1>3. ASSUME NEW i \in 1..Len(s), i < Len(s) PROVE Adjacent(t[i], t[i + 1])
  <2>1. i + 1 \in 1..Len(s)
    BY <1>2, <1>3
  <2>2. Adjacent(s[i], s[i + 1])
    BY <1>3 DEF AsSent
  <2> QED BY <1>1, <2>1, <2>2 DEF Adjacent
<1> QED
  BY <1>1, <1>2, <1>3 DEF AsSent

\* The flipped bit is counted in its marker.
LEMMA BentRecount ==
    ASSUME NEW s, NEW t, NEW p, NEW m, NEW h, NEW h2, Bent(t, s, p), AsSent(s, m), Recount(s, h),
           \A u \in 1..m : h[u] \in Nat /\ h2[u] \in Nat /\ h[u] <= h2[u],
           s[p].k <= Len(Marker) => h2[s[p].unit] = h[s[p].unit] + 1
    PROVE  Recount(t, h2)
<1>1. /\ s \in Seq(Octet) /\ t \in Seq(Octet) /\ Len(t) = Len(s) /\ Len(s) \in Nat /\ p \in 1..Len(s)
      /\ s[p].flipped = 0 /\ t[p].flipped = 1
      /\ \A i \in 1..Len(s) : t[i].unit = s[i].unit /\ t[i].k = s[i].k /\ (i # p => t[i] = s[i])
  BY DEF Bent
<1> DEFINE M == Len(Marker)
<1>2. ASSUME NEW a \in 1..Len(t), t[a].k = 1
      PROVE  \E f : Flips(t, a, f) /\ f[M] <= h2[t[a].unit]
  <2>1. a \in 1..Len(s) /\ s[a].k = 1 /\ t[a].unit = s[a].unit /\ s[a].unit \in 1..m
    BY <1>1, <1>2 DEF AsSent
  <2>2. PICK f : Flips(s, a, f) /\ f[M] <= h[s[a].unit]
    BY <2>1 DEF Recount
  <2>3. ASSUME NEW i \in 1..M
        PROVE  a + i - 1 \in 1..Len(s) /\ s[a + i - 1].k = i /\ s[a + i - 1].unit = s[a].unit /\ a + i - 1 \in Nat
    <3>1. i - 1 \in 0..UnitLen - s[a].k /\ a + (i - 1) = a + i - 1 /\ 1 + (i - 1) = i
      BY <2>1, LengthsAre
    <3>2. a + (i - 1) \in 1..Len(s) /\ s[a + (i - 1)].k = s[a].k + (i - 1) /\ s[a + (i - 1)].unit = s[a].unit
      BY <1>1, <2>1, <3>1, RunFrom
    <3> QED BY <2>1, <3>1, <3>2
  <2>4. /\ f \in [0..M -> Nat] /\ f[0] = 0 /\ \A i \in 1..M : f[i] = f[i - 1] + s[a + i - 1].flipped
        /\ M \in Nat
    BY <2>2, LengthsAre DEF Flips
  <2>5. CASE \A i \in 1..M : a + i - 1 # p
    <3>1. Flips(t, a, f)
      BY <1>1, <2>3, <2>4, <2>5 DEF Flips
    <3>2. f[M] <= h2[t[a].unit]
      <4>1. f[M] \in Nat /\ h[s[a].unit] \in Nat /\ h2[s[a].unit] \in Nat /\ h[s[a].unit] <= h2[s[a].unit]
        BY <2>1, <2>4
      <4> QED BY <2>1, <2>2, <4>1
    <3> QED BY <3>1, <3>2
  <2>6. ASSUME NEW c \in 1..M, a + c - 1 = p PROVE \E g : Flips(t, a, g) /\ g[M] <= h2[t[a].unit]
    <3> DEFINE g == [i \in 0..M |-> IF i < c THEN f[i] ELSE f[i] + 1]
    <3>1. s[p].k <= M /\ s[p].unit = s[a].unit
      BY <2>3, <2>6
    <3>2. g \in [0..M -> Nat] /\ g[0] = 0 /\ g[M] = f[M] + 1
      BY <2>4
    <3>3. ASSUME NEW i \in 1..M PROVE g[i] = g[i - 1] + t[a + i - 1].flipped
      <4>1. i \in 0..M /\ i - 1 \in 0..M /\ f[i] \in Nat /\ f[i - 1] \in Nat /\ f[i] = f[i - 1] + s[a + i - 1].flipped
        BY <2>4
      <4>2. CASE i = c
        <5>1. g[i] = f[i] + 1 /\ g[i - 1] = f[i - 1]
          BY <4>1, <4>2
        <5>2. s[a + i - 1].flipped = 0 /\ t[a + i - 1].flipped = 1
          BY <1>1, <2>6, <4>2
        <5> QED BY ONLY <4>1, <5>1, <5>2
      <4>3. CASE i # c
        <5>1. a + i - 1 # p
          BY <1>1, <2>1, <2>6, <4>3
        <5>2. t[a + i - 1] = s[a + i - 1]
          BY <1>1, <2>3, <5>1
        <5>3. s[a + i - 1].flipped \in Nat
          <6>1. s[a + i - 1] \in Octet
            BY <1>1, <2>3, ElementOfSeq
          <6> QED BY <6>1, OctetIs
        <5>4. (g[i] = f[i] /\ g[i - 1] = f[i - 1]) \/ (g[i] = f[i] + 1 /\ g[i - 1] = f[i - 1] + 1)
          BY <4>1, <4>3
        <5> HIDE DEF g
        <5> QED BY ONLY <4>1, <5>2, <5>3, <5>4
      <4> QED BY <4>2, <4>3
    <3> HIDE DEF g
    <3>4. Flips(t, a, g)
      BY <3>2, <3>3 DEF Flips
    <3>5. g[M] <= h2[t[a].unit]
      <4>1. f[M] \in Nat /\ h[s[a].unit] \in Nat /\ h2[s[a].unit] = h[s[a].unit] + 1
        <5>1. f[M] \in Nat
          BY <2>4
        <5>2. h[s[a].unit] \in Nat
          BY <2>1
        <5>3. h2[s[a].unit] = h[s[a].unit] + 1
          BY <3>1
        <5> QED BY <5>1, <5>2, <5>3
      <4> QED BY <2>1, <2>2, <3>2, <4>1
    <3> QED BY <3>4, <3>5
  <2> QED BY <2>5, <2>6
<1> QED
  BY <1>2 DEF Recount

LEMMA FlipKeeps == ASSUME StreamInv, Flip PROVE StreamInv'
<1>1. PICK p : /\ Bent(Rest', Rest, p) /\ hits' \in 0..MaxHits /\ wire' \in Seq(Octet)
               /\ markerHits' = IF Rest[p].k <= Len(Marker)
                                THEN [markerHits EXCEPT ![Rest[p].unit] = @ + 1] ELSE markerHits
  BY FlipBends
<1>2. UNCHANGED <<sent, data, goodUnit, markerOffset, currentBitErrors, matched, delivered>>
      /\ hits < MaxHits /\ hits' = hits + 1
  BY DEF Flip
<1>3. /\ StreamTypeOK /\ AsSent(Rest, sent) /\ Recount(Rest, markerHits) /\ sent \in Nat /\ sent <= MaxUnits
      /\ MaxUnits \in Nat /\ hits \in Nat /\ markerHits \in [1..MaxUnits -> 0..MaxHits]
  BY StreamAssumption DEF StreamInv, StreamTypeOK
<1>4. p \in 1..Len(Rest) /\ Rest[p].unit \in 1..sent /\ Rest[p].unit \in 1..MaxUnits
  BY <1>1, <1>3 DEF Bent, AsSent
<1>5. ASSUME NEW u \in 1..sent
      PROVE  /\ markerHits[u] \in Nat /\ markerHits'[u] \in Nat /\ markerHits[u] <= markerHits'[u]
             /\ u \in 1..MaxUnits
  BY <1>1, <1>3, <1>4
<1>6. Rest[p].k <= Len(Marker) => markerHits'[Rest[p].unit] = markerHits[Rest[p].unit] + 1
  BY <1>1, <1>3, <1>4
<1>7. AsSent(Rest', sent) /\ Recount(Rest', markerHits')
  <2>1. AsSent(Rest', sent)
    BY <1>1, <1>3, BentSent
  <2>2. Recount(Rest', markerHits')
    BY <1>1, <1>3, <1>5, <1>6, BentRecount
  <2> QED BY <2>1, <2>2
<1>8. markerHits' \in [1..MaxUnits -> 0..MaxHits] /\ HitsCounted'
  <2>1. ASSUME NEW u \in 1..MaxUnits
        PROVE  markerHits'[u] \in 0..MaxHits /\ markerHits'[u] <= hits'
    <3>1. markerHits[u] \in Nat /\ markerHits[u] <= hits
      BY <1>3 DEF StreamInv, HitsCounted
    <3>2. markerHits'[u] = markerHits[u] \/ markerHits'[u] = markerHits[u] + 1
      BY <1>1, <1>3, <1>4
    <3>3. hits' = hits + 1 /\ hits' \in 0..MaxHits /\ hits \in Nat /\ MaxHits \in Nat
      BY <1>1, <1>2, <1>3, StreamAssumption
    <3> QED BY ONLY <3>1, <3>2, <3>3
  <2>2. DOMAIN markerHits' = 1..MaxUnits /\ markerHits' = [u \in DOMAIN markerHits' |-> markerHits'[u]]
    BY <1>1, <1>3
  <2> QED BY <2>1, <2>2 DEF HitsCounted
<1>9. StreamTypeOK' /\ LookInv' /\ Framed'
  <2>1. StreamTypeOK'
    BY <1>1, <1>2, <1>3, <1>8 DEF StreamTypeOK
  <2>2. LookInv'
    BY <1>2 DEF StreamInv, LookInv
  <2>3. Framed'
    BY <1>2 DEF StreamInv, Framed
  <2> QED BY <2>1, <2>2, <2>3
<1>10. StepInv'
  <2> SUFFICES ASSUME \A u \in 1..sent : markerHits'[u] <= AllowedMarkerBitErrors
               PROVE  /\ \A i \in DOMAIN delivered : /\ delivered[i].data[1].unit = i
                                                     /\ delivered[i].data[1].k = Len(Marker) + 1
                      /\ Rest' = <<>> => Len(delivered) = sent
                      /\ Rest' # <<>> => Rest'[1].unit = Len(delivered) + 1 /\ Rest'[1].k = 1
    BY <1>2 DEF StepInv, Readable
  <2>1. \A u \in 1..sent : Readable(u)
    BY <1>5, LengthsAre DEF Readable
  <2>2. /\ \A i \in DOMAIN delivered : /\ delivered[i].data[1].unit = i
                                       /\ delivered[i].data[1].k = Len(Marker) + 1
        /\ Rest = <<>> => Len(delivered) = sent
        /\ Rest # <<>> => Rest[1].unit = Len(delivered) + 1 /\ Rest[1].k = 1
    BY <2>1 DEF StreamInv, StepInv
  <2>3. /\ Rest # <<>> /\ 1 \in 1..Len(Rest)
        /\ \A i \in 1..Len(Rest) : Rest'[i].unit = Rest[i].unit /\ Rest'[i].k = Rest[i].k
        /\ Rest' # <<>>
    BY <1>1 DEF Bent
  <2> QED BY <2>2, <2>3
<1> QED
  BY <1>2, <1>7, <1>8, <1>9, <1>10 DEF StreamInv

LEMMA StreamStart == StreamInit => StreamInv
<1> SUFFICES ASSUME StreamInit PROVE StreamInv
  OBVIOUS
<1>1. /\ sent = 0 /\ wire = <<>> /\ hits = 0 /\ markerHits = [u \in 1..MaxUnits |-> 0]
      /\ data = <<>> /\ goodUnit = NoUnit /\ markerOffset = 0 /\ currentBitErrors = 0
      /\ matched = <<>> /\ delivered = <<>>
  BY DEF StreamInit
<1>2. StreamTypeOK
  <2>1. 0 \in 0..MaxUnits /\ 0 \in 0..MaxHits /\ 0 \in 0..Len(Marker) - 1 /\ 0 \in 0..AllowedMarkerBitErrors
    BY LengthsAre, StreamAssumption
  <2>2. markerHits \in [1..MaxUnits -> 0..MaxHits]
    BY <1>1, <2>1
  <2>3. <<>> \in Seq(Octet) /\ <<>> \in Seq([marker : Seq(Octet), data : Seq(Octet)])
    OBVIOUS
  <2> QED BY <1>1, <2>1, <2>2, <2>3 DEF StreamTypeOK
<1>3. Rest = <<>> /\ Len(Rest) = 0
  <2>1. Begun = <<>> /\ <<>> \in Seq(Octet)
    BY <1>1 DEF Begun
  <2>2. Row(Rest, <<>>, <<>>, <<>>, <<>>)
    BY <1>1, <1>2, <2>1, RestTyped
  <2> QED BY <2>1, <2>2 DEF Row, Places
<1>4. AsSent(Rest, sent) /\ Recount(Rest, markerHits)
  BY <1>3 DEF AsSent, Recount
<1>5. LookInv
  BY <1>1, NoUnitYet, NoErrorsInNothing DEF LookInv
<1>6. DOMAIN delivered = {} /\ Len(delivered) = 0
  BY <1>1
<1>7. Framed /\ StepInv /\ HitsCounted
  <2>1. Framed
    BY <1>6 DEF Framed
  <2>2. StepInv
    BY <1>1, <1>3, <1>6 DEF StepInv
  <2>3. HitsCounted
    BY <1>1 DEF HitsCounted
  <2> QED BY <2>1, <2>2, <2>3
<1> QED
  BY <1>2, <1>4, <1>5, <1>7 DEF StreamInv

LEMMA StreamStep == StreamInv /\ [StreamNext]_streamVars => StreamInv'
<1> SUFFICES ASSUME StreamInv, [StreamNext]_streamVars PROVE StreamInv'
  OBVIOUS
<1>1. CASE UNCHANGED streamVars
  <2>1. UNCHANGED <<sent, wire, hits, markerHits, data, goodUnit, markerOffset, currentBitErrors, matched, delivered>>
    BY <1>1 DEF streamVars
  <2>2. UNCHANGED Rest
    BY <2>1 DEF Rest, Begun
  <2>3. StreamTypeOK' /\ LookInv' /\ Framed' /\ HitsCounted'
    BY <2>1 DEF StreamInv, StreamTypeOK, LookInv, Framed, HitsCounted
  <2>4. AsSent(Rest', sent') /\ Recount(Rest', markerHits')
    BY <2>1, <2>2 DEF StreamInv
  <2>5. StepInv'
    BY <2>1, <2>2 DEF StreamInv, StepInv, Readable
  <2> QED BY <2>3, <2>4, <2>5 DEF StreamInv
<1> QED
  BY <1>1, AddKeeps, FlipKeeps, RemoveKeeps DEF StreamNext

LEMMA StreamAlways == StreamSpec => []StreamInv
BY StreamStart, StreamStep, PTL DEF StreamSpec

\* Whatever bits are flipped and wherever the stream is cut, for every marker and length of unit:
\* what is sent on was behind a whole marker's length of consecutive octets with no more bit
\* errors than are allowed (modASM_Remove::svc(), _markerMatch()).
THEOREM UnitsComeFromBehindMarkers == StreamSpec => []WellFramed
<1>1. StreamInv => WellFramed
  BY DEF StreamInv, WellFramed
<1> QED
  BY StreamAlways, <1>1, PTL

\* For every marker and length of unit: as long as no marker has more flipped bits than are
\* allowed every unit sent comes out, in order and from its first octet on
\* (modASM_Remove::svc()).
THEOREM ReadableUnitsAllArrive == StreamSpec => []InStep
<1>1. StreamInv => InStep
  <2> SUFFICES ASSUME StreamInv, \A u \in 1..sent : Readable(u)
               PROVE  /\ \A i \in DOMAIN delivered : /\ delivered[i].data[1].unit = i
                                                     /\ delivered[i].data[1].k = Len(Marker) + 1
                      /\ wire = <<>> /\ data = <<>> => Len(delivered) = sent
    BY DEF InStep
  <2>1. /\ \A i \in DOMAIN delivered : /\ delivered[i].data[1].unit = i
                                       /\ delivered[i].data[1].k = Len(Marker) + 1
        /\ Rest = <<>> => Len(delivered) = sent
        /\ Rest # <<>> => Rest[1].unit = Len(delivered) + 1 /\ Rest[1].k = 1
    BY DEF StreamInv, StepInv
  <2>2. ASSUME wire = <<>>, data = <<>> PROVE Rest = <<>>
    <3>1. StreamTypeOK /\ LookInv /\ AsSent(Rest, sent)
      BY DEF StreamInv
    <3>2. Places(Rest, matched, Begun, <<>>, <<>>) /\ Rest \in Seq(Octet) /\ Len(<<>>) = 0
      BY <2>2, <3>1, RestTyped, NoUnitYet DEF Row
    <3>3. Len(Rest) = Len(matched) + Len(Begun) /\ Len(matched) \in Nat /\ Len(Begun) \in Nat
      BY ONLY <3>2 DEF Places
    <3>4. Len(Rest) < UnitLen
      <4>1. CASE goodUnit = NoUnit
        <5>1. Len(matched) = markerOffset /\ markerOffset < Len(Marker) /\ Len(Begun) = 0 /\ markerOffset \in Nat
          BY <3>1, <3>2, <4>1, BegunType, LengthsAre DEF LookInv, StreamTypeOK
        <5> QED BY <3>3, <5>1, LengthsAre
      <4>2. CASE goodUnit # NoUnit
        <5>1. Len(matched) = Len(Marker) /\ Len(Begun) < ExpectedUnitLength
          BY <3>1, <4>2, BegunType DEF LookInv
        <5> QED BY <3>3, <5>1, LengthsAre
      <4> QED BY <4>1, <4>2
    <3>5. ASSUME Rest # <<>> PROVE FALSE
      <4>1. 1 \in 1..Len(Rest) /\ Len(Rest) \in 1..Len(Rest) /\ Len(Rest) \in Nat
        BY <3>2, <3>5
      <4>2. Rest[1].k = 1
        BY <2>1, <3>5
      <4>3. Len(Rest) - 1 \in 0..UnitLen - Rest[1].k /\ 1 + (Len(Rest) - 1) = Len(Rest)
        BY <3>4, <4>1, <4>2, LengthsAre
      <4>4. Rest[Len(Rest)].k = 1 + (Len(Rest) - 1)
        BY <3>1, <3>2, <4>1, <4>2, <4>3, RunFrom
      <4>5. Rest[Len(Rest)].k = UnitLen
        BY <3>1, <4>1 DEF AsSent
      <4> QED BY <3>4, <4>1, <4>3, <4>4, <4>5, LengthsAre
    <3> QED BY <3>5
  <2> QED BY <2>1, <2>2
<1> QED
  BY StreamAlways, <1>1, PTL

=============================================================================
