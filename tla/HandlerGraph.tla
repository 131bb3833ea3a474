---------------------------- MODULE HandlerGraph ----------------------------
(***************************************************************************)
(* The graph of traffic handlers of one channel: HandlerLink objects join  *)
(* an output slot of a source to an input slot of a target, each end keeps *)
(* a raw pointer to the link (links_[4] of BaseTrafficHandler), and the    *)
(* outputs are recorded in the channel's settings, from which the channel  *)
(* is built again when a configuration is loaded.                          *)
(***************************************************************************)
EXTENDS Naturals, FiniteSets

CONSTANTS
    Handlers,   \* names of handlers
    HasAux,     \* the handlers constructed with an auxiliary input queue
    Active,     \* the handlers whose service thread sends
    None,       \* a null pointer, an absent setting
    MaxCalls    \* bound: management calls in a behaviour

ASSUME HandlerGraphAssumption ==
    /\ HasAux \subseteq Handlers
    /\ Active \subseteq Handlers
    /\ IsFiniteSet(Handlers)
    /\ MaxCalls \in Nat

InRanks   == {"PrimaryInput", "AuxInput"}
OutRanks  == {"PrimaryOutput", "AuxOutput"}
LinkTypes == InRanks \cup OutRanks

\* HandlerLink: both ends and the slot used at each.
Link == [source : Handlers, out : OutRanks, target : Handlers, in : InRanks]
ASSUME NoneAssumption == None \notin Link /\ None \notin Handlers \X InRanks

VARIABLES
    members,    \* the channel's _handlers
    links,      \* links_ of every handler
    cfg,        \* the output settings of every handler
    configured, \* handlers with a settings group (and so a dllName) in the channel
    pending,    \* handlers an automatic load has still to create
    depth,      \* how many dependencies the load counted for each handler
    paused,     \* whether the HTTP server is paused
    refused,    \* the last connectOutput() that threw CircularConnection, None otherwise
    crashed,    \* isCircularConnection() recursed without end
    held,       \* the link whose pointer a service thread has just read
    calls

graph == <<members, links, cfg, configured>>
load  == <<pending, depth, paused>>
vars  == <<graph, load, refused, crashed, held, calls>>

NoLinks == [t \in LinkTypes |-> None]
NoCfg   == [o \in OutRanks |-> None]

\* Slots hold links or nothing, settings hold a target and an input rank.
TypeOK ==
    /\ members \subseteq Handlers
    /\ links \in [Handlers -> [LinkTypes -> Link \cup {None}]]
    /\ cfg \in [Handlers -> [OutRanks -> (Handlers \X InRanks) \cup {None}]]
    /\ configured \subseteq Handlers
    /\ pending \subseteq Handlers
    /\ DOMAIN depth = Handlers
    /\ paused \in BOOLEAN
    /\ refused \in (Handlers \X Handlers) \cup {None}
    /\ crashed \in BOOLEAN
    /\ held \in [Handlers -> Link \cup {None}]
    /\ calls \in 0..MaxCalls

Init ==
    /\ members = {}
    /\ links = [h \in Handlers |-> NoLinks]
    /\ cfg = [h \in Handlers |-> NoCfg]
    /\ configured = {}
    /\ pending = {}
    /\ depth = [h \in Handlers |-> 0]
    /\ paused = FALSE
    /\ refused = None
    /\ crashed = FALSE
    /\ held = [h \in Handlers |-> None]
    /\ calls = 0

-----------------------------------------------------------------------------
(* Links.                                                                  *)

\* Both ends of every link hold it.
Agree(ls) ==
    \A h \in Handlers, t \in LinkTypes :
        LET l == ls[h][t]
        IN  l # None =>
              /\ IF t \in OutRanks THEN l.source = h /\ l.out = t
                                   ELSE l.target = h /\ l.in = t
              /\ ls[l.source][l.out] = l
              /\ ls[l.target][l.in] = l

\* Mutant: the link's destructor forgets its target.
DeleteSourceEnd(ls, l) ==
    IF l = None THEN ls
    ELSE [ls EXCEPT ![l.source][l.out] = None]

\* ~HandlerLink(): unsetLink_() at both ends.
Delete(ls, l) ==
    IF l = None THEN ls
    ELSE LET target == [ls EXCEPT ![l.target][l.in] = None]
         IN  [target EXCEPT ![l.source][l.out] = None]

\* setLink_() of the target, then of the source: whatever is there is deleted.
Attach(ls, l) ==
    LET freed == Delete(ls, ls[l.target][l.in])
        atTarget == [freed EXCEPT ![l.target][l.in] = l]
        again == Delete(atTarget, atTarget[l.source][l.out])
    IN  [again EXCEPT ![l.source][l.out] = l]

\* source->isCircularConnection(target): a search downstream of the source,
\* primary output first.  Search[n][h] is the answer at h when the recursion
\* may go n calls deeper; a path longer than the number of handlers repeats
\* one, and the recursion never ends.
Search(ls, target) ==
    LET N == Cardinality(Handlers)
        Down(f, l) == IF l = None THEN "absent" ELSE f[l.target]
        S[n \in 0..N] ==
            [h \in Handlers |->
                IF h = target THEN "found"
                ELSE IF n = 0 THEN "endless"
                ELSE LET primary == Down(S[n-1], ls[h]["PrimaryOutput"])
                     IN  IF primary = "absent"
                         THEN Down(S[n-1], ls[h]["AuxOutput"])
                         ELSE primary]
    IN  S[N]

\* Mutant: the setting is not written after a connection.
ConnectUnrecorded(s, source, out, target, in) ==
    LET ls == Delete(s.links, s.links[source][out])
        cf == [s.cfg EXCEPT ![source][out] = None]
        l == [source |-> source, out |-> out, target |-> target, in |-> in]
    IN  IF Search(ls, target)[source] # "absent"
        THEN [links |-> ls, cfg |-> cf, outcome |-> "found"]
        ELSE [links |-> Attach(ls, l), cfg |-> cf, outcome |-> "connected"]

\* Mutant: the setting names the target without its input rank.
ConnectNoRank(s, source, out, target, in) ==
    LET ls == Delete(s.links, s.links[source][out])
        cf == [s.cfg EXCEPT ![source][out] = None]
        l == [source |-> source, out |-> out, target |-> target, in |-> in]
    IN  IF Search(ls, target)[source] # "absent"
        THEN [links |-> ls, cfg |-> cf, outcome |-> "found"]
        ELSE [links |-> Attach(ls, l), outcome |-> "connected",
              cfg |-> [cf EXCEPT ![source][out] = target]]

\* connectOutput() up to the exception or the new link.  The old output and
\* its setting are gone before the new link is tried.
Connect(s, source, out, target, in) ==
    LET ls == Delete(s.links, s.links[source][out])
        cf == [s.cfg EXCEPT ![source][out] = None]
        answer == Search(ls, target)[source]
        l == [source |-> source, out |-> out, target |-> target, in |-> in]
    IN  IF answer # "absent"
        THEN [links |-> ls, cfg |-> cf, outcome |-> answer]
        ELSE IF in = "AuxInput" /\ target \notin HasAux
        THEN [links |-> ls, cfg |-> cf, outcome |-> "no_aux"]
        ELSE [links |-> Attach(ls, l),
              cfg |-> [cf EXCEPT ![source][out] = <<target, in>>],
              outcome |-> "connected"]

State == [links |-> links, cfg |-> cfg, outcome |-> "connected"]

\* A management call, on a connection accepted before if the server is paused: it may come
\* between two steps of a load.
Call ==
    /\ ~crashed
    /\ calls < MaxCalls
    /\ calls' = calls + 1

-----------------------------------------------------------------------------
(* Management calls.                                                       *)

ConnectOutput(source, out, target, in) ==
    /\ Call
    /\ source \in members /\ target \in members
    /\ LET r == Connect(State, source, out, target, in)
       IN  /\ links' = r.links
           /\ cfg' = r.cfg
           /\ refused' = IF r.outcome = "found" THEN <<source, target>> ELSE None
           /\ crashed' = (r.outcome = "endless")
    /\ UNCHANGED <<members, configured, load, held>>

DisconnectOutput(source, out) ==
    /\ Call
    /\ source \in members
    /\ links' = Delete(links, links[source][out])
    /\ cfg' = [cfg EXCEPT ![source][out] = None]
    /\ refused' = None
    /\ UNCHANGED <<members, configured, load, crashed, held>>

\* initializeHandlerConnections(): each configured output whose target is
\* already a member is connected; an exception ends the whole addition.
ConnectConfigured(s, h, out, present) ==
    LET c == s.cfg[h][out]
    IN  IF s.outcome = "connected" /\ c # None /\ c[1] \in present
        THEN Connect(s, h, out, c[1], c[2])
        ELSE s

Added(h) ==
    ConnectConfigured(
        ConnectConfigured(State, h, "PrimaryOutput", members \cup {h}),
        h, "AuxOutput", members \cup {h})

AddSegment(h) ==
    /\ Call
    /\ h \notin members
    /\ members' = members \cup {h}
    /\ configured' = configured \cup {h}
    /\ links' = Added(h).links
    /\ cfg' = Added(h).cfg
    /\ crashed' = (Added(h).outcome = "endless")
    /\ refused' = None
    /\ UNCHANGED <<load, held>>

\* Mutant: the auxiliary links survive the handler.
WithdrawnPrimary(h) ==
    LET l1 == Delete(links, links[h]["PrimaryInput"])
    IN  Delete(l1, l1[h]["PrimaryOutput"])

\* withdraw(): stopTraffic(), then every link is deleted.
Withdrawn(h) ==
    LET l1 == Delete(links, links[h]["PrimaryInput"])
        l2 == Delete(l1, l1[h]["AuxInput"])
        l3 == Delete(l2, l2[h]["PrimaryOutput"])
    IN  Delete(l3, l3[h]["AuxOutput"])

\* The removed handler's settings go too; those of its sources stay.
RemoveSegment(h) ==
    /\ Call
    /\ h \in members
    /\ members' = members \ {h}
    /\ configured' = configured \ {h}
    /\ links' = Withdrawn(h)
    /\ cfg' = [cfg EXCEPT ![h] = NoCfg]
    /\ held' = [held EXCEPT ![h] = None]
    /\ refused' = None
    /\ UNCHANGED <<load, crashed>>

-----------------------------------------------------------------------------
(* switchToConfigFile() with the configuration as it was last saved, here  *)
(* the current settings: everything is removed and created again, while    *)
(* other calls go on.  One load is under way at a time.                    *)

Targets(h) == {cfg[h][out][1] : out \in {o \in OutRanks : cfg[h][o] # None}}

\* getDependencies(): every handler named by an output, transitively.
Dependencies(h) ==
    LET D[n \in 0..Cardinality(Handlers)] ==
          IF n = 0 THEN Targets(h)
          ELSE D[n-1] \cup UNION {Targets(d) : d \in D[n-1]}
    IN  D[Cardinality(Handlers)]

\* A dependency without a settings group is a SettingNotFound exception, and
\* then nothing is loaded and the server stays paused; an empty configuration is
\* loaded at once.
SwitchConfig ==
    /\ Call
    /\ pending = {}
    /\ members' = {}
    /\ links' = [h \in Handlers |-> NoLinks]
    /\ held' = [h \in Handlers |-> None]
    /\ paused' = (configured # {})
    /\ depth' = [h \in Handlers |-> Cardinality(Dependencies(h))]
    /\ pending' = IF \A h \in configured : Dependencies(h) \subseteq configured
                  THEN configured ELSE {}
    /\ refused' = None
    /\ UNCHANGED <<cfg, configured, crashed>>

\* Channel::autoLoad() in the order of doesNotDependOn(): fewer dependencies
\* first.  An exception from add() abandons the load.
LoadNext(h) ==
    /\ ~crashed
    /\ h \in pending \ members /\ h \in configured
    /\ \A g \in pending : depth[h] <= depth[g]
    /\ members' = members \cup {h}
    /\ links' = Added(h).links
    /\ cfg' = Added(h).cfg
    /\ crashed' = (Added(h).outcome = "endless")
    /\ pending' = IF Added(h).outcome = "connected" THEN pending \ {h} ELSE {}
    /\ paused' = ~(Added(h).outcome = "connected" /\ pending = {h})
    /\ UNCHANGED <<configured, depth, refused, held, calls>>

\* DuplicateHandlerName if another call has added the segment, SettingNotFound if one has
\* removed it since.
LoadFails(h) ==
    /\ ~crashed
    /\ h \in pending /\ (h \in members \/ h \notin configured)
    /\ \A g \in pending : depth[h] <= depth[g]
    /\ pending' = {}
    /\ UNCHANGED <<graph, depth, paused, refused, crashed, held, calls>>

-----------------------------------------------------------------------------
(* A service thread tests links_[PrimaryOutputLink] and then calls send()  *)
(* through the pointer it reads.                                           *)

ReadLink(h) ==
    /\ ~crashed
    /\ h \in Active \cap members
    /\ held[h] = None
    /\ links[h]["PrimaryOutput"] # None
    /\ held' = [held EXCEPT ![h] = links[h]["PrimaryOutput"]]
    /\ UNCHANGED <<graph, load, refused, crashed, calls>>

Send(h) ==
    /\ ~crashed
    /\ held[h] # None
    /\ held' = [held EXCEPT ![h] = None]
    /\ UNCHANGED <<graph, load, refused, crashed, calls>>

-----------------------------------------------------------------------------
Manage ==
    \/ \E s, t \in Handlers, out \in OutRanks, in \in InRanks :
          ConnectOutput(s, out, t, in)
    \/ \E s \in Handlers, out \in OutRanks : DisconnectOutput(s, out)
    \/ \E h \in Handlers : AddSegment(h) \/ RemoveSegment(h)
    \/ SwitchConfig

Load == \E h \in Handlers : LoadNext(h) \/ LoadFails(h)

Traffic == \E h \in Handlers : ReadLink(h) \/ Send(h)

Next == Manage \/ Load \/ Traffic

Spec == Init /\ [][Next]_vars

-----------------------------------------------------------------------------
\* The two ends of every link agree: a slot holds a link only if the link
\* names that slot, and the slot at the link's other end holds it too.  The
\* destructor of HandlerLink relies on it (HandlerLink.cpp:40-65): otherwise
\* it would clear a slot that has gone to another link.
EndsAgree == Agree(links)

\* A handler that has left the channel is in no link (Channel.cpp:112-124
\* deletes it as soon as withdraw() has returned).
LinksAmongMembers ==
    \A h \in Handlers \ members, t \in LinkTypes : links[h][t] = None

\* Every live output is on record, so a saved configuration omits no link.
LiveIsConfigured ==
    \A h \in Handlers, out \in OutRanks :
        links[h][out] # None =>
            cfg[h][out] = <<links[h][out].target, links[h][out].in>>

\* The links, the channel's map and the settings are three records of one graph, made and
\* unmade in different classes (Channel::remove(), HandlerLink::connectSourceToTarget()).
LinksOnRecord == TypeOK /\ LinksAmongMembers /\ LiveIsConfigured

Outputs(h) == {links[h][out].target : out \in {o \in OutRanks : links[h][o] # None}}

\* The handlers downstream of h, not counting h itself unless it is in a loop.
Downstream(h) ==
    LET D[n \in 0..Cardinality(Handlers)] ==
          IF n = 0 THEN Outputs(h)
          ELSE D[n-1] \cup UNION {Outputs(d) : d \in D[n-1]}
    IN  D[Cardinality(Handlers)]

\* HandlerLink.hpp:86: connectSourceToTarget() throws CircularConnection "if
\* the attempted connection would form a loop": so none is ever formed.
NoLoop == \A h \in Handlers : h \notin Downstream(h)

\* HandlerLink.hpp:36: CircularConnection is "thrown when the handler would
\* deliver traffic to itself".
RefusedOnlyIfLoop ==
    refused # None =>
        refused[1] \in {refused[2]} \cup Downstream(refused[2])

\* XML_RPC_Server.hpp:102-106: switchToConfigFile() unloads everything and then
\* loads "all the new DLLs, devices, channels, and segments".
LoadCompletes == pending = {} /\ paused => configured \subseteq members

\* BaseTrafficHandler.hpp:159: a link may be "added while the source is
\* already active": the pointer its service thread has read stays valid.
HeldLinkIsLive ==
    \A h \in Handlers : held[h] # None => links[h]["PrimaryOutput"] = held[h]
=============================================================================
