---------------------------- MODULE TM_Demux_Base ---------------------------
(***************************************************************************)
(* The outputs of the TM demultiplexers: each demultiplexer keeps a map    *)
(* from a channel identifier to the link that carries that channel's       *)
(* frames, the link's target keeps a pointer to it in the slot of its      *)
(* input, and the demultiplexer's settings list the outputs by the name of *)
(* their target.  A link is created in the map before it is connected, so  *)
(* one that could not be connected stays there without a target.  The      *)
(* management calls take no lock: several may be half made.                *)
(***************************************************************************)
EXTENDS Naturals, Sequences, FiniteSets

CONSTANTS
    Demuxes,    \* demultiplexers
    Ids,        \* channel identifiers (ACE_UINT8)
    Users,      \* names of handlers that may receive a channel
    HasAux,     \* the users constructed with an auxiliary input queue
    None,       \* no entry, a null pointer
    Loose,      \* a link without a target
    Configured, \* the settings the demultiplexers are constructed with
    MaxCalls    \* bound: management calls in a behaviour

ASSUME DemuxAssumption ==
    /\ HasAux \subseteq Users
    /\ IsFiniteSet(Users) /\ IsFiniteSet(Ids)
    /\ MaxCalls \in Nat
    /\ None # Loose /\ None \notin Users

InRanks == {"PrimaryInput", "AuxInput"}
Targets == Users \X InRanks
\* Settings that lists may hold when a demultiplexer is constructed: an identifier may be
\* listed twice and an input by several demultiplexers.  Of a target listed twice by one
\* the constructor throws CircularConnection, of an input that is not there NoAuxiliaryQueue.
ASSUME ConfiguredAssumption ==
    /\ Configured \in [Demuxes -> SUBSET (Users \X InRanks \X Ids)]
    /\ \A d \in Demuxes : \A x, y \in Configured[d] :
        /\ x[1] = y[1] => x = y
        /\ x[2] = "AuxInput" => x[1] \in HasAux
ASSUME NoneIsNoTarget == {None, Loose} \cap (Targets \cup (Demuxes \X Ids)) = {}

VARIABLES
    members,    \* the users that are in the channel now
    links,      \* primaryOutputLinks_: identifier to the link's target
    inputs,     \* links_ of every user: the source of each input's link
    saved,      \* outputNames_: a set of <<target, input rank, identifier>>
    half,       \* the connectPrimaryOutput() calls that have made a link and go on
    clashes,    \* ghost: <<demultiplexer, user>> that two calls were connecting at once
    crashed,    \* the process has died, or used what it had deleted
    calls

demux == <<members, links, inputs, saved, half, clashes, crashed, calls>>

\* A call with a new link: its number, how far it is, and its target, None once the target
\* or the link it holds has been deleted, and for a null pointer.
HalfMade == [no : 1..MaxCalls, at : {"new", "checked", "connected"}, d : Demuxes, id : Ids,
             target : Users \cup {None}, in : InRanks]

DemuxTypeOK ==
    /\ members \subseteq Users
    /\ links \in [Demuxes -> [Ids -> Targets \cup {None, Loose}]]
    /\ inputs \in [Users -> [InRanks -> (Demuxes \X Ids) \cup {None}]]
    /\ saved \in [Demuxes -> SUBSET (Users \X InRanks \X Ids)]
    /\ half \subseteq HalfMade
    /\ clashes \subseteq Demuxes \X Users
    /\ crashed \in BOOLEAN
    /\ calls \in 0..MaxCalls

\* What the constructors, in some order, have made of the settings: an output is connected
\* unless its target is not there, another of its identifier came first, or another
\* demultiplexer took its input over.
Constructed(l) ==
    /\ \A d \in Demuxes, id \in Ids :
        l[d][id] = None \/ \E e \in Configured[d] :
            e[1] \in members /\ e[3] = id /\ l[d][id] = <<e[1], e[2]>>
    /\ \A t \in Targets : \A o, p \in Demuxes \X Ids :
        l[o[1]][o[2]] = t /\ l[p[1]][p[2]] = t => o = p
    /\ \A d \in Demuxes : \A e \in Configured[d] :
        e[1] \in members =>
            \/ \E f \in Configured[d] \ {e} : f[1] \in members /\ f[3] = e[3]
            \/ \E c \in Demuxes, id \in Ids : l[c][id] = <<e[1], e[2]>>

DemuxInit ==
    /\ members \in SUBSET Users
    /\ links \in {l \in [Demuxes -> [Ids -> Targets \cup {None}]] : Constructed(l)}
    /\ inputs = [u \in Users |-> [r \in InRanks |->
          IF \E o \in Demuxes \X Ids : links[o[1]][o[2]] = <<u, r>>
          THEN CHOOSE o \in Demuxes \X Ids : links[o[1]][o[2]] = <<u, r>> ELSE None]]
    /\ saved = Configured
    /\ half = {}
    /\ clashes = {}
    /\ crashed = FALSE
    /\ calls = 0

State == [links |-> links, inputs |-> inputs]

\* Mutant: the link's destructor does not tell the demultiplexer.
FreeTargetOnly(s, d, id) ==
    IF s.links[d][id] \in Targets
    THEN LET t == s.links[d][id]
         IN  [s EXCEPT !.inputs[t[1]][t[2]] = None]
    ELSE s

\* deleteLink_(): ~HandlerLink() clears the target's slot and takes the entry
\* out of the map.  A link without a target has no source either and leaves
\* the map alone.
Free(s, d, id) ==
    IF s.links[d][id] \in Targets
    THEN LET t == s.links[d][id]
         IN  [s EXCEPT !.inputs[t[1]][t[2]] = None, !.links[d][id] = None]
    ELSE s

\* setLink_() of the target: the link already in the slot is deleted.
FreeInput(s, u, r) ==
    LET from == s.inputs[u][r]
    IN  IF from = None THEN s ELSE Free(s, from[1], from[2])

-----------------------------------------------------------------------------
(* Management calls.                                                       *)

Manage ==
    /\ ~crashed
    /\ calls < MaxCalls
    /\ calls' = calls + 1

\* The target of a link, a null pointer for one without.
TargetOf(l) == IF l \in Targets THEN l[1] ELSE None

\* Channel::find(): a null pointer when there is no such handler.
Found(u) == IF u \in members THEN u ELSE None

\* Calls whose new link has been deleted, or whose target has.
LinkDeleted(d, id) ==
    {IF h.d = d /\ h.id = id /\ h.at # "connected" THEN [h EXCEPT !.target = None] ELSE h :
        h \in half}
TargetDeleted(u) == {IF h.target = u THEN [h EXCEPT !.target = None] ELSE h : h \in half}

\* connectPrimaryOutput() up to the new link in the map.  To disconnect a link without a
\* target dereferences it as soon as there is a setting to compare.
BeginConnect(d, id, u, r) ==
    LET old == links[d][id]
        freed == Free(State, d, id)
        new == [no |-> calls', at |-> "new", d |-> d, id |-> id, target |-> Found(u), in |-> r]
    IN  /\ Manage
        /\ \/ /\ old # None /\ TargetOf(old) = Found(u)
              /\ UNCHANGED <<links, inputs, saved, half, crashed>>
           \/ /\ old = Loose /\ Found(u) # None
              /\ saved[d] # {}
              /\ crashed' = TRUE
              /\ UNCHANGED <<links, inputs, saved, half>>
           \/ /\ old = None \/ TargetOf(old) # Found(u)
              /\ old = Loose => saved[d] = {}
              /\ inputs' = freed.inputs
              /\ links' = [freed.links EXCEPT ![d][id] = Loose]
              /\ saved' = [saved EXCEPT ![d] = {e \in @ : e[1] # TargetOf(old)}]
              /\ half' = (IF old = Loose THEN LinkDeleted(d, id) ELSE half) \cup {new}
              /\ UNCHANGED crashed
        /\ UNCHANGED <<members, clashes>>

\* isCircularConnection(): the target is an output already.
Circular(d, u) == \E id \in Ids : TargetOf(links[d][id]) = u

\* Mutant: the entry of the target is found, its identifier is left as it is.
RecordRank(list, u, r, id) ==
    IF \E e \in list : e[1] = u
    THEN {IF e[1] = u THEN <<u, r, e[3]>> ELSE e : e \in list}
    ELSE list \cup {<<u, r, id>>}

\* Mutant: the input's rank is left out of a new entry.
RecordNoRank(list, u, r, id) == list \cup {<<u, id>>}

\* The settings: the entry of the target is changed, or a new one added.
Record(list, u, r, id) == {e \in list : e[1] # u} \cup {<<u, r, id>>}

\* Another call that has found no circle for this target and has not recorded it.
Past(d, u) == {g \in half : g.at # "new" /\ g.d = d /\ g.target = u}

\* connectSourceToTarget() until nothing can throw.  An exception leaves the new link in
\* the map.
Check(h) ==
    /\ ~crashed /\ h.at = "new" /\ h.target # None
    /\ LET refused == Circular(h.d, h.target) \/ (h.in = "AuxInput" /\ h.target \notin HasAux)
       IN  \/ /\ refused
              /\ half' = half \ {h}
              /\ UNCHANGED clashes
           \/ /\ ~refused
              /\ half' = (half \ {h}) \cup {[h EXCEPT !.at = "checked"]}
              /\ clashes' = clashes \cup
                    {<<h.d, h.target>> : g \in Past(h.d, h.target)}
    /\ UNCHANGED <<members, links, inputs, saved, crashed, calls>>

\* The two ends of the new link are set.
Connect(h) ==
    /\ ~crashed /\ h.at = "checked" /\ h.target # None
    /\ half' = (half \ {h}) \cup {[h EXCEPT !.at = "connected"]}
    /\ LET freed == FreeInput(State, h.target, h.in)
       IN  /\ links' = [freed.links EXCEPT ![h.d][h.id] = <<h.target, h.in>>]
           /\ inputs' = [freed.inputs EXCEPT ![h.target][h.in] = <<h.d, h.id>>]
    /\ UNCHANGED <<members, saved, clashes, crashed, calls>>

\* connectPrimaryOutput() after the connection.
EndConnect(h) ==
    /\ ~crashed /\ h.at = "connected" /\ h.target # None
    /\ half' = half \ {h}
    /\ saved' = [saved EXCEPT ![h.d] = Record(@, h.target, h.in, h.id)]
    /\ UNCHANGED <<members, links, inputs, clashes, crashed, calls>>

\* A null target is dereferenced for its name, a deleted target or link is used.
Dangle(h) ==
    /\ ~crashed /\ h.target = None
    /\ crashed' = TRUE
    /\ UNCHANGED <<members, links, inputs, saved, half, clashes, calls>>

GoOn(h) == Check(h) \/ Connect(h) \/ EndConnect(h) \/ Dangle(h)

\* Channel::remove() of a user: withdraw() deletes its links, the settings of
\* the demultiplexer stay.
RemoveUser(u) ==
    /\ Manage
    /\ u \in members
    /\ members' = members \ {u}
    /\ LET freed == FreeInput(FreeInput(State, u, "PrimaryInput"), u, "AuxInput")
       IN  /\ links' = freed.links
           /\ inputs' = freed.inputs
    /\ half' = TargetDeleted(u)
    /\ UNCHANGED <<saved, clashes, crashed>>

AddUser(u) ==
    /\ Manage
    /\ u \notin members
    /\ members' = members \cup {u}
    /\ UNCHANGED <<links, inputs, saved, half, clashes, crashed>>

Reconfigure ==
    \/ \E d \in Demuxes, id \in Ids, u \in Users, r \in InRanks : BeginConnect(d, id, u, r)
    \/ \E u \in Users : RemoveUser(u) \/ AddUser(u)

-----------------------------------------------------------------------------
\* The two ends of every link agree: an identifier leads to a user's input
\* exactly when that input's slot holds the link of that identifier
\* (HandlerLink.cpp:40-65 clears what it finds through both pointers).
OutputsAgree ==
    \A d \in Demuxes, id \in Ids, u \in Users, r \in InRanks :
        links[d][id] = <<u, r>> <=> inputs[u][r] = <<d, id>>

\* An identifier's target is in the settings with its input, so a saved configuration omits no
\* output (TM_Demux_Base.cpp:127-143), once the call that connects it is over: whatever other
\* calls are half made, except that two may find at once that their target has no output yet
\* (HandlerLink.cpp:86) and then change or delete each other's entry.
RoutesAreSaved ==
    \A d \in Demuxes, id \in Ids :
        LET l == links[d][id]
        IN  /\ l \in Targets
            /\ <<d, l[1]>> \notin clashes
            /\ ~\E h \in half : h.at = "connected" /\ h.d = d /\ h.id = id /\ h.target = l[1]
            => <<l[1], l[2], id>> \in saved[d]

\* What the code means to hold, once no call is half made.
EveryRouteSaved ==
    half = {} =>
        \A d \in Demuxes, id \in Ids :
            LET l == links[d][id] IN l \in Targets => <<l[1], l[2], id>> \in saved[d]
=============================================================================
