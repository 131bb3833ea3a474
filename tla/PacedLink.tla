----------------------------- MODULE PacedLink ------------------------------
(***************************************************************************)
(* A periodic segment whose link's transmitter sends to modEmulateDelay:   *)
(* two service threads, the thread the segment sends on, and a management  *)
(* thread that changes what either of them goes by.                        *)
(***************************************************************************)
EXTENDS PeriodicTransmitter, modEmulateDelay

CONSTANT MaxCalls   \* bound: management calls

VARIABLE calls

vars == <<txvars, delayvars, calls>>

ASSUME PacedAssumption == MaxUnit = MaxUnits /\ MaxCalls \in Nat

\* Types of both segments.
TypeOK == TxTypeOK /\ DelayTypeOK /\ calls \in 0..MaxCalls

Init == TxInit /\ DelayInit /\ calls = 0

Segment    == (LinkSend \/ Rebuild) /\ UNCHANGED <<delayvars, calls>>
Transmit   == TxStep /\ UNCHANGED <<delayvars, calls>>
\* putData() runs on the transmitter's thread, in its send().
HandOver   == /\ \/ Awake /\ data # Nothing /\ PutData(data.id, data.age) /\ UNCHANGED txvars
                 \/ TxSend /\ Enqueue
              /\ UNCHANGED calls
DelayStep  == (Dequeue \/ Send) /\ UNCHANGED <<txvars, calls>>
InCall     == (SetUpdated \/ Pulse) /\ UNCHANGED <<delayvars, calls>>
Tick       == TxTick /\ DelayTick /\ UNCHANGED calls

\* One management call at a time.  Clearing the time line is not counted: there is no more
\* than one call of that for each that made one.
CallInterval == /\ calls < MaxCalls /\ calls' = calls + 1 /\ UNCHANGED delayvars
                /\ \E i \in Intervals : SetInterval(i)
CallDelay    == /\ calls < MaxCalls /\ calls' = calls + 1 /\ setter = "idle" /\ UNCHANGED txvars
                /\ \/ \E d \in Delays, start \in Starts \cup {0} : SetDelay(d, start)
                   \/ \E allow \in BOOLEAN : SetAllowJitterReorder(allow)
CallClear    == setter = "idle" /\ ClearTimeLine /\ UNCHANGED <<txvars, calls>>

Next == \/ Segment \/ Transmit \/ HandOver \/ DelayStep \/ InCall \/ Tick
        \/ CallInterval \/ CallDelay \/ CallClear

Spec == Init /\ [][Next]_vars

\* Time goes by, each thread runs on, a call that has begun is finished.
FairSpec == /\ Spec
            /\ WF_vars(Tick) /\ WF_vars(Transmit \/ HandOver)
            /\ WF_vars(DelayStep) /\ WF_vars(InCall)

-----------------------------------------------------------------------------
Passing == [i \in DOMAIN delayQueue |-> delayQueue[i].id]
Carries == data # Nothing /\ data.id # Idle
InTransmitter == (IF Carries THEN <<data>> ELSE <<>>) \o txQueue

\* The transmitter passes on each unit it was given, once and in order: those it still has are
\* the last ones, in order, and the others are past it, whatever wakes it and for whatever
\* reason (PeriodicTransmitter::svc(), PeriodicLink::send()).
PassedInOrder ==
    LET gone == put - Len(InTransmitter)
        past == left \cup (ToSet(Passing) \ {0}) \cup
                (IF held = Nobody THEN {} ELSE {held.id} \ {0})
    IN /\ \A i \in DOMAIN InTransmitter : InTransmitter[i].id = gone + i
       /\ past = 1..gone

\* The state is of its types, and the transmitter neither loses, repeats nor reorders.
UnitsInOrder == TypeOK /\ PassedInOrder

\* While the segment has idle units, a slot is left unfilled only for a change of interval, one
\* slot for each at most: the flag that tells a pulse from a timeout does not outlive its
\* change (PeriodicTransmitter.cpp:69-73).
SlotsFilled == spareSlots >= 0

\* Every unit is kept for the delay that was in force when it came, by the last period begun,
\* counted from its creation if so configured (modEmulateDelay::putData(), TimeLine::get()).
NoneEarly == [][Send => held.owed = 0]_vars

\* Each time reordering is switched off, at most one unit more is queued by its deadline, by the
\* call of putData() that had settled its place (modEmulateDelay.cpp:177), and at most one that
\* came to the queue since is taken before an earlier one, by the call of getData_() that waited
\* (modEmulateDelay.cpp:193).
OneOutOfTurn == spareTurns >= 0

\* Every unit the segment has sent leaves the delay in the end, through changes of interval,
\* pulses and timeouts, changes of delay and order (there are MaxUnits of them at most).
EveryUnitLeaves == []<>(left = 1..put)

\* A change from or to periodic sending is heard (PeriodicTransmitter.cpp:116 "Wake up getq in
\* svc() to use the new interval."): once the call is over, svc() goes by it.
ChangeHeard ==
    \A i \in Intervals :
        [](  [](_interval = i /\ setter = "idle") => <>(isPeriodic = (i > 0)) )
=============================================================================
