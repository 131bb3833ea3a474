------------------------ MODULE PeriodicTransmitter -------------------------
(***************************************************************************)
(* The thread between a periodic segment and its target: PeriodicLink puts *)
(* units in the transmitter's queue, svc() sends one at every interval, an *)
(* idle unit of the segment's when there is none, or each as it comes when *)
(* the interval is zero.  A management call changes the interval meanwhile *)
(* and pulses the queue.  Times are kept relative to now.                  *)
(***************************************************************************)
EXTENDS Integers, Sequences, SequencesExt

CONSTANTS
    Intervals,   \* intervals that may be set, in ticks; 0 is asynchronous
    FirstInterval, \* that of the settings
    MaxUnits,    \* bound: units the segment sends
    MaxAge,      \* bound: the greatest age of a unit that is told apart
    MaxLag,      \* bound: how far behind the clock sendTime is remembered
    Nothing      \* no unit

Idle == 0
TxUnits == [id : 0..MaxUnits, age : 0..MaxAge]

ASSUME PeriodicAssumption ==
    /\ Intervals \subseteq Nat /\ FirstInterval \in Intervals
    /\ MaxUnits \in Nat /\ MaxAge \in Nat /\ MaxLag \in Nat /\ Nothing \notin TxUnits

VARIABLES
    _interval, _intervalUpdated,
    txQueue,     \* the transmitter's message queue
    pulsed,      \* it has been pulsed since it was opened
    woken,       \* and that has woken the thread, which was waiting
    isPeriodic,  \* local to svc()
    untilSend,   \* local to svc(): sendTime, from now
    data,        \* local to svc()
    tx,          \* where svc() is
    setter,      \* where the management call in setInterval() is
    idleUnitTemplate_, \* the segment has an idle unit to give
    put,         \* units the segment has sent
    spareSlots   \* history: changes of the interval so far, less the slots in which no unit was
                 \* sent though there was one to send

threadvars == <<isPeriodic, untilSend, data, tx>>
queuevars  == <<txQueue, pulsed, woken>>
txvars == <<_interval, _intervalUpdated, queuevars, threadvars, setter, idleUnitTemplate_,
            put, spareSlots>>

TxTypeOK ==
    /\ _interval \in Intervals /\ _intervalUpdated \in BOOLEAN
    /\ txQueue \in Seq(TxUnits) /\ pulsed \in BOOLEAN /\ woken \in BOOLEAN
    /\ isPeriodic \in BOOLEAN /\ untilSend \in Int /\ untilSend >= -MaxLag
    /\ data \in TxUnits \cup {Nothing}
    /\ tx \in {"loop", "slot", "getq", "waiting", "sleep"}
    /\ setter \in {"idle", "flag", "pulse"} /\ idleUnitTemplate_ \in BOOLEAN
    /\ put \in 0..MaxUnits /\ spareSlots \in Int

TxInit ==
    /\ _interval = FirstInterval /\ _intervalUpdated = FALSE
    /\ txQueue = <<>> /\ pulsed = FALSE /\ woken = FALSE
    /\ isPeriodic = FALSE /\ untilSend = 0 /\ data = Nothing
    /\ tx = "loop" /\ setter = "idle" /\ idleUnitTemplate_ = FALSE
    /\ put = 0 /\ spareSlots = 0

\* What the thread leaves alone at every step.
Others == <<setter, put, idleUnitTemplate_>>

-----------------------------------------------------------------------------
(* The segment.                                                            *)

\* Mutant: a change of interval has deactivated the queue.
LinkSendRefused ==
    /\ put < MaxUnits
    /\ put' = put + 1
    /\ txQueue' = IF pulsed THEN txQueue ELSE Append(txQueue, [id |-> put + 1, age |-> 0])
    /\ UNCHANGED <<_interval, _intervalUpdated, pulsed, woken, threadvars, setter,
                   idleUnitTemplate_, spareSlots>>

\* PeriodicLink::send(): a new unit, on the transmitter's queue.
LinkSend ==
    /\ put < MaxUnits
    /\ put' = put + 1
    /\ txQueue' = Append(txQueue, [id |-> put + 1, age |-> 0])
    /\ UNCHANGED <<_interval, _intervalUpdated, pulsed, woken, threadvars, setter,
                   idleUnitTemplate_, spareSlots>>

\* rebuildIdleUnitTemplate_(), when the segment has learnt enough to make one.
Rebuild ==
    /\ ~idleUnitTemplate_ /\ idleUnitTemplate_' = TRUE
    /\ UNCHANGED <<_interval, _intervalUpdated, queuevars, threadvars, setter, put, spareSlots>>

-----------------------------------------------------------------------------
(* setInterval(), by a management call.                                    *)

SetInterval(i) ==
    /\ setter = "idle" /\ i # _interval
    /\ _interval' = i /\ setter' = "flag" /\ spareSlots' = spareSlots + 1
    /\ UNCHANGED <<_intervalUpdated, queuevars, threadvars, idleUnitTemplate_, put>>

SetUpdated ==
    /\ setter = "flag" /\ setter' = "pulse" /\ _intervalUpdated' = TRUE
    /\ UNCHANGED <<_interval, queuevars, threadvars, idleUnitTemplate_, put, spareSlots>>

\* pulse() wakes whoever waits on the queue, and no one who is about to.
Pulse ==
    /\ setter = "pulse" /\ setter' = "idle"
    /\ pulsed' = TRUE /\ woken' = (tx = "waiting")
    /\ UNCHANGED <<_interval, _intervalUpdated, txQueue, threadvars, idleUnitTemplate_,
                   put, spareSlots>>

-----------------------------------------------------------------------------
(* svc().                                                                  *)

\* The interval is read once to see whether there is one,
Loop ==
    /\ tx = "loop"
    /\ isPeriodic' = (_interval > 0)
    /\ tx' = IF _interval > 0 THEN "slot" ELSE "getq"
    /\ UNCHANGED <<_interval, _intervalUpdated, queuevars, untilSend, data, spareSlots, Others>>

\* and once more for the time of the next unit.  A sendTime that MaxLag or more behind has been
\* forgotten may be any of those.
Slot ==
    /\ tx = "slot" /\ tx' = "getq"
    /\ untilSend' \in IF untilSend = -MaxLag THEN -MaxLag..(_interval - MaxLag)
                      ELSE {untilSend + _interval}
    /\ UNCHANGED <<_interval, _intervalUpdated, queuevars, isPeriodic, data, spareSlots, Others>>

\* Mutant: the unit that was taken stays on the queue.
GetqAgain ==
    /\ tx \in {"getq", "waiting"} /\ txQueue # <<>>
    /\ data' = Head(txQueue) /\ UNCHANGED txQueue
    /\ tx' = "sleep" /\ woken' = FALSE
    /\ UNCHANGED <<_interval, _intervalUpdated, pulsed, isPeriodic, untilSend, spareSlots, Others>>

\* getq() with a unit on the queue.
Getq ==
    /\ tx \in {"getq", "waiting"} /\ txQueue # <<>>
    /\ data' = Head(txQueue) /\ txQueue' = Tail(txQueue)
    /\ tx' = "sleep" /\ woken' = FALSE
    /\ UNCHANGED <<_interval, _intervalUpdated, pulsed, isPeriodic, untilSend, spareSlots, Others>>

Wait ==
    /\ tx = "getq" /\ txQueue = <<>> /\ tx' = "waiting"
    /\ UNCHANGED <<_interval, _intervalUpdated, queuevars, isPeriodic, untilSend, data, spareSlots, Others>>

\* getq() returns without a unit: sendTime has come, the queue was pulsed, or a unit has come
\* on a queue that has been pulsed once.  A unit may have come just before.
GetqFails ==
    /\ tx = "waiting"
    /\ (isPeriodic /\ untilSend <= 0) \/ woken \/ (pulsed /\ txQueue # <<>>)

\* Mutant: the flag stays up once the change has been seen.
HeardStaysUp ==
    /\ GetqFails /\ isPeriodic /\ _intervalUpdated
    /\ UNCHANGED _intervalUpdated
    /\ tx' = "loop" /\ woken' = FALSE
    /\ spareSlots' = spareSlots - 1
    /\ UNCHANGED <<_interval, txQueue, pulsed, isPeriodic, untilSend, data, Others>>

\* A slot that a change of interval cut short, or is taken to have: no unit is sent in it.
Heard ==
    /\ GetqFails /\ isPeriodic /\ _intervalUpdated
    /\ _intervalUpdated' = FALSE
    /\ tx' = "loop" /\ woken' = FALSE
    /\ spareSlots' = spareSlots - 1
    /\ UNCHANGED <<_interval, txQueue, pulsed, isPeriodic, untilSend, data, Others>>

\* An idle unit, if the segment can give one: idleCount_ counts those.
GetIdleUnit ==
    /\ GetqFails /\ isPeriodic /\ ~_intervalUpdated
    /\ IF idleUnitTemplate_
       THEN data' = [id |-> Idle, age |-> 0] /\ tx' = "sleep"
       ELSE tx' = "loop" /\ UNCHANGED data
    /\ woken' = FALSE
    /\ UNCHANGED <<_interval, _intervalUpdated, txQueue, pulsed, isPeriodic, untilSend, spareSlots, Others>>

\* Woken without an interval to keep: nothing to send, once sendTime has come.
NothingToSend ==
    /\ GetqFails /\ ~isPeriodic
    /\ tx' = "sleep" /\ woken' = FALSE
    /\ UNCHANGED <<_interval, _intervalUpdated, txQueue, pulsed, isPeriodic, untilSend, data, spareSlots, Others>>

\* nanosleep() until sendTime, if that is to come.
Awake == tx = "sleep" /\ untilSend <= 0

SendNothing ==
    /\ Awake /\ data = Nothing /\ tx' = "loop"
    /\ UNCHANGED <<_interval, _intervalUpdated, queuevars, isPeriodic, untilSend, data, spareSlots, Others>>

\* HandlerLink::send(): what the target does with the unit is the composition's.
TxSend ==
    /\ Awake /\ data # Nothing /\ tx' = "loop" /\ data' = Nothing
    /\ UNCHANGED <<_interval, _intervalUpdated, queuevars, isPeriodic, untilSend, spareSlots, Others>>

TxStep == \/ Loop \/ Slot \/ Getq \/ Wait
          \/ Heard \/ GetIdleUnit \/ NothingToSend \/ SendNothing

-----------------------------------------------------------------------------
LeastOf(x, y) == IF x < y THEN x ELSE y
Older(u) == IF u = Nothing THEN u ELSE [u EXCEPT !.age = LeastOf(@ + 1, MaxAge)]

\* The clock.
TxTick ==
    /\ untilSend' = IF untilSend = -MaxLag THEN untilSend ELSE untilSend - 1
    /\ txQueue' = [i \in DOMAIN txQueue |-> Older(txQueue[i])]
    /\ data' = Older(data)
    /\ UNCHANGED <<_interval, _intervalUpdated, pulsed, woken, isPeriodic, tx, setter,
                   idleUnitTemplate_, put, spareSlots>>
=============================================================================
