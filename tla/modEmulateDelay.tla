-------------------------- MODULE modEmulateDelay ---------------------------
(***************************************************************************)
(* The segment that holds units for a time: putData(), on the sender's     *)
(* thread, gives each a deadline and queues it, in order of arrival or of  *)
(* deadlines; svc() takes a unit, sleeps until its deadline and sends it.  *)
(* Management calls change the delay, its time line and the order.  Times  *)
(* are kept relative to now.                                               *)
(***************************************************************************)
EXTENDS TimeLine, FiniteSets, SequencesExt

CONSTANTS
    Delays,      \* delays that may be set, in ticks
    FirstDelay, FirstReorder, \* those of the settings
    Jitter,      \* the greatest jitter, the same throughout
    Starts,      \* times at which a period of the time line may begin
    Cycle,       \* timeLineCycleSecs
    UseTimeStamp,\* delays are counted from a unit's creation
    HighWater,   \* bound: units the queue takes
    MaxUnit,     \* bound: units but for idle ones, which are numbered 0
    Nobody       \* no unit

\* due: its deadline from now; owed: how long it must still be kept, by the definition of the
\* delay; free: reordering has been allowed while it was in the queue, or, of a unit that is not
\* there yet, when putData() settled its place.
Longest == Jitter + CHOOSE d \in Delays : \A e \in Delays : e <= d
DelayUnits == [id : 0..MaxUnit, due : -Longest..Longest, owed : 0..Longest, free : BOOLEAN]

\* There is a longest delay; no time that is kept is beyond MaxTime.
ASSUME DelayAssumption ==
    /\ Delays \subseteq Nat /\ FirstDelay \in Delays /\ FirstReorder \in BOOLEAN /\ Jitter \in Nat
    /\ Starts \subseteq Nat \ {0} /\ IsFiniteSet(Starts)
    /\ Cycle \in Nat /\ UseTimeStamp \in BOOLEAN /\ HighWater \in Nat \ {0} /\ MaxUnit \in Nat
    /\ (\A s \in Starts : s < MaxTime) /\ Cycle <= MaxTime
    /\ (\E d \in Delays : \A e \in Delays : e <= d) /\ Nobody \notin DelayUnits

VARIABLES
    _delaySeconds,
    _timeLine,          \* <<>> for none
    _allowJitterReorder,
    elapsed,            \* scenario time, as far as the time line tells it apart
    coming,             \* local to putData(): the unit it will queue, or waits to
    delayQueue,
    mode,               \* local to getData_(): the order it read, for the call it waits in
    held,               \* the unit svc() has taken, and sleeps for
    left,               \* history: units sent on, but idle ones
    spareTurns          \* history: changes of the order to that of arrival, and calls of putData()
                        \* that one overtook, less the units taken before an earlier one, or
                        \* queued by their deadline, without leave

delayvars == <<_delaySeconds, _timeLine, _allowJitterReorder, elapsed, coming, delayQueue, mode,
               held, left, spareTurns>>
settings  == <<_delaySeconds, _timeLine, _allowJitterReorder>>
dlyhistory == <<left, spareTurns>>

DelayTypeOK ==
    /\ _delaySeconds \in Delays
    /\ _timeLine \in Seq([start : Nat, stop : Nat, val : Delays])
    /\ _allowJitterReorder \in BOOLEAN
    /\ elapsed \in Nat /\ delayQueue \in Seq(DelayUnits) /\ Len(delayQueue) <= HighWater
    /\ mode \in BOOLEAN /\ held \in DelayUnits \cup {Nobody} /\ coming \in DelayUnits \cup {Nobody}
    /\ left \subseteq 1..MaxUnit /\ spareTurns \in Int

DelayInit ==
    /\ _delaySeconds = FirstDelay /\ _timeLine = <<>> /\ _allowJitterReorder = FirstReorder
    /\ elapsed = 0 /\ coming = Nobody /\ delayQueue = <<>> /\ mode = FirstReorder /\ held = Nobody
    /\ left = {} /\ spareTurns = 0

-----------------------------------------------------------------------------
(* Management calls.                                                       *)

\* setDelayAndJitter(): with a start time, a period of the time line, which begins with the
\* delay of then; without, the delay for when there is no time line.
SetDelay(d, start) ==
    /\ IF start > 0
       THEN LET timeLine == IF _timeLine = <<>> THEN TimeLine(_delaySeconds) ELSE _timeLine IN
            /\ CanAppend(timeLine, start)
            /\ _timeLine' = AppendPeriod(timeLine, start, d)
            /\ UNCHANGED _delaySeconds
       ELSE _delaySeconds' = d /\ UNCHANGED _timeLine
    /\ UNCHANGED <<_allowJitterReorder, elapsed, coming, delayQueue, mode, held, dlyhistory>>

ClearTimeLine ==
    /\ _timeLine # <<>> /\ _timeLine' = <<>>
    /\ UNCHANGED <<_delaySeconds, _allowJitterReorder, elapsed, coming, delayQueue, mode, held,
                   dlyhistory>>

\* putData() goes by the order of deadlines.
ByDeadlines == coming # Nobody /\ coming.free

SetAllowJitterReorder(allow) ==
    /\ allow # _allowJitterReorder
    /\ _allowJitterReorder' = allow
    /\ spareTurns' = spareTurns + (IF allow THEN 0 ELSE IF ByDeadlines THEN 2 ELSE 1)
    /\ delayQueue' = [i \in DOMAIN delayQueue |-> [delayQueue[i] EXCEPT !.free = @ \/ allow]]
    /\ UNCHANGED <<_delaySeconds, _timeLine, elapsed, coming, mode, held, left>>

-----------------------------------------------------------------------------
\* getDelaySeconds().
Delay == IF _timeLine = <<>> THEN _delaySeconds ELSE Get(_timeLine, elapsed, Cycle)

\* The delay by its definition: that of the period that has begun last.
DelayMeant == IF _timeLine = <<>> THEN _delaySeconds ELSE ValueAt(_timeLine, elapsed, Cycle)

NotBelow(x, low) == IF x < low THEN low ELSE x

\* enqueue_deadline(): before the first that is due later.
ByDeadline(q, u) ==
    LET later == {i \in DOMAIN q : q[i].due > u.due} IN
    IF later = {} THEN Append(q, u)
    ELSE InsertAt(q, CHOOSE i \in later : \A j \in later : i <= j, u)

\* msg_deadline_time(), from now.
Deadline(delay, age) == IF UseTimeStamp THEN NotBelow(delay - age, -Longest) ELSE delay

\* Mutant: the order is that of the settings.
PutDataFixed(id, age) ==
    /\ coming = Nobody
    /\ coming' = [id |-> id, due |-> Deadline(Delay, age), owed |-> 0, free |-> FirstReorder]
    /\ UNCHANGED <<settings, elapsed, delayQueue, mode, held, dlyhistory>>

\* putData() until it queues the unit: its deadline, and whether that is to decide its place.
\* The jitter drawn is none or the greatest.
PutData(id, age) ==
    /\ coming = Nobody
    /\ \E jitter \in {0, Jitter} :
          coming' = [id |-> id, due |-> Deadline(Delay + jitter, age),
                     owed |-> NotBelow(DelayMeant - (IF UseTimeStamp THEN age ELSE 0), 0),
                     free |-> _allowJitterReorder]
    /\ UNCHANGED <<settings, elapsed, delayQueue, mode, held, dlyhistory>>

\* Mutant: a full queue takes one more.
EnqueueOver ==
    /\ coming # Nobody /\ Len(delayQueue) <= HighWater
    /\ delayQueue' = Append(delayQueue, coming) /\ coming' = Nobody
    /\ UNCHANGED <<settings, elapsed, mode, held, dlyhistory>>

\* enqueue_deadline() or enqueue_tail(), which block while the queue is full.
Enqueue ==
    /\ coming # Nobody /\ Len(delayQueue) < HighWater
    /\ LET u == [coming EXCEPT !.free = @ \/ _allowJitterReorder]
       IN delayQueue' = IF coming.free THEN ByDeadline(delayQueue, u) ELSE Append(delayQueue, u)
    /\ coming' = Nobody
    /\ spareTurns' = IF coming.free /\ ~_allowJitterReorder THEN spareTurns - 1 ELSE spareTurns
    /\ UNCHANGED <<settings, elapsed, mode, held, left>>

-----------------------------------------------------------------------------
(* svc() and getData_().                                                   *)

Earliest == CHOOSE i \in DOMAIN delayQueue :
                \A j \in DOMAIN delayQueue :
                    \/ delayQueue[i].due < delayQueue[j].due
                    \/ delayQueue[i].due = delayQueue[j].due /\ i <= j

\* An earlier unit is still waiting, and this one was never under the order of deadlines.
Jumps(u) == /\ u.id # 0 /\ ~u.free
            /\ \E i \in DOMAIN delayQueue : delayQueue[i].id \in 1..(u.id - 1)

\* dequeue_deadline() or dequeue_head(), by the order that was read before it waited.
Dequeue ==
    /\ held = Nobody /\ delayQueue # <<>>
    /\ LET k == IF mode THEN Earliest ELSE 1 IN
       /\ held' = delayQueue[k] /\ delayQueue' = RemoveAt(delayQueue, k)
       /\ spareTurns' = IF Jumps(delayQueue[k]) THEN spareTurns - 1 ELSE spareTurns
    /\ UNCHANGED <<settings, elapsed, coming, mode, left>>

\* Mutant: the order is read once, when the service starts.
SendSameMode ==
    /\ held # Nobody /\ held.due <= 0 /\ held' = Nobody
    /\ left' = left \cup ({held.id} \ {0})
    /\ UNCHANGED <<settings, elapsed, coming, delayQueue, mode, spareTurns>>

\* nanosleep() until the deadline, one that is past being an error that is ignored; the unit
\* is sent, and the order read for the next.
Send ==
    /\ held # Nobody /\ held.due <= 0 /\ held' = Nobody
    /\ left' = left \cup ({held.id} \ {0})
    /\ mode' = _allowJitterReorder
    /\ UNCHANGED <<settings, elapsed, coming, delayQueue, spareTurns>>

-----------------------------------------------------------------------------
Nearer(u) == IF u = Nobody THEN u
             ELSE [u EXCEPT !.due = NotBelow(@ - 1, -Longest), !.owed = NotBelow(@ - 1, 0)]

\* Beyond the last start of a period, or round the cycle.
Later(t) == IF Cycle > 0 THEN (t + 1) % Cycle
            ELSE IF \E s \in Starts : t < s THEN t + 1 ELSE t

\* The clock.
DelayTick ==
    /\ elapsed' = Later(elapsed)
    /\ delayQueue' = [i \in DOMAIN delayQueue |-> Nearer(delayQueue[i])]
    /\ held' = Nearer(held) /\ coming' = Nearer(coming)
    /\ UNCHANGED <<settings, mode, dlyhistory>>
=============================================================================
