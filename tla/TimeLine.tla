------------------------------ MODULE TimeLine ------------------------------
(***************************************************************************)
(* A list of periods, each with a value (modules/lib/TimeLine.hpp).  A     *)
(* time line is a non-empty sequence of periods with their starts and      *)
(* stops, both included; the first is the default value's.                 *)
(***************************************************************************)
EXTENDS Integers, Sequences

CONSTANT MaxTime    \* ACE_Time_Value::max_time

ASSUME TimeLineAssumption == MaxTime \in Nat

Period(start, val) == [start |-> start, stop |-> MaxTime, val |-> val]

\* reset(): the default value from zero on.
TimeLine(defaultVal) == <<Period(0, defaultVal)>>

\* AppendFailed otherwise.
CanAppend(timeLine, start) == timeLine[Len(timeLine)].start < start

\* Mutant: the period before is not cut short.
AppendOpen(timeLine, start, val) == Append(timeLine, Period(start, val))

\* append(): the period before ends just before the new one begins.
AppendPeriod(timeLine, start, val) ==
    Append([timeLine EXCEPT ![Len(timeLine)].stop = start - 1], Period(start, val))

\* The time within the cycle, if there is one.
Modulus(t, cycle) == IF cycle > 0 THEN t % cycle ELSE t

\* get(): the value of the first period that holds the time; there always is one.
Get(timeLine, t, cycle) ==
    LET p == Modulus(t, cycle)
        holding == {i \in DOMAIN timeLine : timeLine[i].start <= p /\ p <= timeLine[i].stop}
    IN timeLine[CHOOSE i \in holding : \A j \in holding : i <= j].val

\* What it should be: the value of the last period that has begun by then.
ValueAt(timeLine, t, cycle) ==
    LET begun == {i \in DOMAIN timeLine : timeLine[i].start <= Modulus(t, cycle)}
    IN timeLine[CHOOSE i \in begun : \A j \in begun : j <= i].val
=============================================================================
