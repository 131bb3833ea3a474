-------------------------- MODULE PacedLinkProofs ---------------------------
(***************************************************************************)
(* What PacedLink promises for all values of its constants: a slot is left *)
(* unfilled at most once for each change of the interval; units pass the   *)
(* transmitter once and in order; none leaves before its delay; for each   *)
(* change of the order, one at most jumps the queue for the unit putData() *)
(* holds, and one for the call getData_() waits in.                        *)
(***************************************************************************)
EXTENDS PacedLink, WellFoundedInduction, TLAPS

-----------------------------------------------------------------------------
(* Slots.                                                                  *)

\* A change whose flag is yet to go up, or is up, has not cost its slot.
SlotInv ==
    /\ spareSlots \in Int /\ spareSlots >= 0
    /\ _intervalUpdated \in BOOLEAN /\ setter \in {"idle", "flag", "pulse"}
    /\ setter = "flag" => spareSlots >= 1
    /\ _intervalUpdated = TRUE => spareSlots >= 1
    /\ setter = "flag" /\ _intervalUpdated = TRUE => spareSlots >= 2

LEMMA SlotInit == Init => SlotInv
<1> SUFFICES ASSUME Init PROVE SlotInv
  OBVIOUS
<1>1. spareSlots = 0 /\ _intervalUpdated = FALSE /\ setter = "idle"
  BY DEF Init, TxInit
<1>2. _intervalUpdated \in BOOLEAN /\ ~(_intervalUpdated = TRUE)
  BY <1>1
<1>3. spareSlots \in Int /\ spareSlots >= 0 /\ setter \in {"idle", "flag", "pulse"} /\ setter # "flag"
  BY <1>1
<1> QED
  BY <1>2, <1>3 DEF SlotInv

\* Each action keeps the count ahead of the changes still due a slot (Heard lowers the flag).
LEMMA SlotStep == SlotInv /\ [Next]_vars => SlotInv'
<1> SUFFICES ASSUME SlotInv, [Next]_vars PROVE SlotInv'
  OBVIOUS
<1>1. CASE LinkSend \/ Rebuild
  BY <1>1 DEF SlotInv, LinkSend, Rebuild
<1>2. CASE TxStep
  <2>1. CASE Heard
    <3>1. _intervalUpdated = TRUE /\ _intervalUpdated' = FALSE /\ setter' = setter
      BY <2>1 DEF SlotInv, Heard, Others
    <3>2. spareSlots' = spareSlots - 1
      BY <2>1 DEF Heard
    <3>3. _intervalUpdated' \in BOOLEAN /\ ~(_intervalUpdated' = TRUE)
      BY <3>1
    <3>4. /\ spareSlots' \in Int /\ spareSlots' >= 0
          /\ setter = "flag" => spareSlots' >= 1
      BY <3>1, <3>2 DEF SlotInv
    <3> QED
      BY <3>1, <3>3, <3>4 DEF SlotInv
  <2>2. CASE ~Heard
    BY <1>2, <2>2 DEF SlotInv, TxStep, Loop, Slot, Getq, Wait, GetIdleUnit, NothingToSend,
        SendNothing, Others, queuevars
  <2> QED BY <2>1, <2>2
<1>3. CASE TxSend
  BY <1>3 DEF SlotInv, TxSend, Others
<1>4. CASE SetUpdated \/ Pulse
  BY <1>4 DEF SlotInv, SetUpdated, Pulse
<1>5. CASE TxTick
  BY <1>5 DEF SlotInv, TxTick
<1>6. ASSUME NEW i \in Intervals, SetInterval(i) PROVE SlotInv'
  BY <1>6 DEF SlotInv, SetInterval
<1>7. CASE UNCHANGED txvars
  BY <1>7 DEF SlotInv, txvars
<1> QED
  BY <1>1, <1>2, <1>3, <1>4, <1>5, <1>6, <1>7
     DEF Next, vars, Segment, Transmit, HandOver, DelayStep, InCall, Tick, CallInterval, CallDelay,
         CallClear

\* For all intervals and any number of units and calls: no more slots are left without a unit
\* that could have been sent than the interval was changed (PeriodicTransmitter::svc()).
THEOREM SlotsAlwaysFilled == Spec => []SlotsFilled
<1>1. SlotInv => SlotsFilled
  BY DEF SlotInv, SlotsFilled
<1> QED
  BY SlotInit, SlotStep, <1>1, PTL DEF Spec

-----------------------------------------------------------------------------
(* The transmitter.                                                        *)

\* The units past the transmitter.
Past == left \cup (ToSet(Passing) \ {0}) \cup (IF held = Nobody THEN {} ELSE {held.id} \ {0})

\* The transmitter still has all units but the first g; svc() has taken none when it asks for
\* one.
TxHas(g) ==
    /\ \A i \in DOMAIN txQueue : txQueue[i].id = (put - Len(txQueue)) + i
    /\ Carries => data.id = g + 1 /\ put - Len(txQueue) = g + 1
    /\ ~Carries => put - Len(txQueue) = g
\* The unit that putData() holds is the one the transmitter hands over.
Comes == coming # Nobody => tx = "sleep" /\ data # Nothing /\ coming.id = data.id
OrderInv ==
    /\ tx # "sleep" => data = Nothing
    /\ Comes
    /\ \E g \in Nat : TxHas(g) /\ Past = 1..g

-----------------------------------------------------------------------------
(* The delay.                                                              *)

\* The periods of a time line follow one another, from zero on, without gap or overlap.
LineInv(line) ==
    /\ line # <<>> => line[1].start = 0 /\ line[Len(line)].stop = MaxTime
    /\ \A i, j \in DOMAIN line : i < j => line[i].start < line[j].start /\ line[i].stop < line[j].start
    /\ \A i, j \in DOMAIN line : j = i + 1 => line[i].stop = line[j].start - 1

\* A unit is not due before it may go.
Owes(u) == u.owed = 0 \/ u.owed <= u.due
OwedInv ==
    /\ LineInv(_timeLine) /\ elapsed <= MaxTime
    /\ \A i \in DOMAIN delayQueue : Owes(delayQueue[i])
    /\ held # Nobody => Owes(held)
    /\ coming # Nobody => Owes(coming)

\* The order of deadlines is still gone by after it was switched off: by the call of getData_()
\* that waits, and by the call of putData() that has read it.
WaitsBy   == mode /\ ~_allowJitterReorder /\ held = Nobody
ComesBy   == ByDeadlines /\ ~_allowJitterReorder

\* A unit that was never under the order of deadlines is before all later ones, and there is none
\* while putData() goes by that order; what is still gone by after a change has not cost its turn.
TurnInv ==
    /\ spareTurns >= 0
    /\ WaitsBy => spareTurns >= 1
    /\ ComesBy => spareTurns >= 1
    /\ WaitsBy /\ ComesBy => spareTurns >= 2
    /\ _allowJitterReorder \/ ByDeadlines => \A i \in DOMAIN delayQueue : delayQueue[i].free
    /\ \A i, j \in DOMAIN delayQueue :
           ~delayQueue[i].free /\ i < j => delayQueue[j].id = 0 \/ delayQueue[i].id < delayQueue[j].id

PacedInv == TypeOK /\ OrderInv /\ OwedInv /\ TurnInv

-----------------------------------------------------------------------------
(* Least and greatest numbers, sequences.                                  *)

LEMMA Least ==
    ASSUME NEW T, T \subseteq Nat, T # {}
    PROVE  \E n \in T : \A m \in T : n <= m
<1>1. IsWellFoundedOn({ss \in Nat \X Nat : ss[1] < ss[2]}, Nat)
  BY NatLessThanWellFounded DEF OpToRel
<1>2. PICK R : IsWellFoundedOn(R, Nat) /\ \A m, n \in Nat : m < n => <<m, n>> \in R
  BY <1>1
<1>3. T \subseteq Nat /\ T # {} /\ IsWellFoundedOn(R, Nat)
  BY <1>2
<1>4. \E n \in T : \A m \in T : ~(<<m, n>> \in R)
  BY ONLY <1>3, WFMin, Zenon
<1>5. PICK n \in T : \A m \in T : ~(<<m, n>> \in R)
  BY <1>4
<1>6. \A m \in T : m \in Nat /\ ~(m < n)
  BY <1>2, <1>5
<1> QED
  BY <1>5, <1>6

LEMMA Greatest ==
    ASSUME NEW n \in Nat, NEW T, T \subseteq 1..n, T # {}
    PROVE  \E m \in T : \A k \in T : k <= m
<1> DEFINE D == {n - k : k \in T}
<1>1. D \subseteq Nat /\ D # {}
  <2>1. \A k \in T : k \in Int /\ n - k \in Nat
    OBVIOUS
  <2> QED
    BY <2>1
<1>2. PICK d \in D : \A e \in D : d <= e
  BY <1>1, Least
<1>3. PICK m \in T : d = n - m
  OBVIOUS
<1>4. \A k \in T : n - m <= n - k
  BY <1>2, <1>3
<1> QED
  BY <1>3, <1>4

LEMMA Joined ==
    ASSUME NEW S, NEW a \in Seq(S), NEW b \in Seq(S)
    PROVE  /\ a \o b \in Seq(S) /\ Len(a \o b) = Len(a) + Len(b)
           /\ \A i \in 1..(Len(a) + Len(b)) : (a \o b)[i] = IF i <= Len(a) THEN a[i] ELSE b[i - Len(a)]
OBVIOUS

LEMMA Removed ==
    ASSUME NEW S, NEW q \in Seq(S), NEW k \in 1..Len(q)
    PROVE  /\ RemoveAt(q, k) \in Seq(S) /\ Len(RemoveAt(q, k)) = Len(q) - 1
           /\ \A i \in 1..(Len(q) - 1) : RemoveAt(q, k)[i] = IF i < k THEN q[i] ELSE q[i + 1]
<1> DEFINE a == SubSeq(q, 1, k - 1)
           b == SubSeq(q, k + 1, Len(q))
<1>1. a \in Seq(S) /\ Len(a) = k - 1 /\ \A i \in 1..(k - 1) : a[i] = q[i]
  OBVIOUS
<1>2. b \in Seq(S) /\ Len(b) = Len(q) - k /\ \A i \in 1..(Len(q) - k) : b[i] = q[k + i]
  OBVIOUS
<1>3. RemoveAt(q, k) = a \o b
  BY DEF RemoveAt
<1> HIDE DEF a, b
<1>4. a \o b \in Seq(S) /\ Len(a \o b) = Len(q) - 1
  <2>1. a \o b \in Seq(S) /\ Len(a \o b) = Len(a) + Len(b)
    BY <1>1, <1>2, Joined
  <2> QED
    BY <1>1, <1>2, <2>1
<1>5. ASSUME NEW i \in 1..(Len(q) - 1) PROVE (a \o b)[i] = IF i < k THEN q[i] ELSE q[i + 1]
  <2>1. CASE i < k
    BY <1>1, <1>2, <2>1
  <2>2. CASE ~(i < k)
    <3>1. (a \o b)[i] = b[i - (k - 1)]
      BY <1>1, <1>2, <2>2
    <3>2. i - (k - 1) \in 1..(Len(q) - k) /\ k + (i - (k - 1)) = i + 1
      BY <2>2
    <3> QED
      BY <1>2, <2>2, <3>1, <3>2
  <2> QED
    BY <2>1, <2>2
<1> QED
  BY <1>3, <1>4, <1>5

LEMMA Inserted ==
    ASSUME NEW S, NEW q \in Seq(S), NEW k \in 1..Len(q), NEW u \in S
    PROVE  /\ InsertAt(q, k, u) \in Seq(S) /\ Len(InsertAt(q, k, u)) = Len(q) + 1
           /\ \A i \in 1..(Len(q) + 1) :
                InsertAt(q, k, u)[i] = IF i < k THEN q[i] ELSE IF i = k THEN u ELSE q[i - 1]
BY DEF InsertAt

-----------------------------------------------------------------------------
(* Time lines.                                                             *)

Periods == [start : Nat, stop : Nat, val : Delays]

LEMMA PeriodTypes ==
    ASSUME NEW line \in Seq(Periods)
    PROVE  /\ Len(line) \in Nat /\ DOMAIN line = 1..Len(line)
           /\ \A i \in DOMAIN line : /\ line[i] \in Periods /\ line[i].start \in Nat
                                    /\ line[i].stop \in Nat /\ line[i].val \in Delays
<1>1. \A i \in DOMAIN line : line[i] \in Periods
  OBVIOUS
<1>2. \A r \in Periods : r.start \in Nat /\ r.stop \in Nat /\ r.val \in Delays
  BY DEF Periods
<1> QED
  BY <1>1, <1>2

\* The last period that has begun is the only one that holds the time.
LEMMA OnePeriod ==
    ASSUME NEW line \in Seq(Periods), line # <<>>, LineInv(line), NEW p \in Nat, p <= MaxTime
    PROVE  \E b \in DOMAIN line :
              /\ line[b].start <= p /\ p <= line[b].stop
              /\ \A j \in DOMAIN line : line[j].start <= p => j <= b
              /\ \A j \in DOMAIN line : line[j].start <= p /\ p <= line[j].stop => j = b
<1> DEFINE T == {i \in DOMAIN line : line[i].start <= p}
<1>0. /\ Len(line) \in Nat /\ DOMAIN line = 1..Len(line)
      /\ \A i \in DOMAIN line : line[i].start \in Nat /\ line[i].stop \in Nat
  BY PeriodTypes
<1>1. Len(line) \in Nat /\ DOMAIN line = 1..Len(line) /\ Len(line) > 0
  BY <1>0
<1>2. T \subseteq 1..Len(line)
  BY <1>1
<1>3. 1 \in T
  BY <1>1 DEF LineInv
<1>4. PICK b \in T : \A k \in T : k <= b
  BY <1>1, <1>2, <1>3, Greatest
<1>5. b \in DOMAIN line /\ line[b].start <= p
  BY <1>4
<1>6. \A j \in DOMAIN line : line[j].start <= p => j <= b
  BY <1>4
<1>7. p <= line[b].stop
  <2>1. CASE b = Len(line)
    BY <1>5, <2>1, TimeLineAssumption DEF LineInv, TimeLineAssumption
  <2>2. CASE b # Len(line)
    <3>1. b + 1 \in DOMAIN line
      BY <1>1, <1>5, <2>2
    <3>2. ~(line[b + 1].start <= p)
      BY <1>1, <1>5, <1>6, <3>1
    <3>3. line[b].stop = line[b + 1].start - 1
      BY <1>5, <3>1 DEF LineInv
    <3> QED
      BY <1>0, <1>5, <3>1, <3>2, <3>3
  <2> QED
    BY <2>1, <2>2
<1>8. ASSUME NEW j \in DOMAIN line, line[j].start <= p, p <= line[j].stop PROVE j = b
  <2>1. j <= b
    BY <1>6, <1>8
  <2>2. ASSUME j < b PROVE FALSE
    <3>1. line[j].stop < line[b].start
      BY <1>5, <2>2 DEF LineInv
    <3> QED
      BY <1>0, <1>5, <1>8, <3>1
  <2> QED
    BY <1>1, <1>5, <2>1, <2>2
<1> QED
  BY <1>5, <1>6, <1>7, <1>8

\* TimeLine::get() returns the value of the last period that has begun.
LEMMA GetRight ==
    ASSUME NEW line \in Seq(Periods), line # <<>>, LineInv(line), NEW t, NEW cycle,
           Modulus(t, cycle) \in Nat, Modulus(t, cycle) <= MaxTime
    PROVE  Get(line, t, cycle) = ValueAt(line, t, cycle) /\ Get(line, t, cycle) \in Delays
<1> DEFINE p == Modulus(t, cycle)
           holding == {i \in DOMAIN line : line[i].start <= p /\ p <= line[i].stop}
           begun == {i \in DOMAIN line : line[i].start <= p}
<1>0. p \in Nat /\ p <= MaxTime
  OBVIOUS
<1> HIDE DEF p
<1>1. PICK b \in DOMAIN line :
          /\ line[b].start <= p /\ p <= line[b].stop
          /\ \A j \in DOMAIN line : line[j].start <= p => j <= b
          /\ \A j \in DOMAIN line : line[j].start <= p /\ p <= line[j].stop => j = b
  BY <1>0, OnePeriod
<1>2. holding = {b} /\ b \in begun /\ \A j \in begun : j <= b
  BY <1>1
<1>3. b \in Nat /\ DOMAIN line \subseteq Nat /\ begun \subseteq Nat
  OBVIOUS
<1> HIDE DEF holding, begun
<1>4. (CHOOSE i \in holding : \A j \in holding : i <= j) = b
  BY <1>2, <1>3
<1>5. (CHOOSE i \in begun : \A j \in begun : j <= i) = b
  BY <1>2, <1>3
<1>6. Get(line, t, cycle) = line[b].val
  BY <1>4 DEF Get, p, holding
<1>7. ValueAt(line, t, cycle) = line[b].val
  BY <1>5 DEF ValueAt, p, begun
<1> QED
  BY <1>6, <1>7, PeriodTypes

LEMMA LineBegins == ASSUME NEW v \in Delays
                    PROVE  /\ TimeLine(v) \in Seq(Periods) /\ TimeLine(v) # <<>>
                           /\ LineInv(TimeLine(v))
BY TimeLineAssumption DEF TimeLine, Period, Periods, LineInv, TimeLineAssumption

LEMMA LineGrows ==
    ASSUME NEW line \in Seq(Periods), line # <<>>, LineInv(line),
           NEW start \in Nat \ {0}, NEW v \in Delays, CanAppend(line, start)
    PROVE  /\ AppendPeriod(line, start, v) \in Seq(Periods)
           /\ AppendPeriod(line, start, v) # <<>>
           /\ LineInv(AppendPeriod(line, start, v))
<1> USE TimeLineAssumption DEF TimeLineAssumption
<1> DEFINE n == Len(line)
           cut == [line EXCEPT ![n].stop = start - 1]
           new == AppendPeriod(line, start, v)
<1>1. n \in Nat /\ n > 0 /\ DOMAIN line = 1..n /\ line[n].start < start
  BY DEF CanAppend
<1>2. cut \in Seq(Periods) /\ Len(cut) = n
  <2>1. [line[n] EXCEPT !.stop = start - 1] \in Periods
    <3>1. line[n] \in Periods /\ start - 1 \in Nat
      BY <1>1
    <3> QED
      BY <3>1 DEF Periods
  <2>2. cut = [line EXCEPT ![n] = [line[n] EXCEPT !.stop = start - 1]]
    OBVIOUS
  <2> QED
    BY <1>1, <2>1, <2>2
<1>3. Period(start, v) \in Periods
  BY DEF Period, Periods
<1>4. new = Append(cut, Period(start, v))
  BY DEF AppendPeriod
<1>5. /\ \A i \in 1..n : cut[i].start = line[i].start
      /\ \A i \in 1..n : i # n => cut[i].stop = line[i].stop
      /\ cut[n].stop = start - 1
  <2>1. \A i \in 1..n : line[i] \in Periods
    BY <1>1
  <2> QED
    BY <1>1, <2>1 DEF Periods
<1> HIDE DEF n, cut, new
<1>6. new \in Seq(Periods) /\ Len(new) = n + 1 /\ DOMAIN new = 1..(n + 1)
  BY <1>1, <1>2, <1>3, <1>4
<1>7. /\ \A i \in 1..n : new[i] = cut[i]
      /\ new[n + 1] = Period(start, v)
  BY <1>1, <1>2, <1>3, <1>4
<1>8. /\ \A i \in 1..n : new[i].start = line[i].start
      /\ \A i \in 1..n : i # n => new[i].stop = line[i].stop
      /\ new[n].stop = start - 1 /\ new[n + 1].start = start /\ new[n + 1].stop = MaxTime
  BY <1>1, <1>5, <1>7 DEF Period
<1>9. \A i \in 1..n : line[i].start \in Nat /\ line[i].stop \in Nat
  BY <1>1, PeriodTypes
<1>10. /\ line[1].start = 0
       /\ \A i, j \in 1..n : i < j => line[i].start < line[j].start /\ line[i].stop < line[j].start
       /\ \A i, j \in 1..n : j = i + 1 => line[i].stop = line[j].start - 1
  BY <1>1 DEF LineInv
<1>11. new # <<>> /\ new[1].start = 0 /\ new[Len(new)].stop = MaxTime
  BY <1>1, <1>6, <1>8, <1>10
<1>12. ASSUME NEW i \in 1..(n + 1), NEW j \in 1..(n + 1), i < j
       PROVE  new[i].start < new[j].start /\ new[i].stop < new[j].start
  <2>1. i \in 1..n /\ i # n + 1
    BY <1>1, <1>12
  <2>2. CASE j \in 1..n
    <3>1. i # n
      BY <1>12, <2>2
    <3>2. line[i].start < line[j].start /\ line[i].stop < line[j].start
      BY <1>10, <1>12, <2>1, <2>2
    <3>3. new[i].start = line[i].start /\ new[i].stop = line[i].stop /\ new[j].start = line[j].start
      BY <1>8, <2>1, <2>2, <3>1
    <3> QED
      BY <3>2, <3>3
  <2>3. CASE j = n + 1
    <3>1. new[j].start = start /\ new[i].start = line[i].start
      BY <1>8, <2>1, <2>3
    <3>2. CASE i = n
      BY <1>1, <1>8, <3>1, <3>2
    <3>3. CASE i # n
      <4>1. i < n /\ n \in 1..n
        BY <1>1, <2>1, <3>3
      <4>2. line[i].start < line[n].start /\ line[i].stop < line[n].start
        BY <1>10, <2>1, <4>1
      <4>3. new[i].stop = line[i].stop
        BY <1>8, <2>1, <3>3
      <4> QED
        BY <1>1, <1>9, <2>1, <3>1, <4>1, <4>2, <4>3
    <3> QED
      BY <3>2, <3>3
  <2> QED
    BY <1>1, <2>2, <2>3
<1>13. ASSUME NEW i \in 1..(n + 1), NEW j \in 1..(n + 1), j = i + 1
       PROVE  new[i].stop = new[j].start - 1
  <2>1. i \in 1..n
    BY <1>1, <1>13
  <2>2. CASE i = n
    BY <1>1, <1>8, <1>13, <2>2
  <2>3. CASE i # n
    <3>1. j \in 1..n
      BY <1>1, <1>13, <2>1, <2>3
    <3>2. line[i].stop = line[j].start - 1
      BY <1>10, <1>13, <2>1, <3>1
    <3> QED
      BY <1>8, <2>1, <2>3, <3>1, <3>2
  <2> QED
    BY <2>2, <2>3
<1> QED
  BY <1>6, <1>11, <1>12, <1>13 DEF LineInv, new

-----------------------------------------------------------------------------
(* The queue of the delay.                                                 *)

LEMMA LongestDelay == Longest \in Nat /\ \A d \in Delays : d \in Nat /\ d + Jitter <= Longest
<1>1. PICK m \in Delays : \A e \in Delays : e <= m
  BY DelayAssumption DEF DelayAssumption
<1>2. Delays \subseteq Nat /\ Jitter \in Nat
  BY DelayAssumption DEF DelayAssumption
<1> DEFINE c == CHOOSE d \in Delays : \A e \in Delays : e <= d
<1>3. c \in Delays /\ \A e \in Delays : e <= c
  BY <1>1
<1>4. Longest = Jitter + c
  BY DEF Longest
<1> HIDE DEF c
<1>5. c \in Nat
  BY <1>2, <1>3
<1>6. ASSUME NEW d \in Delays PROVE d \in Nat /\ d + Jitter <= Longest
  BY <1>2, <1>3, <1>4, <1>5
<1> QED
  BY <1>2, <1>4, <1>5, <1>6

LEMMA UnitTypes ==
    \A u \in DelayUnits : /\ u.id \in 0..MaxUnit /\ u.due \in Int /\ -Longest <= u.due /\ u.due <= Longest
                          /\ u.owed \in Nat /\ u.owed <= Longest /\ u.free \in BOOLEAN
BY LongestDelay DEF DelayUnits

LEMMA QueueTypes ==
    ASSUME NEW q \in Seq(DelayUnits)
    PROVE  /\ Len(q) \in Nat /\ DOMAIN q = 1..Len(q) /\ \A i \in DOMAIN q : q[i] \in DelayUnits
OBVIOUS

LEMMA EarliestIsThere ==
    ASSUME delayQueue \in Seq(DelayUnits), delayQueue # <<>>
    PROVE  Earliest \in DOMAIN delayQueue
<1> DEFINE q == delayQueue
           D == {q[i].due + Longest : i \in DOMAIN q}
<1>1. /\ Len(q) \in Nat /\ DOMAIN q = 1..Len(q) /\ 1 \in DOMAIN q
      /\ \A i \in DOMAIN q : q[i].due \in Int /\ q[i].due + Longest \in Nat
  <2>1. Len(q) \in Nat /\ DOMAIN q = 1..Len(q) /\ \A i \in DOMAIN q : q[i] \in DelayUnits
    BY QueueTypes
  <2>2. 1 \in DOMAIN q
    BY <2>1
  <2>3. ASSUME NEW i \in DOMAIN q PROVE q[i].due \in Int /\ q[i].due + Longest \in Nat
    BY <2>1, UnitTypes, LongestDelay
  <2> QED
    BY <2>1, <2>2, <2>3
<1>2. D \subseteq Nat /\ D # {}
  BY <1>1
<1>3. PICK d \in D : \A e \in D : d <= e
  BY <1>2, Least
<1> DEFINE T == {i \in DOMAIN q : q[i].due + Longest = d}
<1>4. T \subseteq Nat /\ T # {}
  BY <1>1
<1>5. PICK k \in T : \A i \in T : k <= i
  BY <1>4, Least
<1>6. k \in DOMAIN q /\ q[k].due + Longest = d
  OBVIOUS
<1>7. ASSUME NEW j \in DOMAIN q
      PROVE  q[k].due < q[j].due \/ (q[k].due = q[j].due /\ k <= j)
  <2>1. d <= q[j].due + Longest
    BY <1>3
  <2>2. q[j].due + Longest = d => k <= j
    BY <1>5
  <2>3. q[k].due \in Int /\ q[j].due \in Int /\ Longest \in Nat
    BY <1>1, <1>6, LongestDelay
  <2> HIDE DEF q, T, D
  <2> QED
    BY <1>6, <2>1, <2>2, <2>3
<1> QED
  BY <1>6, <1>7 DEF Earliest

\* r is q with u put in at place k.
Placed(r, q, k, u) ==
    /\ k \in 1..(Len(q) + 1) /\ Len(r) = Len(q) + 1
    /\ \A i \in 1..(Len(q) + 1) : r[i] = IF i < k THEN q[i] ELSE IF i = k THEN u ELSE q[i - 1]

LEMMA AppendPlaces ==
    ASSUME NEW S, NEW q \in Seq(S), NEW u \in S
    PROVE  Append(q, u) \in Seq(S) /\ Placed(Append(q, u), q, Len(q) + 1, u)
BY DEF Placed

LEMMA ByDeadlinePlaces ==
    ASSUME NEW q \in Seq(DelayUnits), NEW u \in DelayUnits
    PROVE  /\ ByDeadline(q, u) \in Seq(DelayUnits)
           /\ \E k \in 1..(Len(q) + 1) : Placed(ByDeadline(q, u), q, k, u)
<1> DEFINE later == {i \in DOMAIN q : q[i].due > u.due}
<1>1. Len(q) \in Nat /\ DOMAIN q = 1..Len(q)
  OBVIOUS
<1>2. CASE later = {}
  <2>1. ByDeadline(q, u) = Append(q, u)
    BY <1>2 DEF ByDeadline
  <2>2. Len(q) + 1 \in 1..(Len(q) + 1)
    BY <1>1
  <2> QED
    BY <2>1, <2>2, AppendPlaces
<1>3. CASE later # {}
  <2> DEFINE c == CHOOSE i \in later : \A j \in later : i <= j
  <2>1. later \subseteq Nat
    BY <1>1
  <2>2. \E i \in later : \A j \in later : i <= j
    BY <1>3, <2>1, Least
  <2>3. c \in later
    BY <2>2
  <2>4. ByDeadline(q, u) = InsertAt(q, c, u)
    BY <1>3 DEF ByDeadline
  <2>5. c \in 1..Len(q)
    BY <1>1, <2>3
  <2> HIDE DEF c, later
  <2>6. c \in 1..(Len(q) + 1)
    BY <1>1, <2>5
  <2>7. InsertAt(q, c, u) \in Seq(DelayUnits) /\ Placed(InsertAt(q, c, u), q, c, u)
    BY <2>5, <2>6, Inserted DEF Placed
  <2> QED
    BY <2>4, <2>6, <2>7
<1> QED
  BY <1>2, <1>3

\* Taking one out.
Taken(r, q, k) ==
    /\ Len(r) = Len(q) - 1
    /\ \A i \in 1..(Len(q) - 1) : r[i] = IF i < k THEN q[i] ELSE q[i + 1]

-----------------------------------------------------------------------------
(* The delay a unit gets.                                                  *)

LEMMA DelayRight ==
    ASSUME DelayTypeOK, LineInv(_timeLine), elapsed <= MaxTime
    PROVE  Delay = DelayMeant /\ Delay \in Delays
<1>1. _timeLine \in Seq(Periods) /\ _delaySeconds \in Delays /\ elapsed \in Nat
  BY DEF DelayTypeOK, Periods
<1>2. CASE _timeLine = <<>>
  BY <1>1, <1>2 DEF Delay, DelayMeant
<1>3. CASE _timeLine # <<>>
  <2>1. MaxTime \in Nat /\ Cycle \in Nat /\ Cycle <= MaxTime
    BY TimeLineAssumption, DelayAssumption DEF TimeLineAssumption, DelayAssumption
  <2>2. Modulus(elapsed, Cycle) \in Nat /\ Modulus(elapsed, Cycle) <= MaxTime
    BY <1>1, <2>1 DEF Modulus
  <2> QED
    BY <1>1, <1>3, <2>2, GetRight DEF Delay, DelayMeant
<1> QED
  BY <1>2, <1>3

-----------------------------------------------------------------------------
(* What the actions of the delay do.                                       *)

\* putData() has settled the deadline of a unit, which owes no more than it is due, and its order.
ComeFacts(id) ==
    /\ coming = Nobody /\ coming' # Nobody
    /\ coming' \in DelayUnits /\ coming'.id = id /\ coming'.free = _allowJitterReorder /\ Owes(coming')
    /\ UNCHANGED <<settings, elapsed, delayQueue, mode, held, dlyhistory>>

LEMMA PutDataDoes ==
    ASSUME DelayTypeOK, OwedInv, NEW id \in 0..MaxUnit, NEW age \in Nat, PutData(id, age)
    PROVE  ComeFacts(id)
<1>1. PICK jitter \in {0, Jitter} :
        coming' = [id |-> id, due |-> Deadline(Delay + jitter, age),
                   owed |-> NotBelow(DelayMeant - (IF UseTimeStamp THEN age ELSE 0), 0),
                   free |-> _allowJitterReorder]
  BY DEF PutData
<1>2. PICK d \in Delays : Delay = d /\ DelayMeant = d
  BY DelayRight DEF OwedInv
<1>3. d \in Nat /\ jitter \in Nat /\ Longest \in Nat /\ d + jitter <= Longest
  BY <1>2, LongestDelay, DelayAssumption DEF DelayAssumption
<1>4. PICK due, owed : due = Deadline(d + jitter, age) /\ owed = NotBelow(d - (IF UseTimeStamp THEN age ELSE 0), 0)
  OBVIOUS
<1>5. /\ due \in Int /\ -Longest <= due /\ due <= Longest
      /\ owed \in Nat /\ owed <= Longest /\ (owed = 0 \/ owed <= due)
  <2>1. CASE UseTimeStamp
    BY <1>3, <1>4, <2>1 DEF Deadline, NotBelow
  <2>2. CASE ~UseTimeStamp
    BY <1>3, <1>4, <2>2 DEF Deadline, NotBelow
  <2> QED
    BY <2>1, <2>2
<1>6. coming' = [id |-> id, due |-> due, owed |-> owed, free |-> _allowJitterReorder]
  BY <1>1, <1>2, <1>4
<1>7. _allowJitterReorder \in BOOLEAN
  BY DEF DelayTypeOK
<1>8. coming' \in DelayUnits
  BY <1>3, <1>5, <1>6, <1>7 DEF DelayUnits
<1>9. coming' # Nobody
  BY <1>8, DelayAssumption DEF DelayAssumption
<1>10. coming'.id = id /\ coming'.free = _allowJitterReorder /\ Owes(coming')
  BY <1>5, <1>6 DEF Owes
<1>11. coming = Nobody /\ UNCHANGED <<settings, elapsed, delayQueue, mode, held, dlyhistory>>
  BY DEF PutData
<1> QED
  BY <1>8, <1>9, <1>10, <1>11 DEF ComeFacts

\* The unit is put in its place, the last one unless deadlines are gone by.
PutFacts(u, k) ==
    /\ coming \in DelayUnits /\ coming' = Nobody
    /\ u \in DelayUnits /\ u.id = coming.id /\ u.free = (coming.free \/ _allowJitterReorder) /\ Owes(u)
    /\ delayQueue' \in Seq(DelayUnits) /\ Placed(delayQueue', delayQueue, k, u)
    /\ ~coming.free => k = Len(delayQueue) + 1
    /\ Len(delayQueue) < HighWater
    /\ spareTurns' = IF coming.free /\ ~_allowJitterReorder THEN spareTurns - 1 ELSE spareTurns
    /\ UNCHANGED <<settings, elapsed, mode, held, left>>

LEMMA EnqueueDoes ==
    ASSUME DelayTypeOK, OwedInv, Enqueue
    PROVE  \E u, k : PutFacts(u, k)
<1> DEFINE v == [coming EXCEPT !.free = @ \/ _allowJitterReorder]
<1>1. delayQueue' = IF coming.free THEN ByDeadline(delayQueue, v) ELSE Append(delayQueue, v)
  BY DEF Enqueue
<1>2. coming \in DelayUnits /\ Owes(coming)
  BY DEF Enqueue, DelayTypeOK, OwedInv
<1>3. _allowJitterReorder \in BOOLEAN /\ delayQueue \in Seq(DelayUnits)
  BY DEF DelayTypeOK
<1>4. (coming.free \/ _allowJitterReorder) \in BOOLEAN
  OBVIOUS
<1>5. /\ v \in DelayUnits /\ v.id = coming.id /\ v.free = (coming.free \/ _allowJitterReorder)
      /\ Owes(v)
  BY <1>2, <1>4 DEF DelayUnits, Owes
<1> HIDE DEF v
<1>6. /\ coming' = Nobody /\ Len(delayQueue) < HighWater
      /\ spareTurns' = IF coming.free /\ ~_allowJitterReorder THEN spareTurns - 1 ELSE spareTurns
      /\ UNCHANGED <<settings, elapsed, mode, held, left>>
  BY DEF Enqueue
<1>7. CASE coming.free
  <2>1. PICK k \in 1..(Len(delayQueue) + 1) : Placed(delayQueue', delayQueue, k, v)
    BY <1>1, <1>3, <1>5, <1>7, ByDeadlinePlaces
  <2>2. delayQueue' \in Seq(DelayUnits)
    BY <1>1, <1>3, <1>5, <1>7, ByDeadlinePlaces
  <2> QED
    BY <1>2, <1>5, <1>6, <1>7, <2>1, <2>2 DEF PutFacts
<1>8. CASE ~coming.free
  <2>1. delayQueue' \in Seq(DelayUnits) /\ Placed(delayQueue', delayQueue, Len(delayQueue) + 1, v)
    BY <1>1, <1>3, <1>5, <1>8, AppendPlaces
  <2> QED
    BY <1>2, <1>5, <1>6, <2>1 DEF PutFacts
<1> QED
  BY <1>7, <1>8

\* A unit is taken out of its place, the first one's unless deadlines are gone by.
DequeueFacts(k) ==
    /\ held = Nobody /\ k \in 1..Len(delayQueue) /\ (~mode => k = 1)
    /\ held' = delayQueue[k] /\ held' \in DelayUnits /\ held' # Nobody
    /\ delayQueue' \in Seq(DelayUnits) /\ Taken(delayQueue', delayQueue, k)
    /\ spareTurns' = IF Jumps(delayQueue[k]) THEN spareTurns - 1 ELSE spareTurns
    /\ UNCHANGED <<settings, elapsed, coming, mode, left>>

LEMMA DequeueDoes == ASSUME DelayTypeOK, Dequeue PROVE \E k : DequeueFacts(k)
<1>1. delayQueue \in Seq(DelayUnits) /\ delayQueue # <<>> /\ mode \in BOOLEAN /\ held = Nobody
  BY DEF DelayTypeOK, Dequeue
<1> DEFINE k == IF mode THEN Earliest ELSE 1
<1>2. /\ held' = delayQueue[k] /\ delayQueue' = RemoveAt(delayQueue, k)
      /\ spareTurns' = IF Jumps(delayQueue[k]) THEN spareTurns - 1 ELSE spareTurns
      /\ UNCHANGED <<settings, elapsed, coming, mode, left>>
  BY DEF Dequeue
<1>3. Len(delayQueue) \in Nat /\ DOMAIN delayQueue = 1..Len(delayQueue) /\ Len(delayQueue) > 0
  BY <1>1
<1>4. k \in 1..Len(delayQueue)
  <2>1. CASE mode
    BY <1>1, <1>3, <2>1, EarliestIsThere
  <2>2. CASE ~mode
    BY <1>3, <2>2
  <2> QED
    BY <2>1, <2>2
<1>5. ~mode => k = 1
  OBVIOUS
<1> HIDE DEF k
<1>6. delayQueue[k] \in DelayUnits
  BY <1>1, <1>4
<1>7. held' # Nobody
  BY <1>2, <1>6, DelayAssumption DEF DelayAssumption
<1>8. delayQueue' \in Seq(DelayUnits) /\ Taken(delayQueue', delayQueue, k)
  BY <1>1, <1>2, <1>4, Removed DEF Taken
<1> QED
  BY <1>1, <1>2, <1>4, <1>5, <1>6, <1>7, <1>8 DEF DequeueFacts

\* A tick brings a unit nearer and leaves it what it is.
LEMMA NearerUnit ==
    ASSUME NEW u \in DelayUnits
    PROVE  /\ Nearer(u) \in DelayUnits /\ Nearer(u) # Nobody
           /\ Nearer(u).id = u.id /\ Nearer(u).free = u.free
           /\ Owes(u) => Owes(Nearer(u))
<1>1. u # Nobody
  BY DelayAssumption DEF DelayAssumption
<1>2. Nearer(u) = [u EXCEPT !.due = NotBelow(u.due - 1, -Longest), !.owed = NotBelow(u.owed - 1, 0)]
  BY <1>1 DEF Nearer
<1>3. PICK due, owed : due = NotBelow(u.due - 1, -Longest) /\ owed = NotBelow(u.owed - 1, 0)
  OBVIOUS
<1>4. /\ u.due \in Int /\ -Longest <= u.due /\ u.due <= Longest /\ u.owed \in Nat /\ u.owed <= Longest
      /\ Longest \in Nat
  BY UnitTypes, LongestDelay
<1>5. /\ due \in -Longest..Longest /\ owed \in 0..Longest
      /\ u.owed = 0 \/ u.owed <= u.due => owed = 0 \/ owed <= due
  BY <1>3, <1>4 DEF NotBelow
<1>6. Nearer(u) = [u EXCEPT !.due = due, !.owed = owed]
  BY <1>2, <1>3
<1>7. Nearer(u) \in DelayUnits
  BY <1>5, <1>6 DEF DelayUnits
<1>8. /\ Nearer(u).id = u.id /\ Nearer(u).free = u.free
      /\ Nearer(u).due = due /\ Nearer(u).owed = owed
  BY <1>6 DEF DelayUnits
<1>9. Nearer(u) # Nobody
  BY <1>7, DelayAssumption DEF DelayAssumption
<1> QED
  BY <1>5, <1>7, <1>8, <1>9 DEF Owes

-----------------------------------------------------------------------------
(* Types of the delay, and what its units owe.                             *)

DelayOK == DelayTypeOK /\ OwedInv

\* What the settings and the queue have to satisfy, apart.
SettingsOK ==
    /\ _delaySeconds \in Delays /\ _timeLine \in Seq(Periods) /\ LineInv(_timeLine)
    /\ _allowJitterReorder \in BOOLEAN /\ elapsed \in Nat /\ elapsed <= MaxTime /\ mode \in BOOLEAN
UnitsOK ==
    /\ delayQueue \in Seq(DelayUnits) /\ Len(delayQueue) <= HighWater
    /\ \A i \in DOMAIN delayQueue : Owes(delayQueue[i])
    /\ held \in DelayUnits \cup {Nobody} /\ (held # Nobody => Owes(held))
    /\ coming \in DelayUnits \cup {Nobody} /\ (coming # Nobody => Owes(coming))
HistoryOK == left \subseteq 1..MaxUnit /\ spareTurns \in Int

LEMMA DelayParts == DelayOK <=> SettingsOK /\ UnitsOK /\ HistoryOK
BY DEF DelayOK, DelayTypeOK, OwedInv, SettingsOK, UnitsOK, HistoryOK, Periods

LEMMA ComeKeeps ==
    ASSUME DelayOK, NEW id, ComeFacts(id)
    PROVE  DelayOK'
<1>1. SettingsOK /\ UnitsOK /\ HistoryOK
  BY DelayParts
<1>2. SettingsOK' /\ HistoryOK'
  BY <1>1 DEF ComeFacts, SettingsOK, HistoryOK, settings, dlyhistory
<1>3. UnitsOK'
  BY <1>1 DEF ComeFacts, UnitsOK, Owes
<1> QED
  BY <1>2, <1>3, DelayParts, PTL

LEMMA PutKeeps ==
    ASSUME DelayOK, NEW u, NEW k, PutFacts(u, k)
    PROVE  DelayOK'
<1>1. SettingsOK /\ UnitsOK /\ HistoryOK
  BY DelayParts
<1>2. SettingsOK' /\ HistoryOK'
  BY <1>1 DEF PutFacts, SettingsOK, HistoryOK, settings
<1>3. /\ HighWater \in Nat /\ Len(delayQueue) \in Nat /\ delayQueue' \in Seq(DelayUnits)
      /\ Len(delayQueue') = Len(delayQueue) + 1 /\ Len(delayQueue) < HighWater
  BY <1>1, DelayAssumption DEF PutFacts, Placed, UnitsOK, DelayAssumption
<1>4. DOMAIN delayQueue' = 1..(Len(delayQueue) + 1) /\ DOMAIN delayQueue = 1..Len(delayQueue)
  BY <1>1, <1>3 DEF UnitsOK
<1>5. ASSUME NEW i \in DOMAIN delayQueue' PROVE Owes(delayQueue'[i])
  <2>1. /\ i \in 1..(Len(delayQueue) + 1) /\ k \in 1..(Len(delayQueue) + 1) /\ Owes(u)
        /\ delayQueue'[i] = IF i < k THEN delayQueue[i] ELSE IF i = k THEN u ELSE delayQueue[i - 1]
    BY <1>4 DEF PutFacts, Placed
  <2>2. CASE i < k
    BY <1>1, <1>3, <1>4, <2>1, <2>2 DEF UnitsOK
  <2>3. CASE i = k
    BY <1>3, <2>1, <2>3
  <2>4. CASE i > k
    <3>1. i - 1 \in DOMAIN delayQueue /\ delayQueue'[i] = delayQueue[i - 1]
      BY <1>3, <1>4, <2>1, <2>4
    <3> QED
      BY <1>1, <3>1 DEF UnitsOK
  <2> QED
    BY <1>3, <2>1, <2>2, <2>3, <2>4
<1>6. UNCHANGED held /\ coming' = Nobody
  BY DEF PutFacts
<1>7. UnitsOK'
  BY <1>1, <1>3, <1>5, <1>6 DEF UnitsOK
<1> QED
  BY <1>2, <1>7, DelayParts, PTL

LEMMA DequeueKeeps ==
    ASSUME DelayOK, NEW k, DequeueFacts(k)
    PROVE  DelayOK'
<1>1. SettingsOK /\ UnitsOK /\ HistoryOK
  BY DelayParts
<1>2. SettingsOK'
  BY <1>1 DEF DequeueFacts, SettingsOK, settings
<1>3. HistoryOK'
  BY <1>1 DEF DequeueFacts, HistoryOK
<1>4. /\ Len(delayQueue) \in Nat /\ delayQueue' \in Seq(DelayUnits) /\ k \in 1..Len(delayQueue)
      /\ Len(delayQueue') = Len(delayQueue) - 1 /\ Len(delayQueue) <= HighWater
      /\ HighWater \in Nat
  BY <1>1, DelayAssumption DEF DequeueFacts, Taken, UnitsOK, DelayAssumption
<1>5. DOMAIN delayQueue' = 1..(Len(delayQueue) - 1) /\ DOMAIN delayQueue = 1..Len(delayQueue)
  BY <1>1, <1>4 DEF UnitsOK
<1>6. ASSUME NEW i \in DOMAIN delayQueue' PROVE Owes(delayQueue'[i])
  <2>1. delayQueue'[i] = IF i < k THEN delayQueue[i] ELSE delayQueue[i + 1]
    BY <1>5 DEF DequeueFacts, Taken
  <2>2. i \in DOMAIN delayQueue /\ i + 1 \in DOMAIN delayQueue
    BY <1>4, <1>5
  <2> QED
    BY <1>1, <2>1, <2>2 DEF UnitsOK
<1>7. held' \in DelayUnits /\ Owes(held')
  BY <1>1, <1>4, <1>5 DEF UnitsOK, DequeueFacts
<1>8. UNCHANGED coming
  BY DEF DequeueFacts
<1>9. UnitsOK'
  BY <1>1, <1>4, <1>6, <1>7, <1>8 DEF UnitsOK
<1> QED
  BY <1>2, <1>3, <1>9, DelayParts, PTL

LEMMA SendKeeps == ASSUME DelayOK, Send PROVE DelayOK'
<1>1. SettingsOK /\ UnitsOK /\ HistoryOK
  BY DelayParts
<1>2. SettingsOK'
  BY <1>1 DEF Send, SettingsOK, settings
<1>3. UnitsOK'
  BY <1>1 DEF Send, UnitsOK
<1>4. HistoryOK'
  <2>1. held \in DelayUnits
    BY <1>1 DEF Send, UnitsOK
  <2>2. held.id \in 0..MaxUnit /\ MaxUnit \in Nat
    BY <2>1, UnitTypes, DelayAssumption DEF DelayAssumption
  <2>3. {held.id} \ {0} \subseteq 1..MaxUnit
    BY <2>2
  <2>4. left' = left \cup ({held.id} \ {0}) /\ UNCHANGED spareTurns
    BY DEF Send
  <2> QED
    BY <1>1, <2>3, <2>4 DEF HistoryOK
<1> QED
  BY <1>2, <1>3, <1>4, DelayParts, PTL

\* The calls that change the settings.
LEMMA SetDelayKeeps ==
    ASSUME DelayOK, NEW d \in Delays, NEW start \in Starts \cup {0}, SetDelay(d, start)
    PROVE  DelayOK'
<1>1. SettingsOK /\ UnitsOK /\ HistoryOK
  BY DelayParts
<1>2. UnitsOK' /\ HistoryOK'
  BY <1>1 DEF SetDelay, UnitsOK, HistoryOK, dlyhistory
<1>3. CASE start > 0
  <2> DEFINE line == IF _timeLine = <<>> THEN TimeLine(_delaySeconds) ELSE _timeLine
  <2>1. line \in Seq(Periods) /\ line # <<>> /\ LineInv(line)
    BY <1>1, LineBegins DEF SettingsOK
  <2>2. CanAppend(line, start) /\ _timeLine' = AppendPeriod(line, start, d) /\ UNCHANGED _delaySeconds
    BY <1>3 DEF SetDelay
  <2>3. start \in Nat \ {0}
    BY <1>3, DelayAssumption DEF DelayAssumption
  <2> HIDE DEF line
  <2>4. _timeLine' \in Seq(Periods) /\ LineInv(_timeLine')
    BY <2>1, <2>2, <2>3, LineGrows
  <2>5. LineInv(_timeLine)'
    BY <2>4 DEF LineInv
  <2>6. SettingsOK'
    BY <1>1, <2>2, <2>4, <2>5 DEF SetDelay, SettingsOK
  <2> QED
    BY <1>2, <2>6, DelayParts, PTL
<1>4. CASE ~(start > 0)
  <2>1. SettingsOK'
    BY <1>1, <1>4 DEF SetDelay, SettingsOK
  <2> QED
    BY <1>2, <2>1, DelayParts, PTL
<1> QED
  BY <1>3, <1>4

LEMMA ClearKeeps == ASSUME DelayOK, ClearTimeLine PROVE DelayOK'
<1>1. SettingsOK /\ UnitsOK /\ HistoryOK
  BY DelayParts
<1>2. UnitsOK' /\ HistoryOK'
  BY <1>1 DEF ClearTimeLine, UnitsOK, HistoryOK, dlyhistory
<1>3. SettingsOK'
  <2>1. _timeLine' = <<>> /\ LineInv(<<>>)
    BY DEF ClearTimeLine, LineInv
  <2> QED
    BY <1>1, <2>1 DEF ClearTimeLine, SettingsOK
<1> QED
  BY <1>2, <1>3, DelayParts, PTL

LEMMA AllowKeeps ==
    ASSUME DelayOK, NEW allow \in BOOLEAN, SetAllowJitterReorder(allow)
    PROVE  DelayOK'
<1>1. SettingsOK /\ UnitsOK /\ HistoryOK
  BY DelayParts
<1>2. SettingsOK' /\ HistoryOK'
  BY <1>1 DEF SetAllowJitterReorder, SettingsOK, HistoryOK
<1>3. delayQueue' = [i \in DOMAIN delayQueue |-> [delayQueue[i] EXCEPT !.free = @ \/ allow]]
  BY DEF SetAllowJitterReorder
<1>4. ASSUME NEW i \in DOMAIN delayQueue
      PROVE  /\ [delayQueue[i] EXCEPT !.free = @ \/ allow] \in DelayUnits
             /\ Owes([delayQueue[i] EXCEPT !.free = @ \/ allow])
  <2>1. delayQueue[i] \in DelayUnits /\ Owes(delayQueue[i])
    BY <1>1 DEF UnitsOK
  <2>2. (delayQueue[i].free \/ allow) \in BOOLEAN
    OBVIOUS
  <2> QED
    BY <2>1, <2>2 DEF DelayUnits, Owes
<1>5. /\ delayQueue' \in Seq(DelayUnits) /\ Len(delayQueue') = Len(delayQueue)
      /\ \A i \in DOMAIN delayQueue' : Owes(delayQueue'[i])
  <2>1. Len(delayQueue) \in Nat /\ DOMAIN delayQueue = 1..Len(delayQueue)
    BY <1>1 DEF UnitsOK
  <2> QED
    BY <1>3, <1>4, <2>1
<1>6. UnitsOK'
  BY <1>1, <1>5 DEF UnitsOK, SetAllowJitterReorder
<1> QED
  BY <1>2, <1>6, DelayParts, PTL

LEMMA DelayTickKeeps == ASSUME DelayOK, DelayTick PROVE DelayOK'
<1>1. SettingsOK /\ UnitsOK /\ HistoryOK
  BY DelayParts
<1>2. HistoryOK'
  BY <1>1 DEF DelayTick, HistoryOK, dlyhistory
<1>3. elapsed' \in Nat /\ elapsed' <= MaxTime
  <2>1. elapsed \in Nat /\ elapsed <= MaxTime /\ MaxTime \in Nat /\ Cycle \in Nat /\ Cycle <= MaxTime
    BY <1>1, TimeLineAssumption, DelayAssumption DEF SettingsOK, TimeLineAssumption, DelayAssumption
  <2>2. \A s \in Starts : s \in Nat /\ s < MaxTime
    BY DelayAssumption DEF DelayAssumption
  <2>3. elapsed' = Later(elapsed)
    BY DEF DelayTick
  <2>4. CASE Cycle > 0
    BY <2>1, <2>3, <2>4 DEF Later
  <2>5. CASE ~(Cycle > 0)
    BY <2>1, <2>2, <2>3, <2>5 DEF Later
  <2> QED
    BY <2>4, <2>5
<1>4. SettingsOK'
  BY <1>1, <1>3 DEF DelayTick, SettingsOK, settings
<1>5. /\ delayQueue' \in Seq(DelayUnits) /\ Len(delayQueue') = Len(delayQueue)
      /\ \A i \in DOMAIN delayQueue' : Owes(delayQueue'[i])
  <2>1. Len(delayQueue) \in Nat /\ DOMAIN delayQueue = 1..Len(delayQueue)
    BY <1>1 DEF UnitsOK
  <2>2. \A i \in DOMAIN delayQueue : Nearer(delayQueue[i]) \in DelayUnits /\ Owes(Nearer(delayQueue[i]))
    BY <1>1, NearerUnit DEF UnitsOK
  <2> QED
    BY <2>1, <2>2 DEF DelayTick
<1>6. held' \in DelayUnits \cup {Nobody} /\ (held' # Nobody => Owes(held'))
  <2>1. CASE held = Nobody
    BY <2>1 DEF DelayTick, Nearer
  <2>2. CASE held # Nobody
    BY <1>1, <2>2, NearerUnit DEF DelayTick, UnitsOK
  <2> QED
    BY <2>1, <2>2
<1>7. coming' \in DelayUnits \cup {Nobody} /\ (coming' # Nobody => Owes(coming'))
  <2>1. CASE coming = Nobody
    BY <2>1 DEF DelayTick, Nearer
  <2>2. CASE coming # Nobody
    BY <1>1, <2>2, NearerUnit DEF DelayTick, UnitsOK
  <2> QED
    BY <2>1, <2>2
<1>8. UnitsOK'
  BY <1>1, <1>5, <1>6, <1>7 DEF UnitsOK
<1> QED
  BY <1>2, <1>4, <1>8, DelayParts, PTL

-----------------------------------------------------------------------------
(* Types of the transmitter.                                               *)

TxOK == TxTypeOK /\ (tx # "sleep" => data = Nothing)

Places == {"loop", "slot", "getq", "waiting", "sleep"}

LEMMA TxUnitTypes == \A u \in TxUnits : u # Nothing /\ u.id \in 0..MaxUnits /\ u.age \in 0..MaxAge
BY PeriodicAssumption DEF TxUnits, PeriodicAssumption

LEMMA OlderUnit ==
    ASSUME NEW u \in TxUnits
    PROVE  Older(u) \in TxUnits /\ Older(u) # Nothing /\ Older(u).id = u.id
<1>1. u # Nothing /\ u.age \in 0..MaxAge /\ MaxAge \in Nat
  BY TxUnitTypes, PeriodicAssumption DEF PeriodicAssumption
<1>2. PICK age : age = LeastOf(u.age + 1, MaxAge)
  OBVIOUS
<1>3. age \in 0..MaxAge
  BY <1>1, <1>2 DEF LeastOf
<1>4. Older(u) = [u EXCEPT !.age = age]
  BY <1>1, <1>2 DEF Older
<1>5. Older(u) \in TxUnits /\ Older(u).id = u.id
  BY <1>3, <1>4 DEF TxUnits
<1> QED
  BY <1>5, TxUnitTypes

\* The transmitter's queue when time has gone by: the same units.
LEMMA TickQueue ==
    ASSUME TxTypeOK, TxTick
    PROVE  /\ txQueue' \in Seq(TxUnits) /\ Len(txQueue') = Len(txQueue)
           /\ \A i \in DOMAIN txQueue : txQueue'[i].id = txQueue[i].id
<1>1. txQueue \in Seq(TxUnits) /\ txQueue' = [i \in DOMAIN txQueue |-> Older(txQueue[i])]
  BY DEF TxTypeOK, TxTick
<1>2. Len(txQueue) \in Nat /\ DOMAIN txQueue = 1..Len(txQueue)
  BY <1>1
<1>3. \A i \in DOMAIN txQueue : Older(txQueue[i]) \in TxUnits /\ Older(txQueue[i]).id = txQueue[i].id
  BY <1>1, OlderUnit
<1> QED
  BY <1>1, <1>2, <1>3

LEMMA TickData ==
    ASSUME TxTypeOK, TxTick
    PROVE  /\ data = Nothing => data' = Nothing
           /\ data # Nothing => data' \in TxUnits /\ data' # Nothing /\ data'.id = data.id
<1>1. data' = Older(data) /\ data \in TxUnits \cup {Nothing}
  BY DEF TxTick, TxTypeOK
<1>2. Older(Nothing) = Nothing
  BY DEF Older
<1> QED
  BY <1>1, <1>2, OlderUnit

\* The types, apart: what the transmitter's thread alone writes, and the rest.
ThreadOK ==
    /\ isPeriodic \in BOOLEAN /\ untilSend \in Int /\ untilSend >= -MaxLag /\ tx \in Places
    /\ data \in TxUnits \cup {Nothing} /\ (tx # "sleep" => data = Nothing)
RestOK ==
    /\ _interval \in Intervals /\ _intervalUpdated \in BOOLEAN /\ pulsed \in BOOLEAN /\ woken \in BOOLEAN
    /\ setter \in {"idle", "flag", "pulse"} /\ idleUnitTemplate_ \in BOOLEAN
    /\ put \in 0..MaxUnits /\ spareSlots \in Int

QueueOK == txQueue \in Seq(TxUnits)

LEMMA TxParts == TxOK <=> ThreadOK /\ RestOK /\ QueueOK
BY DEF TxOK, TxTypeOK, ThreadOK, RestOK, QueueOK, Places

LEMMA HeadAndTail ==
    ASSUME NEW S, NEW q \in Seq(S), q # <<>>
    PROVE  /\ Head(q) = q[1] /\ Head(q) \in S /\ Tail(q) \in Seq(S)
           /\ Len(Tail(q)) = Len(q) - 1 /\ Len(q) \in Nat /\ Len(q) > 0
           /\ \A i \in 1..(Len(q) - 1) : Tail(q)[i] = q[i + 1]
OBVIOUS

LEMMA SegmentKeepsTypes == ASSUME TxOK, LinkSend \/ Rebuild PROVE TxOK'
<1>1. ThreadOK /\ RestOK /\ QueueOK
  BY TxParts
<1>2. ThreadOK'
  BY <1>1 DEF ThreadOK, LinkSend, Rebuild, threadvars
<1>3. CASE LinkSend
  <2>1. put + 1 \in 0..MaxUnits
    BY <1>1, <1>3, PeriodicAssumption DEF LinkSend, RestOK, PeriodicAssumption
  <2>2. [id |-> put + 1, age |-> 0] \in TxUnits
    BY <2>1, PeriodicAssumption DEF TxUnits, PeriodicAssumption
  <2>3. QueueOK'
    BY <1>1, <1>3, <2>2 DEF LinkSend, QueueOK
  <2>4. RestOK'
    BY <1>1, <1>3, <2>1 DEF LinkSend, RestOK
  <2> QED
    BY <1>2, <2>3, <2>4, TxParts, PTL
<1>4. CASE Rebuild
  <2>1. idleUnitTemplate_' \in BOOLEAN
    BY <1>4 DEF Rebuild
  <2>2. RestOK' /\ QueueOK'
    BY <1>1, <1>4, <2>1 DEF Rebuild, RestOK, QueueOK, queuevars
  <2> QED
    BY <1>2, <2>2, TxParts, PTL
<1> QED
  BY <1>3, <1>4

LEMMA CallKeepsTypes ==
    ASSUME TxOK, SetUpdated \/ Pulse \/ (\E i \in Intervals : SetInterval(i))
    PROVE  TxOK'
<1>1. ThreadOK /\ RestOK /\ QueueOK
  BY TxParts
<1>2. ThreadOK'
  <2>1. UNCHANGED threadvars
    BY DEF SetUpdated, Pulse, SetInterval
  <2> QED
    BY <1>1, <2>1 DEF ThreadOK, threadvars
<1>3. QueueOK'
  <2>1. UNCHANGED txQueue
    BY DEF SetUpdated, Pulse, SetInterval, queuevars
  <2> QED
    BY <1>1, <2>1 DEF QueueOK
<1>4. pulsed' \in BOOLEAN /\ woken' \in BOOLEAN /\ _intervalUpdated' \in BOOLEAN
  <2>1. CASE SetUpdated \/ Pulse
    BY <1>1, <2>1 DEF RestOK, SetUpdated, Pulse, queuevars
  <2>2. CASE \E i \in Intervals : SetInterval(i)
    BY <1>1, <2>2 DEF RestOK, SetInterval, queuevars
  <2> QED
    BY <2>1, <2>2
<1>5. RestOK'
  <2>1. CASE SetUpdated \/ Pulse
    BY <1>1, <1>4, <2>1 DEF RestOK, SetUpdated, Pulse
  <2>2. CASE \E i \in Intervals : SetInterval(i)
    BY <1>1, <1>4, <2>2 DEF RestOK, SetInterval
  <2> QED
    BY <2>1, <2>2
<1> QED
  BY <1>2, <1>3, <1>5, TxParts, PTL

LEMMA TxSendKeepsTypes == ASSUME TxOK, TxSend PROVE TxOK'
<1>1. ThreadOK /\ RestOK /\ QueueOK
  BY TxParts
<1>2. ThreadOK'
  BY <1>1 DEF ThreadOK, TxSend, Places
<1>3. RestOK' /\ QueueOK'
  BY <1>1 DEF RestOK, QueueOK, TxSend, Others, queuevars
<1> QED
  BY <1>2, <1>3, TxParts, PTL

LEMMA TxTickKeepsTypes == ASSUME TxOK, TxTick PROVE TxOK'
<1>1. ThreadOK /\ RestOK /\ QueueOK /\ TxTypeOK
  BY TxParts DEF TxOK
<1>2. RestOK'
  BY <1>1 DEF RestOK, TxTick
<1>3. untilSend' \in Int /\ untilSend' >= -MaxLag
  BY <1>1, PeriodicAssumption DEF ThreadOK, TxTick, PeriodicAssumption
<1>4. ThreadOK'
  BY <1>1, <1>3, TickData DEF ThreadOK, TxTick
<1>5. QueueOK'
  BY <1>1, TickQueue DEF QueueOK
<1> QED
  BY <1>2, <1>4, <1>5, TxParts, PTL

LEMMA TxStepKeepsTypes == ASSUME TxOK, TxStep PROVE TxOK'
<1>1. ThreadOK /\ RestOK /\ QueueOK
  BY TxParts
<1>2. RestOK'
  <2>1. UNCHANGED <<_interval, pulsed, setter, put, idleUnitTemplate_>>
    BY DEF TxStep, Loop, Slot, Getq, Wait, Heard, GetIdleUnit, NothingToSend, SendNothing, Others, queuevars
  <2>2. _intervalUpdated' \in BOOLEAN /\ woken' \in BOOLEAN
    BY <1>1 DEF RestOK, TxStep, Loop, Slot, Getq, Wait, Heard, GetIdleUnit, NothingToSend, SendNothing,
                queuevars
  <2>3. spareSlots' = spareSlots \/ spareSlots' = spareSlots - 1
    BY DEF TxStep, Loop, Slot, Getq, Wait, Heard, GetIdleUnit, NothingToSend, SendNothing
  <2> QED
    BY <1>1, <2>1, <2>2, <2>3 DEF RestOK
<1>3. QueueOK'
  <2>1. CASE Getq
    BY <1>1, <2>1, HeadAndTail DEF Getq, QueueOK
  <2>2. CASE ~Getq
    BY <1>1, <2>2 DEF TxStep, Loop, Slot, Wait, Heard, GetIdleUnit, NothingToSend, SendNothing, queuevars,
                      QueueOK
  <2> QED
    BY <2>1, <2>2
<1>4. untilSend' \in Int /\ untilSend' >= -MaxLag
  <2>1. CASE Slot
    <3>1. _interval \in Nat /\ MaxLag \in Nat /\ untilSend \in Int /\ untilSend >= -MaxLag
      BY <1>1, PeriodicAssumption DEF RestOK, ThreadOK, PeriodicAssumption
    <3>2. untilSend' \in IF untilSend = -MaxLag THEN -MaxLag..(_interval - MaxLag)
                         ELSE {untilSend + _interval}
      BY <2>1 DEF Slot
    <3> QED
      BY <3>1, <3>2
  <2>2. CASE ~Slot
    BY <1>1, <2>2 DEF ThreadOK, TxStep, Loop, Getq, Wait, Heard, GetIdleUnit, NothingToSend, SendNothing
  <2> QED
    BY <2>1, <2>2
<1>5. isPeriodic' \in BOOLEAN
  <2>1. CASE Loop
    BY <2>1 DEF Loop
  <2>2. CASE ~Loop
    <3>1. UNCHANGED isPeriodic
      BY <2>2 DEF TxStep, Slot, Getq, Wait, Heard, GetIdleUnit, NothingToSend, SendNothing
    <3> QED
      BY <1>1, <3>1 DEF ThreadOK
  <2> QED
    BY <2>1, <2>2
<1>6. tx' \in Places /\ data' \in TxUnits \cup {Nothing} /\ (tx' # "sleep" => data' = Nothing)
  <2>1. CASE Loop \/ Slot \/ Wait \/ Heard \/ NothingToSend \/ SendNothing
    BY <1>1, <2>1 DEF ThreadOK, Loop, Slot, Wait, Heard, NothingToSend, SendNothing, GetqFails, Awake,
                      Places
  <2>2. CASE Getq
    BY <1>1, <2>2, HeadAndTail DEF Getq, Places, QueueOK
  <2>3. CASE GetIdleUnit
    <3>1. [id |-> Idle, age |-> 0] \in TxUnits
      BY PeriodicAssumption DEF TxUnits, Idle, PeriodicAssumption
    <3> QED
      BY <1>1, <2>3, <3>1 DEF GetIdleUnit, GetqFails, ThreadOK, Places
  <2> QED
    BY <2>1, <2>2, <2>3 DEF TxStep
<1>7. ThreadOK'
  BY <1>4, <1>5, <1>6 DEF ThreadOK
<1> QED
  BY <1>2, <1>3, <1>7, TxParts, PTL

-----------------------------------------------------------------------------
(* The transmitter has all units but those past it.                        *)

Ids(q) == {q[i].id : i \in DOMAIN q}
HeldId == IF held = Nobody THEN {} ELSE {held.id} \ {0}

LEMMA PastIs == Past = left \cup (Ids(delayQueue) \ {0}) \cup HeldId
<1>1. ToSet(Passing) = Ids(delayQueue)
  <2>1. DOMAIN Passing = DOMAIN delayQueue /\ \A i \in DOMAIN delayQueue : Passing[i] = delayQueue[i].id
    BY DEF Passing
  <2> QED
    BY <2>1 DEF ToSet, Ids
<1> QED
  BY <1>1 DEF Past, HeldId

LEMMA QueueNumbers ==
    ASSUME TxOK
    PROVE  /\ Len(txQueue) \in Nat /\ DOMAIN txQueue = 1..Len(txQueue) /\ put \in Nat
           /\ \A i \in DOMAIN txQueue : txQueue[i] \in TxUnits
           /\ Carries => data \in TxUnits
BY TxParts, PeriodicAssumption DEF QueueOK, RestOK, ThreadOK, Carries, PeriodicAssumption

\* A new unit follows those there are.
LEMMA LinkSendOrder ==
    ASSUME TxOK, NEW g \in Nat, TxHas(g), LinkSend
    PROVE  TxHas(g)'
<1>1. /\ Len(txQueue) \in Nat /\ DOMAIN txQueue = 1..Len(txQueue) /\ put \in Nat
      /\ txQueue \in Seq(TxUnits)
  BY QueueNumbers, TxParts DEF QueueOK
<1>2. put' = put + 1 /\ txQueue' = Append(txQueue, [id |-> put + 1, age |-> 0]) /\ data' = data
  BY DEF LinkSend, threadvars
<1>3. PICK u : u = [id |-> put + 1, age |-> 0]
  OBVIOUS
<1>4. u \in TxUnits /\ u.id = put + 1
  <2>1. put + 1 \in 0..MaxUnits
    BY <1>1, PeriodicAssumption DEF LinkSend, PeriodicAssumption
  <2> QED
    BY <1>3, <2>1, PeriodicAssumption DEF TxUnits, PeriodicAssumption
<1>5. /\ Len(txQueue') = Len(txQueue) + 1 /\ DOMAIN txQueue' = 1..(Len(txQueue) + 1)
      /\ \A i \in 1..Len(txQueue) : txQueue'[i] = txQueue[i]
      /\ txQueue'[Len(txQueue) + 1] = u
  BY <1>1, <1>2, <1>3, <1>4
<1>6. PICK n \in Nat, p \in Nat : n = Len(txQueue) /\ p = put
  BY <1>1
<1>7. \A i \in DOMAIN txQueue' : txQueue'[i].id = (put' - Len(txQueue')) + i
  <2> SUFFICES ASSUME NEW i \in DOMAIN txQueue' PROVE txQueue'[i].id = (put' - Len(txQueue')) + i
    OBVIOUS
  <2>1. put' - Len(txQueue') = p - n /\ i \in 1..(n + 1)
    BY <1>2, <1>5, <1>6
  <2>2. CASE i \in 1..n
    <3>1. txQueue[i].id = (p - n) + i /\ txQueue'[i] = txQueue[i]
      BY <1>1, <1>5, <1>6, <2>2 DEF TxHas
    <3> QED
      BY <2>1, <3>1
  <2>3. CASE i = n + 1
    <3>1. txQueue'[i].id = p + 1
      BY <1>4, <1>5, <1>6, <2>3
    <3> QED
      BY <2>1, <2>3, <3>1, <1>6
  <2> QED
    BY <1>6, <2>1, <2>2, <2>3
<1>8. put' - Len(txQueue') = put - Len(txQueue)
  BY <1>1, <1>2, <1>5
<1>9. Carries' <=> Carries
  BY <1>2 DEF Carries
<1> QED
  BY <1>2, <1>7, <1>8, <1>9 DEF TxHas

\* The next unit is taken from the queue.
LEMMA GetqOrder ==
    ASSUME TxOK, NEW g \in Nat, TxHas(g), Getq
    PROVE  TxHas(g)'
<1>1. /\ Len(txQueue) \in Nat /\ DOMAIN txQueue = 1..Len(txQueue) /\ put \in Nat
      /\ txQueue \in Seq(TxUnits)
  BY QueueNumbers, TxParts DEF QueueOK
<1>2. data = Nothing /\ ~Carries
  BY DEF TxOK, Getq, Carries
<1>3. put - Len(txQueue) = g /\ \A i \in DOMAIN txQueue : txQueue[i].id = g + i
  BY <1>2 DEF TxHas
<1>4. /\ txQueue # <<>> /\ data' = txQueue[1] /\ put' = put
      /\ Len(txQueue') = Len(txQueue) - 1 /\ Len(txQueue) > 0 /\ DOMAIN txQueue' = 1..(Len(txQueue) - 1)
      /\ \A i \in 1..(Len(txQueue) - 1) : txQueue'[i] = txQueue[i + 1]
  BY <1>1, HeadAndTail DEF Getq, Others
<1>5. data' \in TxUnits /\ data'.id = g + 1 /\ data' # Nothing
  BY <1>1, <1>3, <1>4, TxUnitTypes
<1>6. Carries'
  BY <1>5 DEF Carries, Idle
<1>7. put' - Len(txQueue') = g + 1
  BY <1>1, <1>3, <1>4
<1>8. ASSUME NEW i \in DOMAIN txQueue' PROVE txQueue'[i].id = (g + 1) + i
  <2>1. i \in 1..(Len(txQueue) - 1) /\ i + 1 \in DOMAIN txQueue
    BY <1>1, <1>4
  <2>2. txQueue'[i].id = g + (i + 1)
    BY <1>3, <1>4, <2>1
  <2> QED
    BY <1>1, <2>1, <2>2
<1> QED
  BY <1>5, <1>6, <1>7, <1>8 DEF TxHas

\* A step that leaves the queue and the numbered unit alone.
LEMMA SameOrder ==
    ASSUME NEW g \in Nat, TxHas(g), UNCHANGED <<put, txQueue>>,
           UNCHANGED data \/ (~Carries /\ ~Carries')
    PROVE  TxHas(g)'
<1>1. CASE UNCHANGED data
  BY <1>1 DEF TxHas, Carries
<1>2. CASE ~Carries /\ ~Carries'
  BY <1>2 DEF TxHas
<1> QED
  BY <1>1, <1>2

LEMMA TxStepOrder ==
    ASSUME TxOK, NEW g \in Nat, TxHas(g), TxStep
    PROVE  TxHas(g)'
<1>1. CASE Getq
  BY <1>1, GetqOrder
<1>2. CASE ~Getq
  <2>1. UNCHANGED <<put, txQueue>>
    BY <1>2 DEF TxStep, Loop, Slot, Wait, Heard, GetIdleUnit, NothingToSend, SendNothing, Others, queuevars
  <2>2. CASE GetIdleUnit
    <3>1. data = Nothing
      BY <2>2 DEF TxOK, GetIdleUnit, GetqFails
    <3>2. data' = data \/ data' = [id |-> Idle, age |-> 0]
      BY <2>2 DEF GetIdleUnit
    <3>3. ~Carries /\ ~Carries'
      BY <3>1, <3>2 DEF Carries
    <3> QED
      BY <2>1, <3>3, SameOrder
  <2>3. CASE ~GetIdleUnit
    <3>1. UNCHANGED data
      BY <1>2, <2>3 DEF TxStep, Loop, Slot, Wait, Heard, NothingToSend, SendNothing
    <3> QED
      BY <2>1, <3>1, SameOrder
  <2> QED
    BY <2>2, <2>3
<1> QED
  BY <1>1, <1>2

LEMMA TxTickOrder ==
    ASSUME TxOK, NEW g \in Nat, TxHas(g), TxTick
    PROVE  TxHas(g)'
<1>1. /\ txQueue' \in Seq(TxUnits) /\ Len(txQueue') = Len(txQueue)
      /\ \A i \in DOMAIN txQueue : txQueue'[i].id = txQueue[i].id
  BY TickQueue DEF TxOK
<1>2. DOMAIN txQueue' = DOMAIN txQueue
  BY <1>1, QueueNumbers
<1>3. put' = put
  BY DEF TxTick
<1>4. (Carries' <=> Carries) /\ (Carries => data'.id = data.id)
  BY TickData DEF TxOK, TxTypeOK, Carries
<1> QED
  BY <1>1, <1>2, <1>3, <1>4 DEF TxHas

\* The unit handed over is the next, or idle.
LEMMA HandOverOrder ==
    ASSUME TxOK, NEW g \in Nat, TxHas(g), TxSend
    PROVE  /\ data \in TxUnits
           /\ \/ data.id = 0 /\ TxHas(g)'
              \/ data.id = g + 1 /\ TxHas(g + 1)'
<1>1. /\ data \in TxUnits /\ data # Nothing /\ ~Carries' /\ UNCHANGED <<put, txQueue>>
  BY TxParts DEF ThreadOK, TxSend, Carries, Others, queuevars
<1>2. CASE data.id = 0
  <2>1. ~Carries
    BY <1>2 DEF Carries, Idle
  <2> QED
    BY <1>1, <1>2, <2>1, SameOrder
<1>3. CASE data.id # 0
  <2>1. Carries
    BY <1>1, <1>3 DEF Carries, Idle
  <2> QED
    BY <1>1, <2>1 DEF TxHas
<1> QED
  BY <1>1, <1>2, <1>3

-----------------------------------------------------------------------------
(* What is past the transmitter: each step of the delay passes its units   *)
(* on.                                                                     *)

LEMMA PastIsNext == Past' = left' \cup (Ids(delayQueue') \ {0}) \cup HeldId'
<1>1. ToSet(Passing') = Ids(delayQueue')
  <2>1. /\ DOMAIN Passing' = DOMAIN delayQueue'
        /\ \A i \in DOMAIN delayQueue' : Passing'[i] = delayQueue'[i].id
    BY DEF Passing
  <2> QED
    BY <2>1 DEF ToSet, Ids
<1> QED
  BY <1>1 DEF Past, HeldId

\* r has the units of q, and u.
LEMMA OneMore ==
    ASSUME NEW q, NEW r, NEW u,
           \A i \in DOMAIN q : \E j \in DOMAIN r : r[j] = q[i],
           \A j \in DOMAIN r : r[j] = u \/ \E i \in DOMAIN q : r[j] = q[i],
           \E j \in DOMAIN r : r[j] = u
    PROVE  Ids(r) = Ids(q) \cup {u.id}
<1>1. Ids(q) \cup {u.id} \subseteq Ids(r)
  BY DEF Ids
<1>2. Ids(r) \subseteq Ids(q) \cup {u.id}
  BY DEF Ids
<1> QED
  BY <1>1, <1>2

LEMMA PutPast ==
    ASSUME UnitsOK, NEW u, NEW k, PutFacts(u, k)
    PROVE  Past' = Past \cup ({coming.id} \ {0})
<1>1. /\ Len(delayQueue) \in Nat /\ DOMAIN delayQueue = 1..Len(delayQueue)
      /\ DOMAIN delayQueue' = 1..(Len(delayQueue) + 1)
  BY QueueTypes DEF UnitsOK, PutFacts, Placed
<1>2. /\ k \in 1..(Len(delayQueue) + 1) /\ u.id = coming.id
      /\ \A i \in 1..(Len(delayQueue) + 1) :
            delayQueue'[i] = IF i < k THEN delayQueue[i] ELSE IF i = k THEN u ELSE delayQueue[i - 1]
  BY DEF PutFacts, Placed
<1>3. PICK n \in Nat : n = Len(delayQueue)
  BY <1>1
<1>4. \A i \in 1..n : \E j \in 1..(n + 1) : delayQueue'[j] = delayQueue[i]
  <2> SUFFICES ASSUME NEW i \in 1..n PROVE \E j \in 1..(n + 1) : delayQueue'[j] = delayQueue[i]
    OBVIOUS
  <2>1. CASE i < k
    <3>1. i \in 1..(n + 1) /\ delayQueue'[i] = delayQueue[i]
      BY <1>2, <1>3, <2>1
    <3> QED
      BY <3>1
  <2>2. CASE ~(i < k)
    <3>1. i + 1 \in 1..(n + 1) /\ delayQueue'[i + 1] = delayQueue[i]
      BY <1>2, <1>3, <2>2
    <3> QED
      BY <3>1
  <2> QED
    BY <2>1, <2>2
<1>5. \A j \in 1..(n + 1) : j = k \/ \E i \in 1..n : delayQueue'[j] = delayQueue[i]
  <2> SUFFICES ASSUME NEW j \in 1..(n + 1), j # k PROVE \E i \in 1..n : delayQueue'[j] = delayQueue[i]
    OBVIOUS
  <2>1. CASE j < k
    <3>1. j \in 1..n /\ delayQueue'[j] = delayQueue[j]
      BY <1>2, <1>3, <2>1
    <3> QED
      BY <3>1
  <2>2. CASE ~(j < k)
    <3>1. j - 1 \in 1..n /\ delayQueue'[j] = delayQueue[j - 1]
      BY <1>2, <1>3, <2>2
    <3> QED
      BY <3>1
  <2> QED
    BY <2>1, <2>2
<1>6. delayQueue'[k] = u /\ k \in 1..(n + 1)
  BY <1>2, <1>3
<1>7. Ids(delayQueue') = Ids(delayQueue) \cup {coming.id}
  <2>1. \A i \in DOMAIN delayQueue : \E j \in DOMAIN delayQueue' : delayQueue'[j] = delayQueue[i]
    BY <1>1, <1>3, <1>4
  <2>2. \A j \in DOMAIN delayQueue' :
            delayQueue'[j] = u \/ \E i \in DOMAIN delayQueue : delayQueue'[j] = delayQueue[i]
    BY <1>1, <1>3, <1>5, <1>6
  <2>3. \E j \in DOMAIN delayQueue' : delayQueue'[j] = u
    BY <1>1, <1>3, <1>6
  <2>4. Ids(delayQueue') = Ids(delayQueue) \cup {u.id}
    <3>1. PICK q, r : q = delayQueue /\ r = delayQueue'
      OBVIOUS
    <3>2. /\ \A i \in DOMAIN q : \E j \in DOMAIN r : r[j] = q[i]
          /\ \A j \in DOMAIN r : r[j] = u \/ \E i \in DOMAIN q : r[j] = q[i]
          /\ \E j \in DOMAIN r : r[j] = u
      BY <2>1, <2>2, <2>3, <3>1
    <3>3. Ids(r) = Ids(q) \cup {u.id}
      BY ONLY <3>2, OneMore
    <3> QED
      BY <3>1, <3>3
  <2> QED
    BY <1>2, <2>4
<1>8. UNCHANGED <<left, held>>
  BY DEF PutFacts
<1>9. Past' = left' \cup (Ids(delayQueue') \ {0}) \cup HeldId'
  BY PastIsNext
<1>10. HeldId' = HeldId
  BY <1>8 DEF HeldId
<1> QED
  BY <1>7, <1>8, <1>9, <1>10, PastIs

LEMMA DequeuePast ==
    ASSUME UnitsOK, NEW k, DequeueFacts(k)
    PROVE  Past' = Past
<1>1. /\ Len(delayQueue) \in Nat /\ DOMAIN delayQueue = 1..Len(delayQueue) /\ k \in 1..Len(delayQueue)
      /\ DOMAIN delayQueue' = 1..(Len(delayQueue) - 1)
      /\ \A i \in 1..(Len(delayQueue) - 1) :
            delayQueue'[i] = IF i < k THEN delayQueue[i] ELSE delayQueue[i + 1]
  BY QueueTypes DEF UnitsOK, DequeueFacts, Taken
<1>2. PICK n \in Nat : n = Len(delayQueue)
  BY <1>1
<1>3. \A j \in 1..(n - 1) : \E i \in 1..n : delayQueue'[j] = delayQueue[i]
  BY <1>1, <1>2
<1>4. \A i \in 1..n : i = k \/ \E j \in 1..(n - 1) : delayQueue'[j] = delayQueue[i]
  <2> SUFFICES ASSUME NEW i \in 1..n, i # k PROVE \E j \in 1..(n - 1) : delayQueue'[j] = delayQueue[i]
    OBVIOUS
  <2>1. CASE i < k
    <3>1. i \in 1..(n - 1) /\ delayQueue'[i] = delayQueue[i]
      BY <1>1, <1>2, <2>1
    <3> QED
      BY <3>1
  <2>2. CASE ~(i < k)
    <3>1. i - 1 \in 1..(n - 1) /\ ~(i - 1 < k) /\ (i - 1) + 1 = i
      BY <1>1, <1>2, <2>2
    <3>2. delayQueue'[i - 1] = delayQueue[i]
      BY <1>1, <1>2, <3>1
    <3> QED
      BY <3>1, <3>2
  <2> QED
    BY <2>1, <2>2
<1>5. Ids(delayQueue) = Ids(delayQueue') \cup {delayQueue[k].id}
  <2>1. \A j \in DOMAIN delayQueue' : \E i \in DOMAIN delayQueue : delayQueue[i] = delayQueue'[j]
    BY <1>1, <1>2, <1>3
  <2>2. \A i \in DOMAIN delayQueue :
            delayQueue[i] = delayQueue[k] \/ \E j \in DOMAIN delayQueue' : delayQueue[i] = delayQueue'[j]
    BY <1>1, <1>2, <1>4
  <2>3. \E i \in DOMAIN delayQueue : delayQueue[i] = delayQueue[k]
    BY <1>1
  <2>4. PICK q, r, u : q = delayQueue' /\ r = delayQueue /\ u = delayQueue[k]
    OBVIOUS
  <2>5. /\ \A i \in DOMAIN q : \E j \in DOMAIN r : r[j] = q[i]
        /\ \A j \in DOMAIN r : r[j] = u \/ \E i \in DOMAIN q : r[j] = q[i]
        /\ \E j \in DOMAIN r : r[j] = u
    BY <2>1, <2>2, <2>3, <2>4
  <2>6. Ids(r) = Ids(q) \cup {u.id}
    BY ONLY <2>5, OneMore
  <2> QED
    BY <2>4, <2>6
<1>6. HeldId = {} /\ HeldId' = {delayQueue[k].id} \ {0} /\ left' = left
  BY DEF DequeueFacts, HeldId
<1>7. Past' = left' \cup (Ids(delayQueue') \ {0}) \cup HeldId'
  BY PastIsNext
<1> QED
  BY <1>5, <1>6, <1>7, PastIs

\* A step that leaves each unit what it is.
LEMMA SamePast ==
    ASSUME UNCHANGED left, DOMAIN delayQueue' = DOMAIN delayQueue,
           \A i \in DOMAIN delayQueue : delayQueue'[i].id = delayQueue[i].id,
           (held' = Nobody <=> held = Nobody), (held # Nobody => held'.id = held.id)
    PROVE  Past' = Past
<1>1. Ids(delayQueue') = Ids(delayQueue)
  BY DEF Ids
<1>2. HeldId' = HeldId
  BY DEF HeldId
<1>3. Past' = left' \cup (Ids(delayQueue') \ {0}) \cup HeldId'
  BY PastIsNext
<1> QED
  BY <1>1, <1>2, <1>3, PastIs

LEMMA SendPast == ASSUME Send PROVE Past' = Past
<1>1. /\ held # Nobody /\ held' = Nobody /\ left' = left \cup ({held.id} \ {0})
      /\ delayQueue' = delayQueue
  BY DEF Send
<1>2. HeldId = {held.id} \ {0} /\ HeldId' = {}
  BY <1>1 DEF HeldId
<1>3. Past' = left' \cup (Ids(delayQueue') \ {0}) \cup HeldId'
  BY PastIsNext
<1> QED
  BY <1>1, <1>2, <1>3, PastIs

\* Ticks and changes of the order leave the units what they are.
SameUnits ==
    /\ DOMAIN delayQueue' = DOMAIN delayQueue
    /\ \A i \in DOMAIN delayQueue : delayQueue'[i].id = delayQueue[i].id
    /\ (held' = Nobody <=> held = Nobody) /\ (held # Nobody => held'.id = held.id)

LEMMA TickUnits ==
    ASSUME UnitsOK, DelayTick
    PROVE  SameUnits /\ UNCHANGED left /\ \A i \in DOMAIN delayQueue : delayQueue'[i].free = delayQueue[i].free
<1>1. /\ delayQueue' = [i \in DOMAIN delayQueue |-> Nearer(delayQueue[i])]
      /\ held' = Nearer(held) /\ UNCHANGED left
  BY DEF DelayTick, dlyhistory
<1>2. \A i \in DOMAIN delayQueue :
         Nearer(delayQueue[i]).id = delayQueue[i].id /\ Nearer(delayQueue[i]).free = delayQueue[i].free
  BY NearerUnit DEF UnitsOK
<1>3. CASE held = Nobody
  BY <1>1, <1>2, <1>3 DEF SameUnits, Nearer
<1>4. CASE held # Nobody
  <2>1. held \in DelayUnits
    BY <1>4 DEF UnitsOK
  <2>2. Nearer(held) # Nobody /\ Nearer(held).id = held.id
    BY <2>1, NearerUnit
  <2> QED
    BY <1>1, <1>2, <1>4, <2>2 DEF SameUnits
<1> QED
  BY <1>3, <1>4

LEMMA AllowUnits ==
    ASSUME UnitsOK, NEW allow \in BOOLEAN, SetAllowJitterReorder(allow)
    PROVE  /\ SameUnits /\ UNCHANGED <<left, held, mode>>
           /\ \A i \in DOMAIN delayQueue : delayQueue'[i].free = (delayQueue[i].free \/ allow)
<1>1. /\ delayQueue' = [i \in DOMAIN delayQueue |-> [delayQueue[i] EXCEPT !.free = @ \/ allow]]
      /\ UNCHANGED <<left, held, mode>>
  BY DEF SetAllowJitterReorder
<1>2. \A i \in DOMAIN delayQueue : delayQueue[i] \in DelayUnits
  BY DEF UnitsOK
<1>3. ASSUME NEW i \in DOMAIN delayQueue
      PROVE  /\ [delayQueue[i] EXCEPT !.free = @ \/ allow].id = delayQueue[i].id
             /\ [delayQueue[i] EXCEPT !.free = @ \/ allow].free = (delayQueue[i].free \/ allow)
  BY <1>2 DEF DelayUnits
<1>4. /\ DOMAIN delayQueue' = DOMAIN delayQueue
      /\ \A i \in DOMAIN delayQueue : delayQueue'[i] = [delayQueue[i] EXCEPT !.free = @ \/ allow]
  BY <1>1
<1> QED
  BY <1>1, <1>3, <1>4 DEF SameUnits

-----------------------------------------------------------------------------
(* Each step keeps what the transmitter has and what is past it apart.     *)

Ordered(g) == TxHas(g) /\ Past = 1..g

LEMMA TxOnlyOrder ==
    ASSUME TxOK, NEW g \in Nat, Ordered(g), UNCHANGED delayvars,
           \/ LinkSend \/ Rebuild \/ TxStep \/ SetUpdated \/ Pulse
           \/ \E i \in Intervals : SetInterval(i)
    PROVE  Ordered(g)'
<1>1. Past' = Past
  BY SamePast DEF delayvars
<1>2. TxHas(g)
  BY DEF Ordered
<1>3. CASE LinkSend
  BY <1>1, <1>2, <1>3, LinkSendOrder DEF Ordered
<1>4. CASE TxStep
  BY <1>1, <1>2, <1>4, TxStepOrder DEF Ordered
<1>5. CASE Rebuild \/ SetUpdated \/ Pulse \/ \E i \in Intervals : SetInterval(i)
  <2>1. UNCHANGED <<put, txQueue, data>>
    BY <1>5 DEF Rebuild, SetUpdated, Pulse, SetInterval, threadvars, queuevars
  <2> QED
    BY <1>1, <1>2, <2>1, SameOrder DEF Ordered
<1> QED
  BY <1>3, <1>4, <1>5

LEMMA DelayOnlyOrder ==
    ASSUME DelayOK, NEW g \in Nat, Ordered(g), UNCHANGED txvars,
           \/ Dequeue \/ Send \/ ClearTimeLine
           \/ \E d \in Delays, start \in Starts \cup {0} : SetDelay(d, start)
           \/ \E allow \in BOOLEAN : SetAllowJitterReorder(allow)
    PROVE  Ordered(g)'
<1>1. TxHas(g)'
  BY SameOrder DEF Ordered, txvars, queuevars, threadvars
<1>2. CASE Dequeue
  <2>1. PICK k : DequeueFacts(k)
    BY <1>2, DequeueDoes DEF DelayOK
  <2>2. Past' = Past
    BY <2>1, DequeuePast, DelayParts
  <2> QED
    BY <1>1, <2>2 DEF Ordered
<1>3. CASE Send
  BY <1>1, <1>3, SendPast DEF Ordered
<1>4. CASE ClearTimeLine \/ \E d \in Delays, start \in Starts \cup {0} : SetDelay(d, start)
  <2>1. UNCHANGED <<left, delayQueue, held>>
    BY <1>4 DEF ClearTimeLine, SetDelay, dlyhistory
  <2>2. Past' = Past
    BY <2>1, SamePast
  <2> QED
    BY <1>1, <2>2 DEF Ordered
<1>5. ASSUME NEW allow \in BOOLEAN, SetAllowJitterReorder(allow) PROVE Ordered(g)'
  <2>1. SameUnits /\ UNCHANGED left
    BY <1>5, AllowUnits, DelayParts
  <2>2. Past' = Past
    BY <2>1, SamePast DEF SameUnits
  <2> QED
    BY <1>1, <2>2 DEF Ordered
<1> QED
  BY <1>2, <1>3, <1>4, <1>5

\* putData() holds the unit without a change to what is past the transmitter.
LEMMA ComeKeepsOrder ==
    ASSUME NEW g \in Nat, Ordered(g), NEW id, ComeFacts(id), UNCHANGED txvars
    PROVE  Ordered(g)'
<1>1. TxHas(g)'
  BY SameOrder DEF Ordered, txvars, queuevars, threadvars
<1>2. UNCHANGED <<left, delayQueue, held>>
  BY DEF ComeFacts, dlyhistory
<1>3. Past' = Past
  BY <1>2, SamePast
<1> QED
  BY <1>1, <1>3 DEF Ordered

LEMMA PutKeepsOrder ==
    ASSUME TxOK, DelayOK, Comes, NEW g \in Nat, Ordered(g), TxSend, Enqueue
    PROVE  /\ \E h \in Nat : Ordered(h)'
           /\ \E u, k : PutFacts(u, k) /\ u.id \in {0, g + 1}
<1>1. /\ data \in TxUnits
      /\ \/ data.id = 0 /\ TxHas(g)'
         \/ data.id = g + 1 /\ TxHas(g + 1)'
  BY HandOverOrder DEF Ordered
<1>2. coming.id = data.id
  BY DEF Comes, Enqueue
<1>3. PICK u, k : PutFacts(u, k)
  BY EnqueueDoes DEF DelayOK
<1>4. UnitsOK
  BY DelayParts
<1>5. Past' = Past \cup ({data.id} \ {0})
  BY <1>2, <1>3, <1>4, PutPast
<1>6. u.id = data.id
  BY <1>2, <1>3 DEF PutFacts
<1>7. CASE data.id = 0 /\ TxHas(g)'
  <2>1. Past' = Past
    BY <1>5, <1>7
  <2>2. Ordered(g)'
    BY <1>7, <2>1 DEF Ordered
  <2> QED
    BY <1>3, <1>6, <1>7, <2>2
<1>8. CASE data.id = g + 1 /\ TxHas(g + 1)'
  <2>1. Past' = 1..(g + 1)
    BY <1>5, <1>8 DEF Ordered
  <2>2. Ordered(g + 1)' /\ g + 1 \in Nat
    BY <1>8, <2>1 DEF Ordered
  <2> QED
    BY <1>3, <1>6, <1>8, <2>2
<1> QED
  BY <1>1, <1>7, <1>8

LEMMA TickOrder ==
    ASSUME TxOK, DelayOK, NEW g \in Nat, Ordered(g), Tick
    PROVE  Ordered(g)'
<1>1. TxHas(g)'
  BY TxTickOrder DEF Ordered, Tick
<1>2. SameUnits /\ UNCHANGED left
  BY TickUnits, DelayParts DEF Tick
<1>3. Past' = Past
  BY <1>2, SamePast DEF SameUnits
<1> QED
  BY <1>1, <1>3 DEF Ordered

-----------------------------------------------------------------------------
(* Turns.                                                                  *)

\* What TurnInv says of the queue.
Behind(q, allow) ==
    /\ allow => \A i \in DOMAIN q : q[i].free
    /\ \A i, j \in DOMAIN q : ~q[i].free /\ i < j => q[j].id = 0 \/ q[i].id < q[j].id

LEMMA TurnParts ==
    TurnInv <=> /\ spareTurns >= 0
                /\ WaitsBy => spareTurns >= 1
                /\ ComesBy => spareTurns >= 1
                /\ WaitsBy /\ ComesBy => spareTurns >= 2
                /\ Behind(delayQueue, _allowJitterReorder \/ ByDeadlines)
BY DEF TurnInv, Behind

LEMMA PutBehind ==
    ASSUME NEW q \in Seq(DelayUnits), NEW r \in Seq(DelayUnits), NEW u \in DelayUnits, NEW k,
           NEW allow \in BOOLEAN, NEW g \in Nat,
           Behind(q, allow), Placed(r, q, k, u), u.free = allow, ~allow => k = Len(q) + 1,
           u.id \in {0, g + 1}, \A i \in DOMAIN q : q[i].id <= g
    PROVE  Behind(r, allow)
<1>1. PICK n \in Nat : n = Len(q) /\ DOMAIN q = 1..n /\ Len(r) = n + 1 /\ DOMAIN r = 1..(n + 1)
  BY DEF Placed
<1>2. \A i \in 1..(n + 1) : r[i] = IF i < k THEN q[i] ELSE IF i = k THEN u ELSE q[i - 1]
  BY <1>1 DEF Placed
<1>3. k \in 1..(n + 1)
  BY <1>1 DEF Placed
<1>4. CASE allow
  <2>1. \A i \in 1..n : q[i].free
    BY <1>1, <1>4 DEF Behind
  <2>2. ASSUME NEW i \in 1..(n + 1) PROVE r[i].free
    <3>1. CASE i < k
      <4>1. i \in 1..n /\ r[i] = q[i]
        BY <1>2, <1>3, <3>1
      <4> QED
        BY <2>1, <4>1
    <3>2. CASE i = k
      <4>1. r[i] = u
        BY <1>2, <1>3, <3>2
      <4> QED
        BY <1>4, <4>1
    <3>3. CASE i > k
      <4>1. i - 1 \in 1..n /\ r[i] = q[i - 1]
        BY <1>2, <1>3, <3>3
      <4> QED
        BY <2>1, <4>1
    <3> QED
      BY <1>3, <3>1, <3>2, <3>3
  <2> QED
    BY <1>1, <2>2 DEF Behind
<1>5. CASE ~allow
  <2>1. k = n + 1
    BY <1>1, <1>5
  <2>2. /\ \A i \in 1..n : r[i] = q[i]
        /\ r[n + 1] = u
    BY <1>2, <2>1
  <2>3. \A i, j \in 1..n : ~q[i].free /\ i < j => q[j].id = 0 \/ q[i].id < q[j].id
    BY <1>1 DEF Behind
  <2>4. \A i \in 1..n : q[i].id \in Nat /\ q[i].id <= g
    <3>1. \A i \in 1..n : q[i] \in DelayUnits /\ q[i].id <= g
      BY <1>1
    <3> QED
      BY <3>1, UnitTypes
  <2>5. ASSUME NEW i \in 1..(n + 1), NEW j \in 1..(n + 1), ~r[i].free, i < j
        PROVE  r[j].id = 0 \/ r[i].id < r[j].id
    <3>1. i \in 1..n
      BY <2>5
    <3>2. CASE j \in 1..n
      <4>1. r[i] = q[i] /\ r[j] = q[j]
        BY <2>2, <3>1, <3>2
      <4> QED
        BY <2>3, <2>5, <3>1, <3>2, <4>1
    <3>3. CASE j = n + 1
      <4>1. r[i].id = q[i].id /\ r[j].id = u.id /\ q[i].id \in Nat /\ q[i].id <= g
        BY <2>2, <2>4, <3>1, <3>3
      <4> QED
        BY <4>1
    <3> QED
      BY <3>2, <3>3
  <2> QED
    BY <1>1, <1>5, <2>5 DEF Behind
<1> QED
  BY <1>4, <1>5

LEMMA TakenBehind ==
    ASSUME NEW q \in Seq(DelayUnits), NEW r \in Seq(DelayUnits), NEW k \in 1..Len(q),
           NEW allow \in BOOLEAN, Behind(q, allow), Taken(r, q, k)
    PROVE  Behind(r, allow)
<1>1. PICK n \in Nat : n = Len(q) /\ DOMAIN q = 1..n /\ Len(r) = n - 1 /\ DOMAIN r = 1..(n - 1)
  BY DEF Taken
<1>2. \A i \in 1..(n - 1) : r[i] = IF i < k THEN q[i] ELSE q[i + 1]
  BY <1>1 DEF Taken
<1>3. k \in 1..n
  BY <1>1
<1>4. ASSUME allow, NEW i \in 1..(n - 1) PROVE r[i].free
  <2>1. i \in 1..n /\ i + 1 \in 1..n
    OBVIOUS
  <2> QED
    BY <1>1, <1>2, <1>4, <2>1 DEF Behind
<1>5. ASSUME NEW i \in 1..(n - 1), NEW j \in 1..(n - 1), ~r[i].free, i < j
      PROVE  r[j].id = 0 \/ r[i].id < r[j].id
  <2>1. PICK a \in 1..n : r[i] = q[a] /\ a = IF i < k THEN i ELSE i + 1
    BY <1>2
  <2>2. PICK b \in 1..n : r[j] = q[b] /\ b = IF j < k THEN j ELSE j + 1
    BY <1>2
  <2>3. a < b
    BY <1>3, <1>5, <2>1, <2>2
  <2> QED
    BY <1>1, <1>5, <2>1, <2>2, <2>3 DEF Behind
<1> QED
  BY <1>1, <1>4, <1>5 DEF Behind

\* A unit that jumps does so by the order of deadlines, without leave, and while putData() does not.
LEMMA JumpCosts ==
    ASSUME DelayOK, TurnInv, NEW k, DequeueFacts(k), Jumps(delayQueue[k])
    PROVE  spareTurns >= 1 /\ ~ComesBy
<1>1. /\ delayQueue \in Seq(DelayUnits) /\ held = Nobody /\ k \in 1..Len(delayQueue)
      /\ ~mode => k = 1
  BY DelayParts DEF UnitsOK, DequeueFacts
<1>2. /\ Len(delayQueue) \in Nat /\ DOMAIN delayQueue = 1..Len(delayQueue)
      /\ \A i \in DOMAIN delayQueue : delayQueue[i].id \in Nat
  BY <1>1, UnitTypes
<1>3. /\ ~delayQueue[k].free
      /\ \E i \in DOMAIN delayQueue : delayQueue[i].id \in 1..(delayQueue[k].id - 1)
  BY DEF Jumps
<1>4. ~_allowJitterReorder /\ ~ByDeadlines
  BY <1>1, <1>2, <1>3 DEF TurnInv
<1>5. mode
  <2> SUFFICES ASSUME ~mode PROVE FALSE
    OBVIOUS
  <2>1. k = 1
    BY <1>1
  <2>2. PICK i \in DOMAIN delayQueue : delayQueue[i].id \in 1..(delayQueue[1].id - 1)
    BY <1>3, <2>1
  <2>3. i # 1 /\ i > 1
    BY <1>1, <1>2, <2>1, <2>2
  <2>4. delayQueue[i].id = 0 \/ delayQueue[1].id < delayQueue[i].id
    BY <1>1, <1>2, <1>3, <2>1, <2>3 DEF TurnInv
  <2> QED
    BY <1>1, <1>2, <2>1, <2>2, <2>4
<1> QED
  BY <1>1, <1>4, <1>5 DEF TurnInv, WaitsBy, ComesBy

LEMMA TurnStays == ASSUME TurnInv, UNCHANGED <<spareTurns, mode, _allowJitterReorder, coming, held, delayQueue>>
                   PROVE  TurnInv'
BY DEF TurnInv, WaitsBy, ComesBy, ByDeadlines

\* The order putData() reads is the one of now,
LEMMA ComeTurns ==
    ASSUME DelayOK, TurnInv, NEW id, ComeFacts(id)
    PROVE  TurnInv'
<1>1. UNCHANGED <<spareTurns, mode, _allowJitterReorder, held, delayQueue>>
  BY DEF ComeFacts, settings, dlyhistory
<1>2. (ByDeadlines' <=> _allowJitterReorder) /\ ~ComesBy' /\ (WaitsBy' <=> WaitsBy)
  BY <1>1 DEF ComeFacts, ByDeadlines, ComesBy, WaitsBy
<1> QED
  BY <1>1, <1>2 DEF TurnInv

\* and if it has changed since, queueing the unit costs the turn of that change.
LEMMA PutTurns ==
    ASSUME DelayOK, TurnInv, NEW g \in Nat, Past = 1..g,
           NEW u, NEW k, PutFacts(u, k), u.id \in {0, g + 1}
    PROVE  TurnInv'
<1>1. /\ delayQueue \in Seq(DelayUnits) /\ delayQueue' \in Seq(DelayUnits) /\ u \in DelayUnits
      /\ Placed(delayQueue', delayQueue, k, u) /\ u.free = (coming.free \/ _allowJitterReorder)
      /\ ~coming.free => k = Len(delayQueue) + 1
      /\ _allowJitterReorder \in BOOLEAN /\ coming.free \in BOOLEAN
      /\ coming \in DelayUnits /\ coming' = Nobody
      /\ UNCHANGED <<mode, _allowJitterReorder, held>>
  BY DelayParts, UnitTypes DEF PutFacts, UnitsOK, SettingsOK, settings
<1>2. coming # Nobody /\ (ByDeadlines <=> coming.free) /\ ~ByDeadlines'
  BY <1>1, DelayAssumption DEF ByDeadlines, DelayAssumption
<1>3. \A i \in DOMAIN delayQueue : delayQueue[i].id <= g
  <2> SUFFICES ASSUME NEW i \in DOMAIN delayQueue PROVE delayQueue[i].id <= g
    OBVIOUS
  <2>1. delayQueue[i].id \in Ids(delayQueue) /\ delayQueue[i].id \in Nat
    BY <1>1, UnitTypes DEF Ids
  <2>2. delayQueue[i].id = 0 \/ delayQueue[i].id \in 1..g
    BY <2>1, PastIs
  <2> QED
    BY <2>2
<1>4. PICK fr \in BOOLEAN : fr = (coming.free \/ _allowJitterReorder)
  BY <1>1
<1>5. Behind(delayQueue, fr)
  BY <1>1, <1>2, <1>4 DEF TurnInv, Behind
<1>6. u.free = fr
  BY <1>1, <1>4
<1>7. ~fr => k = Len(delayQueue) + 1
  BY <1>1, <1>4
<1>8. Behind(delayQueue', fr)
  BY <1>1, <1>3, <1>5, <1>6, <1>7, PutBehind
<1>9. Behind(delayQueue', _allowJitterReorder' \/ ByDeadlines')
  BY <1>1, <1>2, <1>4, <1>8 DEF Behind
<1>10. ~ComesBy' /\ (WaitsBy' <=> WaitsBy)
  BY <1>1, <1>2 DEF ComesBy, WaitsBy
<1>11. spareTurns \in Int /\ spareTurns >= 0
  BY DelayParts DEF HistoryOK, TurnInv
<1>12. spareTurns' >= 0 /\ (WaitsBy' => spareTurns' >= 1)
  <2>1. CASE coming.free /\ ~_allowJitterReorder
    <3>1. ComesBy /\ spareTurns' = spareTurns - 1
      BY <1>2, <2>1 DEF ComesBy, PutFacts
    <3> QED
      BY <1>10, <1>11, <3>1 DEF TurnInv
  <2>2. CASE ~(coming.free /\ ~_allowJitterReorder)
    <3>1. spareTurns' = spareTurns
      BY <2>2 DEF PutFacts
    <3> QED
      BY <1>10, <1>11, <3>1 DEF TurnInv
  <2> QED
    BY <2>1, <2>2
<1> QED
  BY <1>9, <1>10, <1>12 DEF TurnInv, Behind

LEMMA DequeueTurns ==
    ASSUME DelayOK, TurnInv, Dequeue
    PROVE  TurnInv'
<1>1. PICK k : DequeueFacts(k)
  BY DequeueDoes DEF DelayOK
<1>2. /\ held' # Nobody /\ delayQueue \in Seq(DelayUnits) /\ delayQueue' \in Seq(DelayUnits)
      /\ k \in 1..Len(delayQueue) /\ Taken(delayQueue', delayQueue, k)
      /\ _allowJitterReorder \in BOOLEAN /\ UNCHANGED <<_allowJitterReorder, mode, coming>>
  BY <1>1, DelayParts DEF DequeueFacts, UnitsOK, SettingsOK, settings
<1>3. Behind(delayQueue', _allowJitterReorder \/ ByDeadlines)
  <2>1. PICK fr \in BOOLEAN : fr = (_allowJitterReorder \/ ByDeadlines)
    BY Zenon
  <2>2. Behind(delayQueue, fr)
    BY <2>1, TurnParts
  <2>3. Behind(delayQueue', fr)
    BY <1>2, <2>2, TakenBehind
  <2> QED
    BY <2>1, <2>3
<1>4. spareTurns' >= 0 /\ (ComesBy => spareTurns' >= 1)
  <2>1. spareTurns \in Int /\ spareTurns >= 0
    BY DelayParts DEF HistoryOK, TurnInv
  <2>2. CASE Jumps(delayQueue[k])
    <3>1. spareTurns >= 1 /\ ~ComesBy /\ spareTurns' = spareTurns - 1
      BY <1>1, <2>2, JumpCosts DEF DequeueFacts
    <3> QED
      BY <2>1, <3>1
  <2>3. CASE ~Jumps(delayQueue[k])
    BY <1>1, <2>1, <2>3 DEF DequeueFacts, TurnInv
  <2> QED
    BY <2>2, <2>3
<1>5. ~WaitsBy' /\ (ComesBy' <=> ComesBy) /\ (ByDeadlines' <=> ByDeadlines)
  BY <1>2 DEF WaitsBy, ComesBy, ByDeadlines
<1> QED
  BY <1>2, <1>3, <1>4, <1>5 DEF TurnInv, Behind

LEMMA SendTurns == ASSUME TurnInv, Send PROVE TurnInv'
BY DEF TurnInv, WaitsBy, ComesBy, ByDeadlines, Send, settings

LEMMA SetDelayTurns ==
    ASSUME TurnInv, ClearTimeLine \/ \E d \in Delays, start \in Starts \cup {0} : SetDelay(d, start)
    PROVE  TurnInv'
<1>1. UNCHANGED <<spareTurns, mode, _allowJitterReorder, coming, held, delayQueue>>
  BY DEF ClearTimeLine, SetDelay, dlyhistory
<1> QED
  BY <1>1, TurnStays

LEMMA AllowTurns ==
    ASSUME DelayOK, TurnInv, NEW allow \in BOOLEAN, SetAllowJitterReorder(allow)
    PROVE  TurnInv'
<1>1. /\ SameUnits /\ UNCHANGED <<held, mode>>
      /\ \A i \in DOMAIN delayQueue : delayQueue'[i].free = (delayQueue[i].free \/ allow)
  BY AllowUnits, DelayParts
<1>2. /\ _allowJitterReorder' = allow /\ UNCHANGED coming
      /\ spareTurns' = spareTurns + (IF allow THEN 0 ELSE IF ByDeadlines THEN 2 ELSE 1)
  BY DEF SetAllowJitterReorder
<1>3. spareTurns \in Int /\ spareTurns >= 0
  BY DelayParts DEF HistoryOK, TurnInv
<1>4. ByDeadlines' <=> ByDeadlines
  BY <1>2 DEF ByDeadlines
<1>5. /\ spareTurns' >= 0 /\ (~allow => spareTurns' >= 1)
      /\ ~allow /\ ByDeadlines => spareTurns' >= 2
  BY <1>2, <1>3
<1>6. (WaitsBy' => ~allow) /\ (ComesBy' => ~allow /\ ByDeadlines)
  BY <1>2, <1>4 DEF WaitsBy, ComesBy
<1>7. ASSUME allow \/ ByDeadlines, NEW i \in DOMAIN delayQueue' PROVE delayQueue'[i].free
  BY <1>1, <1>7 DEF SameUnits, TurnInv
<1>8. ASSUME NEW i \in DOMAIN delayQueue', NEW j \in DOMAIN delayQueue', ~delayQueue'[i].free, i < j
      PROVE  delayQueue'[j].id = 0 \/ delayQueue'[i].id < delayQueue'[j].id
  <2>1. i \in DOMAIN delayQueue /\ j \in DOMAIN delayQueue
    BY <1>1 DEF SameUnits
  <2>2. ~delayQueue[i].free
    BY <1>1, <1>8, <2>1
  <2>3. delayQueue[j].id = 0 \/ delayQueue[i].id < delayQueue[j].id
    BY <1>8, <2>1, <2>2 DEF TurnInv
  <2> QED
    BY <1>1, <2>1, <2>3 DEF SameUnits
<1>9. _allowJitterReorder' \/ ByDeadlines' => \A i \in DOMAIN delayQueue' : delayQueue'[i].free
  BY <1>2, <1>4, <1>7
<1> QED
  BY <1>5, <1>6, <1>8, <1>9 DEF TurnInv

LEMMA TickTurns ==
    ASSUME DelayOK, TurnInv, DelayTick
    PROVE  TurnInv'
<1>1. SameUnits /\ \A i \in DOMAIN delayQueue : delayQueue'[i].free = delayQueue[i].free
  BY TickUnits, DelayParts
<1>2. UNCHANGED <<spareTurns, mode, _allowJitterReorder>>
  BY DEF DelayTick, settings, dlyhistory
<1>3. ByDeadlines' <=> ByDeadlines
  <2>1. CASE coming = Nobody
    BY <2>1 DEF DelayTick, Nearer, ByDeadlines
  <2>2. CASE coming # Nobody
    <3>1. coming \in DelayUnits /\ coming' = Nearer(coming)
      BY <2>2, DelayParts DEF UnitsOK, DelayTick
    <3> QED
      BY <2>2, <3>1, NearerUnit DEF ByDeadlines
  <2> QED
    BY <2>1, <2>2
<1>4. (WaitsBy' <=> WaitsBy) /\ (ComesBy' <=> ComesBy)
  BY <1>1, <1>2, <1>3 DEF WaitsBy, ComesBy, SameUnits
<1> QED
  BY <1>1, <1>2, <1>3, <1>4 DEF TurnInv, SameUnits

-----------------------------------------------------------------------------
(* The unit putData() holds is the transmitter's.                          *)

LEMMA TxOnlyComes ==
    ASSUME Comes, UNCHANGED coming,
           \/ LinkSend \/ Rebuild \/ TxStep \/ SetUpdated \/ Pulse
           \/ \E i \in Intervals : SetInterval(i)
    PROVE  Comes'
<1>1. CASE coming = Nobody
  BY <1>1 DEF Comes
<1>2. CASE coming # Nobody
  <2>1. tx = "sleep" /\ data # Nothing /\ coming.id = data.id
    BY <1>2 DEF Comes
  <2>2. ~TxStep
    BY <2>1 DEF TxStep, Loop, Slot, Getq, Wait, Heard, GetIdleUnit, NothingToSend, SendNothing, GetqFails, Awake
  <2>3. UNCHANGED <<tx, data>>
    BY <2>2 DEF LinkSend, Rebuild, SetUpdated, Pulse, SetInterval, threadvars
  <2> QED
    BY <2>1, <2>3 DEF Comes
<1> QED
  BY <1>1, <1>2

LEMMA TickComes == ASSUME TxOK, DelayOK, Comes, Tick PROVE Comes'
<1>1. coming' = Nearer(coming) /\ UNCHANGED tx /\ TxTick
  BY DEF Tick, DelayTick, TxTick
<1>2. CASE coming = Nobody
  BY <1>1, <1>2 DEF Comes, Nearer
<1>3. CASE coming # Nobody
  <2>1. tx = "sleep" /\ data # Nothing /\ coming.id = data.id
    BY <1>3 DEF Comes
  <2>2. coming \in DelayUnits
    BY <1>3, DelayParts DEF UnitsOK
  <2>3. coming'.id = coming.id
    BY <1>1, <2>2, NearerUnit
  <2>4. data' # Nothing /\ data'.id = data.id
    BY <1>1, <2>1, TickData DEF TxOK
  <2> QED
    BY <1>1, <2>1, <2>3, <2>4 DEF Comes
<1> QED
  BY <1>2, <1>3

-----------------------------------------------------------------------------
(* All steps.                                                              *)

LEMMA PacedParts == PacedInv <=> TxOK /\ DelayOK /\ calls \in 0..MaxCalls /\ OrderInv /\ TurnInv
BY DEF PacedInv, TypeOK, TxOK, DelayOK, OrderInv

\* The disjuncts of Next by what they leave alone.
TxOnly == /\ UNCHANGED delayvars
          /\ \/ LinkSend \/ Rebuild \/ TxStep \/ SetUpdated \/ Pulse
             \/ \E i \in Intervals : SetInterval(i)
DelayOnly == /\ UNCHANGED txvars
             /\ \/ Dequeue \/ Send \/ ClearTimeLine
                \/ \E d \in Delays, start \in Starts \cup {0} : SetDelay(d, start)
                \/ \E allow \in BOOLEAN : SetAllowJitterReorder(allow)

Settles == Awake /\ data # Nothing /\ PutData(data.id, data.age) /\ UNCHANGED txvars
Puts    == TxSend /\ Enqueue

LEMMA NextParts ==
    [Next]_vars => \/ TxOnly \/ DelayOnly \/ Settles \/ Puts \/ Tick \/ UNCHANGED <<txvars, delayvars>>
BY DEF Next, vars, Segment, Transmit, HandOver, DelayStep, InCall, CallInterval, CallDelay, CallClear, TxOnly,
       DelayOnly, Settles, Puts

LEMMA SettlesDoes ==
    ASSUME TxOK, DelayOK, Settles
    PROVE  ComeFacts(data.id) /\ tx = "sleep" /\ data # Nothing /\ UNCHANGED txvars
<1>1. data \in TxUnits /\ tx = "sleep" /\ data # Nothing
  BY TxParts DEF ThreadOK, Settles, Awake
<1>2. data.id \in 0..MaxUnit /\ data.age \in Nat
  BY <1>1, TxUnitTypes, PacedAssumption, PeriodicAssumption DEF PacedAssumption, PeriodicAssumption
<1>3. ComeFacts(data.id)
  BY <1>2, PutDataDoes DEF Settles, DelayOK
<1> QED
  BY <1>1, <1>3 DEF Settles

LEMMA CallsStep == calls \in 0..MaxCalls /\ [Next]_vars => calls' \in 0..MaxCalls
<1> SUFFICES ASSUME calls \in 0..MaxCalls, [Next]_vars PROVE calls' \in 0..MaxCalls
  OBVIOUS
<1>1. MaxCalls \in Nat
  BY PacedAssumption DEF PacedAssumption
<1>2. calls' = calls \/ (calls < MaxCalls /\ calls' = calls + 1)
  BY DEF Next, vars, Segment, Transmit, HandOver, DelayStep, InCall, Tick, CallInterval, CallDelay, CallClear
<1> QED
  BY <1>1, <1>2

LEMMA SameTypes ==
    /\ TxOK /\ UNCHANGED txvars => TxOK'
    /\ DelayOK /\ UNCHANGED delayvars => DelayOK'
<1>1. ASSUME TxOK, UNCHANGED txvars PROVE TxOK'
  BY <1>1 DEF TxOK, TxTypeOK, txvars, queuevars, threadvars
<1>2. ASSUME DelayOK, UNCHANGED delayvars PROVE DelayOK'
  BY <1>2 DEF DelayOK, DelayTypeOK, OwedInv, LineInv, delayvars
<1> QED
  BY <1>1, <1>2

LEMMA TypesStep == TxOK /\ DelayOK /\ [Next]_vars => TxOK' /\ DelayOK'
<1> SUFFICES ASSUME TxOK, DelayOK, [Next]_vars PROVE TxOK' /\ DelayOK'
  OBVIOUS
<1>1. CASE TxOnly
  BY <1>1, SameTypes, SegmentKeepsTypes, TxStepKeepsTypes, CallKeepsTypes DEF TxOnly
<1>2. CASE DelayOnly
  <2>1. TxOK'
    BY <1>2, SameTypes DEF DelayOnly
  <2>2. CASE Dequeue
    BY <2>1, <2>2, DequeueDoes, DequeueKeeps DEF DelayOK
  <2>3. CASE Send \/ ClearTimeLine
    BY <2>1, <2>3, SendKeeps, ClearKeeps
  <2>4. CASE \E d \in Delays, start \in Starts \cup {0} : SetDelay(d, start)
    BY <2>1, <2>4, SetDelayKeeps
  <2>5. CASE \E allow \in BOOLEAN : SetAllowJitterReorder(allow)
    BY <2>1, <2>5, AllowKeeps
  <2> QED
    BY <1>2, <2>2, <2>3, <2>4, <2>5 DEF DelayOnly
<1>3. CASE Settles
  BY <1>3, SettlesDoes, SameTypes, ComeKeeps
<1>4. CASE Puts
  <2>1. TxOK'
    BY <1>4, TxSendKeepsTypes DEF Puts
  <2>2. PICK u, k : PutFacts(u, k)
    BY <1>4, EnqueueDoes DEF Puts, DelayOK
  <2> QED
    BY <2>1, <2>2, PutKeeps
<1>5. CASE Tick
  BY <1>5, TxTickKeepsTypes, DelayTickKeeps DEF Tick
<1>6. CASE UNCHANGED <<txvars, delayvars>>
  BY <1>6, SameTypes
<1> QED
  BY <1>1, <1>2, <1>3, <1>4, <1>5, <1>6, NextParts

LEMMA ComesStep ==
    ASSUME TxOK, DelayOK, Comes, [Next]_vars
    PROVE  Comes'
<1>1. CASE TxOnly
  BY <1>1, TxOnlyComes DEF TxOnly, delayvars
<1>2. CASE DelayOnly
  <2>1. UNCHANGED coming
    BY <1>2 DEF DelayOnly, Dequeue, Send, ClearTimeLine, SetDelay, SetAllowJitterReorder
  <2> QED
    BY <1>2, <2>1 DEF DelayOnly, Comes, txvars, threadvars
<1>3. CASE Settles
  BY <1>3, SettlesDoes DEF Comes, ComeFacts, txvars, threadvars
<1>4. CASE Puts
  BY <1>4 DEF Puts, Enqueue, Comes
<1>5. CASE Tick
  BY <1>5, TickComes
<1>6. CASE UNCHANGED <<txvars, delayvars>>
  BY <1>6 DEF Comes, txvars, threadvars, delayvars
<1> QED
  BY <1>1, <1>2, <1>3, <1>4, <1>5, <1>6, NextParts

LEMMA OrderTurnStep ==
    ASSUME TxOK, DelayOK, OrderInv, TurnInv, [Next]_vars
    PROVE  (\E h \in Nat : Ordered(h)') /\ TurnInv'
<1>1. PICK g \in Nat : Ordered(g)
  BY DEF OrderInv, Ordered
<1>2. CASE TxOnly
  <2>1. Ordered(g)'
    BY <1>1, <1>2, TxOnlyOrder DEF TxOnly
  <2>2. TurnInv'
    BY <1>2, TurnStays DEF TxOnly, delayvars
  <2> QED
    BY <2>1, <2>2
<1>3. CASE DelayOnly
  <2>1. Ordered(g)'
    BY <1>1, <1>3, DelayOnlyOrder DEF DelayOnly
  <2>2. TurnInv'
    BY <1>3, DequeueTurns, SendTurns, SetDelayTurns, AllowTurns DEF DelayOnly
  <2> QED
    BY <2>1, <2>2
<1>4. CASE Settles
  <2>1. ComeFacts(data.id) /\ UNCHANGED txvars
    BY <1>4, SettlesDoes
  <2>2. Ordered(g)'
    BY <1>1, <2>1, ComeKeepsOrder
  <2>3. TurnInv'
    BY <2>1, ComeTurns
  <2> QED
    BY <2>2, <2>3
<1>5. CASE Puts
  <2>1. /\ \E h \in Nat : Ordered(h)'
        /\ \E u, k : PutFacts(u, k) /\ u.id \in {0, g + 1}
    BY <1>1, <1>5, PutKeepsOrder DEF Puts, OrderInv
  <2>2. TurnInv'
    BY <1>1, <2>1, PutTurns DEF Ordered
  <2> QED
    BY <2>1, <2>2
<1>6. CASE Tick
  <2>1. Ordered(g)'
    BY <1>1, <1>6, TickOrder
  <2>2. TurnInv'
    BY <1>6, TickTurns DEF Tick
  <2> QED
    BY <2>1, <2>2
<1>7. CASE UNCHANGED <<txvars, delayvars>>
  <2>1. TxHas(g)'
    BY <1>1, <1>7, SameOrder DEF Ordered, txvars, queuevars, threadvars
  <2>2. Past' = Past
    BY <1>7, SamePast DEF delayvars
  <2>3. Ordered(g)'
    BY <1>1, <2>1, <2>2 DEF Ordered
  <2>4. TurnInv'
    BY <1>7, TurnStays DEF delayvars
  <2> QED
    BY <2>3, <2>4
<1> QED
  BY <1>2, <1>3, <1>4, <1>5, <1>6, <1>7, NextParts

LEMMA PacedStep == PacedInv /\ [Next]_vars => PacedInv'
<1> SUFFICES ASSUME PacedInv, [Next]_vars PROVE PacedInv'
  OBVIOUS
<1>1. TxOK /\ DelayOK /\ calls \in 0..MaxCalls /\ OrderInv /\ TurnInv
  BY PacedParts
<1>2. TxOK' /\ DelayOK' /\ calls' \in 0..MaxCalls
  BY <1>1, TypesStep, CallsStep
<1>3. (\E h \in Nat : Ordered(h)') /\ TurnInv'
  BY <1>1, OrderTurnStep
<1>4. tx' # "sleep" => data' = Nothing
  BY <1>2 DEF TxOK
<1>5. OrderInv'
  <2>1. Comes'
    BY <1>1, ComesStep DEF OrderInv
  <2> QED
    BY <1>3, <1>4, <2>1 DEF OrderInv, Ordered
<1>6. TypeOK'
  BY <1>2 DEF TypeOK, TxOK, DelayOK
<1>7. OwedInv'
  BY <1>2 DEF DelayOK
<1> QED
  BY <1>3, <1>5, <1>6, <1>7 DEF PacedInv

LEMMA PacedInit == Init => PacedInv
<1> SUFFICES ASSUME Init PROVE PacedInv
  OBVIOUS
<1>1. /\ txQueue = <<>> /\ data = Nothing /\ put = 0 /\ tx = "loop"
      /\ delayQueue = <<>> /\ held = Nobody /\ coming = Nobody /\ left = {} /\ _timeLine = <<>> /\ elapsed = 0
      /\ spareTurns = 0 /\ mode = FirstReorder /\ _allowJitterReorder = FirstReorder /\ calls = 0
  BY DEF Init, TxInit, DelayInit
<1>2. TxTypeOK
  <2>1. _interval \in Intervals /\ 0 \in 0..MaxUnits /\ 0 >= -MaxLag
    BY PeriodicAssumption DEF Init, TxInit, PeriodicAssumption
  <2>2. /\ _intervalUpdated = FALSE /\ pulsed = FALSE /\ woken = FALSE /\ isPeriodic = FALSE
        /\ idleUnitTemplate_ = FALSE /\ untilSend = 0 /\ setter = "idle" /\ spareSlots = 0
    BY DEF Init, TxInit
  <2>3. txQueue \in Seq(TxUnits)
    BY <1>1
  <2>4. /\ _intervalUpdated \in BOOLEAN /\ pulsed \in BOOLEAN /\ woken \in BOOLEAN
        /\ isPeriodic \in BOOLEAN /\ idleUnitTemplate_ \in BOOLEAN
    BY <2>2
  <2>5. /\ untilSend \in Int /\ untilSend >= -MaxLag /\ setter \in {"idle", "flag", "pulse"}
        /\ spareSlots \in Int /\ put \in 0..MaxUnits /\ data \in TxUnits \cup {Nothing}
        /\ tx \in {"loop", "slot", "getq", "waiting", "sleep"}
    BY <1>1, <2>1, <2>2
  <2> QED
    BY <2>1, <2>3, <2>4, <2>5 DEF TxTypeOK
<1>3. DelayTypeOK
  <2>1. FirstReorder \in BOOLEAN /\ FirstDelay \in Delays /\ HighWater \in Nat
    BY DelayAssumption DEF DelayAssumption
  <2>2. _delaySeconds = FirstDelay
    BY DEF Init, DelayInit
  <2> QED
    BY <1>1, <2>1, <2>2 DEF DelayTypeOK
<1>4. calls \in 0..MaxCalls
  BY <1>1, PacedAssumption DEF PacedAssumption
<1>5. OrderInv
  <2>1. TxHas(0)
    <3>1. ~Carries /\ DOMAIN txQueue = {} /\ Len(txQueue) = 0
      BY <1>1 DEF Carries
    <3>2. put = 0 /\ Len(txQueue) = 0
      BY <1>1, <3>1
    <3>3. put - Len(txQueue) = 0
      BY <3>2
    <3> QED
      BY <3>1, <3>3 DEF TxHas
  <2>2. Ids(delayQueue) = {} /\ HeldId = {}
    BY <1>1 DEF Ids, HeldId
  <2>3. Past = {}
    BY <1>1, <2>2, PastIs
  <2>4. Past = 1..0
    BY <2>3
  <2> QED
    BY <1>1, <2>1, <2>4 DEF OrderInv, Comes
<1>6. OwedInv
  <2>1. MaxTime \in Nat
    BY TimeLineAssumption DEF TimeLineAssumption
  <2> QED
    BY <1>1, <2>1 DEF OwedInv, LineInv
<1>7. TurnInv
  <2>1. ~WaitsBy /\ ~ComesBy
    BY <1>1 DEF WaitsBy, ComesBy, ByDeadlines
  <2>2. DOMAIN delayQueue = {}
    BY <1>1
  <2>3. spareTurns >= 0
    BY <1>1
  <2> QED
    BY <2>1, <2>2, <2>3 DEF TurnInv
<1> QED
  BY <1>2, <1>3, <1>4, <1>5, <1>6, <1>7 DEF PacedInv, TypeOK

LEMMA PacedHolds == Spec => []PacedInv
BY PacedInit, PacedStep, PTL DEF Spec

-----------------------------------------------------------------------------
(* What the invariant says.                                                *)

LEMMA InOrder == PacedInv => UnitsInOrder
<1> SUFFICES ASSUME PacedInv PROVE PassedInOrder
  BY DEF UnitsInOrder, PacedInv
<1>1. TxOK /\ OrderInv
  BY PacedParts
<1>2. PICK g \in Nat : TxHas(g) /\ Past = 1..g
  BY <1>1 DEF OrderInv
<1>3. PICK n \in Nat : /\ n = Len(txQueue) /\ DOMAIN txQueue = 1..n /\ put \in Nat
                       /\ txQueue \in Seq(TxUnits) /\ (Carries => data \in TxUnits)
  BY <1>1, QueueNumbers, TxParts DEF QueueOK
<1>4. /\ put - Len(InTransmitter) = g
      /\ \A i \in DOMAIN InTransmitter : InTransmitter[i].id = g + i
  <2>1. CASE Carries
    <3>1. InTransmitter = <<data>> \o txQueue
      BY <2>1 DEF InTransmitter
    <3>2. /\ Len(<<data>> \o txQueue) = n + 1 /\ DOMAIN (<<data>> \o txQueue) = 1..(n + 1)
          /\ (<<data>> \o txQueue)[1] = data
          /\ \A i \in 2..(n + 1) : (<<data>> \o txQueue)[i] = txQueue[i - 1]
      <4>1. <<data>> \in Seq(TxUnits) /\ Len(<<data>>) = 1 /\ <<data>>[1] = data
        BY <1>3, <2>1
      <4>2. /\ <<data>> \o txQueue \in Seq(TxUnits) /\ Len(<<data>> \o txQueue) = Len(<<data>>) + Len(txQueue)
            /\ \A i \in 1..(Len(<<data>>) + Len(txQueue)) :
                 (<<data>> \o txQueue)[i] = IF i <= Len(<<data>>) THEN <<data>>[i]
                                            ELSE txQueue[i - Len(<<data>>)]
        BY <1>3, <4>1, Joined
      <4>3. Len(<<data>> \o txQueue) = n + 1 /\ DOMAIN (<<data>> \o txQueue) = 1..(n + 1)
        BY <1>3, <4>1, <4>2
      <4>4. \A i \in 1..(n + 1) :
                 (<<data>> \o txQueue)[i] = IF i <= 1 THEN data ELSE txQueue[i - 1]
        BY <1>3, <4>1, <4>2
      <4> QED
        BY <4>3, <4>4
    <3>3. put - n = g + 1 /\ data.id = g + 1 /\ \A i \in 1..n : txQueue[i].id = (put - n) + i
      BY <1>2, <1>3, <2>1 DEF TxHas
    <3>4. ASSUME NEW i \in 1..(n + 1) PROVE (<<data>> \o txQueue)[i].id = g + i
      <4>1. CASE i = 1
        BY <3>2, <3>3, <4>1
      <4>2. CASE i # 1
        <5>1. i \in 2..(n + 1) /\ i - 1 \in 1..n
          BY <4>2
        <5>2. (<<data>> \o txQueue)[i] = txQueue[i - 1] /\ txQueue[i - 1].id = (put - n) + (i - 1)
          BY <3>2, <3>3, <5>1
        <5> QED
          BY <1>3, <3>3, <5>1, <5>2
      <4> QED
        BY <4>1, <4>2
    <3>5. put - Len(<<data>> \o txQueue) = g
      BY <1>3, <3>2, <3>3
    <3> QED
      BY <3>1, <3>2, <3>4, <3>5
  <2>2. CASE ~Carries
    <3>1. InTransmitter = <<>> \o txQueue
      BY <2>2 DEF InTransmitter
    <3>2. <<>> \o txQueue = txQueue
      BY <1>3
    <3>3. put - Len(txQueue) = g
      BY <1>2, <2>2 DEF TxHas
    <3>4. \A i \in DOMAIN txQueue : txQueue[i].id = g + i
      BY <1>2, <3>3 DEF TxHas
    <3> QED
      BY <3>1, <3>2, <3>3, <3>4
  <2> QED
    BY <2>1, <2>2
<1>5. Past = left \cup (ToSet(Passing) \ {0}) \cup (IF held = Nobody THEN {} ELSE {held.id} \ {0})
  BY DEF Past
<1> QED
  BY <1>2, <1>4, <1>5 DEF PassedInOrder

\* For all intervals, delays and numbers of units, and whatever wakes either thread: the
\* transmitter passes each unit on once and in order (PeriodicTransmitter::svc()).
THEOREM UnitsStayInOrder == Spec => []UnitsInOrder
BY PacedHolds, InOrder, PTL

\* For any changes of the order of the queue and of the delays, at any moment between what
\* putData() reads and what it queues: each time reordering is switched off, at most one unit more
\* is queued by its deadline, and at most one is taken before an earlier one
\* (modEmulateDelay::putData(), getData_()).
THEOREM OneTurnEach == Spec => []OneOutOfTurn
<1>1. PacedInv => OneOutOfTurn
  BY DEF PacedInv, TurnInv, OneOutOfTurn
<1> QED
  BY PacedHolds, <1>1, PTL

\* For all time lines, cycles, delays and jitter: a unit is kept for the delay in force when it
\* came (modEmulateDelay::putData(), TimeLine::append(), TimeLine::get()).
THEOREM KeptForItsDelay == Spec => NoneEarly
<1>1. PacedInv => (Send => held.owed = 0)
  <2> SUFFICES ASSUME PacedInv, Send PROVE held.owed = 0
    OBVIOUS
  <2>1. held \in DelayUnits /\ Owes(held) /\ held.due <= 0
    BY DEF PacedInv, TypeOK, DelayTypeOK, OwedInv, Send
  <2>2. held.owed \in Nat /\ held.due \in Int
    BY <2>1, UnitTypes
  <2> QED
    BY <2>1, <2>2 DEF Owes
<1>2. PacedInv /\ [Next]_vars => [Send => held.owed = 0]_vars
  BY <1>1
<1> QED
  BY PacedHolds, <1>2, PTL DEF Spec, NoneEarly
=============================================================================
