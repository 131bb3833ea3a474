---------------------------- MODULE TimersProofs ----------------------------
(***************************************************************************)
(* Proofs about timers and their results, for every number of timers and   *)
(* threads and every sequence of changes of the limit and the zero time.   *)
(***************************************************************************)
EXTENDS Timers, FiniteSetTheorems, SequenceTheorems, TLAPS

Pushed == {t \in Timers : stage[t] = "pushed"}
Over   == {"pushed", "erasing", "finished"}

\* A result is where its timer has got to: none before it is pushed, and one place for each.
InvFate ==
    /\ IsInjective(results)
    /\ Range(results) \cap dropped = {} /\ Range(results) \cap fetched = {} /\ dropped \cap fetched = {}
    /\ \A t \in Range(results) \cup dropped \cup fetched : stage[t] \in Over

InvPeak == EffectiveLimit(limit) <= peak

TimersInv == TypeOK /\ InvFate /\ InvPeak /\ DueAsMeant /\ RunIsErased /\ ResultsBounded

-----------------------------------------------------------------------------
(* Sequences without repetition.                                           *)

LEMMA PushedFinite == IsFiniteSet(Pushed) /\ Cardinality(Pushed) \in Nat
<1>1. IsFiniteSet(Timers)
  BY TimersAssumption, FS_Interval DEF TimersAssumption, Timers
<1>2. Pushed \in SUBSET Timers
  BY DEF Pushed
<1> QED
  BY <1>1, <1>2, FS_Subset, FS_CardinalityType

\* There are no more results in the list than timers.
LEMMA NoMoreThanTimers ==
    ASSUME NEW s \in Seq(Timers), IsInjective(s)
    PROVE  Len(s) <= MaxTimers
<1> SUFFICES ASSUME Len(s) > MaxTimers PROVE FALSE
  BY TimersAssumption
<1>1. Len(s) \in Nat /\ MaxTimers \in Nat /\ s \in [1..Len(s) -> Timers]
  BY TimersAssumption
<1>2. /\ IsFiniteSet(1..Len(s)) /\ Cardinality(1..Len(s)) = Len(s)
      /\ IsFiniteSet(Timers) /\ Cardinality(Timers) = MaxTimers
  <2>1. ASSUME NEW n \in Nat PROVE IsFiniteSet(1..n) /\ Cardinality(1..n) = n
    <3>1. IsFiniteSet(1..n) /\ Cardinality(1..n) = IF 1 > n THEN 0 ELSE n - 1 + 1
      BY ONLY n \in Nat, FS_Interval
    <3> QED
      BY <3>1
  <2> QED
    BY <1>1, <2>1 DEF Timers
<1> DEFINE D == 1..Len(s)
<1>a. IsFiniteSet(D) /\ IsFiniteSet(Timers) /\ Cardinality(Timers) < Cardinality(D) /\ s \in [D -> Timers]
  BY <1>1, <1>2
<1> HIDE DEF D
<1>b. \E x, y \in D : x # y /\ s[x] = s[y]
  BY <1>a, FS_PigeonHole
<1>3. PICK x, y \in 1..Len(s) : x # y /\ s[x] = s[y]
  BY <1>b DEF D
<1> QED
  BY <1>1, <1>3 DEF IsInjective

LEMMA RemoveAtKeeps ==
    ASSUME NEW s \in Seq(Timers), IsInjective(s), NEW i \in 1..Len(s)
    PROVE  /\ RemoveAt(s, i) \in Seq(Timers) /\ Len(RemoveAt(s, i)) = Len(s) - 1
           /\ IsInjective(RemoveAt(s, i))
           /\ Range(RemoveAt(s, i)) = Range(s) \ {s[i]}
<1> DEFINE r == RemoveAt(s, i)
<1>0. Len(s) \in Nat /\ i \in Nat
  OBVIOUS
<1> DEFINE left == SubSeq(s, 1, i - 1)
           right == SubSeq(s, i + 1, Len(s))
<1>a. /\ left \in Seq(Timers) /\ Len(left) = i - 1
      /\ \A j \in 1..(i - 1) : left[j] = s[j]
  <2>1. 1 \in Int /\ i - 1 \in Int /\ \A j \in 1..(i - 1) : s[j] \in Timers
    BY <1>0
  <2>2. /\ left \in Seq(Timers) /\ Len(left) = IF 1 <= i - 1 THEN (i - 1) - 1 + 1 ELSE 0
        /\ \A j \in 1..((i - 1) - 1 + 1) : left[j] = s[1 + j - 1]
    BY ONLY <2>1, SubSeqProperties
  <2> QED
    BY <1>0, <2>2
<1>b. /\ right \in Seq(Timers) /\ Len(right) = Len(s) - i
      /\ \A j \in 1..(Len(s) - i) : right[j] = s[i + j]
  <2>1. i + 1 \in Int /\ Len(s) \in Int /\ \A j \in (i + 1)..Len(s) : s[j] \in Timers
    BY <1>0
  <2>2. /\ right \in Seq(Timers)
        /\ Len(right) = IF i + 1 <= Len(s) THEN Len(s) - (i + 1) + 1 ELSE 0
        /\ \A j \in 1..(Len(s) - (i + 1) + 1) : right[j] = s[(i + 1) + j - 1]
    BY ONLY <2>1, SubSeqProperties
  <2> QED
    BY <1>0, <2>2
<1>c. r = left \o right
  BY DEF RemoveAt
<1> HIDE DEF left, right, r
<1>d. /\ r \in Seq(Timers) /\ Len(r) = Len(left) + Len(right)
      /\ \A j \in 1..Len(left) + Len(right) :
            r[j] = IF j <= Len(left) THEN left[j] ELSE right[j - Len(left)]
  BY <1>a, <1>b, <1>c, ConcatProperties
<1>1. r \in Seq(Timers) /\ Len(r) = Len(s) - 1
  BY <1>0, <1>a, <1>b, <1>d
<1>2. \A j \in 1..Len(r) : r[j] = IF j < i THEN s[j] ELSE s[j + 1]
  BY <1>0, <1>a, <1>b, <1>d
<1>3. DOMAIN r = 1..Len(r) /\ DOMAIN s = 1..Len(s)
  BY <1>1
<1>4. IsInjective(r)
  <2> SUFFICES ASSUME NEW a \in 1..Len(r), NEW b \in 1..Len(r), r[a] = r[b] PROVE a = b
    BY <1>3 DEF IsInjective
  <2> DEFINE f(j) == IF j < i THEN j ELSE j + 1
  <2>1. /\ f(a) \in 1..Len(s) /\ f(b) \in 1..Len(s)
        /\ r[a] = s[f(a)] /\ r[b] = s[f(b)]
    BY <1>0, <1>1, <1>2
  <2>2. f(a) = f(b)
    BY <1>3, <2>1 DEF IsInjective
  <2> QED
    BY <1>0, <2>2
<1>5. ASSUME NEW t PROVE t \in Range(r) <=> t \in Range(s) /\ t # s[i]
  <2>1. ASSUME NEW j \in 1..Len(r) PROVE r[j] \in Range(s) /\ r[j] # s[i]
    <3> DEFINE k == IF j < i THEN j ELSE j + 1
    <3>1. k \in 1..Len(s) /\ k # i /\ r[j] = s[k]
      BY <1>0, <1>1, <1>2
    <3> HIDE DEF k
    <3> QED
      BY <1>3, <3>1 DEF IsInjective, Range
  <2>2. ASSUME NEW k \in 1..Len(s), s[k] # s[i] PROVE s[k] \in Range(r)
    <3> DEFINE j == IF k < i THEN k ELSE k - 1
    <3>1. j \in 1..Len(r) /\ r[j] = s[k]
      BY <1>0, <1>1, <1>2, <2>2
    <3> HIDE DEF j
    <3> QED
      BY <1>3, <3>1 DEF Range
  <2> QED
    BY <1>3, <2>1, <2>2 DEF Range
<1> QED
  BY <1>1, <1>4, <1>5 DEF r

LEMMA AppendKeeps ==
    ASSUME NEW s \in Seq(Timers), IsInjective(s), NEW t \in Timers, t \notin Range(s)
    PROVE  /\ Append(s, t) \in Seq(Timers) /\ Len(Append(s, t)) = Len(s) + 1
           /\ IsInjective(Append(s, t))
           /\ Range(Append(s, t)) = Range(s) \cup {t}
<1> DEFINE r == Append(s, t)
<1>1. /\ r \in Seq(Timers) /\ Len(r) = Len(s) + 1 /\ Len(s) \in Nat
      /\ \A i \in 1..Len(s) : r[i] = s[i]
      /\ r[Len(s) + 1] = t
  BY AppendProperties
<1> HIDE DEF r
<1>2. DOMAIN r = 1..Len(s) + 1 /\ DOMAIN s = 1..Len(s)
  BY <1>1
<1>3. \A i \in 1..Len(s) : s[i] # t
  BY <1>2 DEF Range
<1>4. IsInjective(r)
  <2> SUFFICES ASSUME NEW a \in 1..Len(s) + 1, NEW b \in 1..Len(s) + 1, r[a] = r[b] PROVE a = b
    BY <1>2 DEF IsInjective
  <2>1. a \in 1..Len(s) \/ a = Len(s) + 1
    BY <1>1
  <2>2. b \in 1..Len(s) \/ b = Len(s) + 1
    BY <1>1
  <2> QED
    BY <1>1, <1>2, <1>3, <2>1, <2>2 DEF IsInjective
<1>5. Range(r) = Range(s) \cup {t}
  <2>1. \A i \in 1..Len(s) + 1 : i \in 1..Len(s) \/ i = Len(s) + 1
    BY <1>1
  <2>2. ASSUME NEW i \in 1..Len(s) + 1 PROVE r[i] \in Range(s) \cup {t}
    BY <1>1, <1>2, <2>1 DEF Range
  <2>3. ASSUME NEW i \in 1..Len(s) PROVE s[i] \in Range(r)
    <3>1. i \in 1..Len(s) + 1 /\ r[i] = s[i]
      BY <1>1
    <3> QED
      BY <1>2, <3>1 DEF Range
  <2>4. t \in Range(r)
    <3>1. Len(s) + 1 \in 1..Len(s) + 1
      BY <1>1
    <3> QED
      BY <1>1, <1>2, <3>1 DEF Range
  <2> QED
    BY <1>2, <2>2, <2>3, <2>4 DEF Range
<1> QED
  BY <1>1, <1>4, <1>5 DEF r

LEMMA TailKeeps ==
    ASSUME NEW s \in Seq(Timers), IsInjective(s), Len(s) > 0
    PROVE  /\ Tail(s) \in Seq(Timers) /\ Len(Tail(s)) = Len(s) - 1
           /\ IsInjective(Tail(s))
           /\ Head(s) \in Timers /\ Range(Tail(s)) = Range(s) \ {Head(s)} /\ Head(s) \in Range(s)
<1> DEFINE r == Tail(s)
<1>1. /\ r \in Seq(Timers) /\ Len(r) = Len(s) - 1 /\ Len(s) \in Nat \ {0}
      /\ \A i \in 1..Len(r) : r[i] = s[i + 1]
      /\ Head(s) \in Timers /\ Head(s) = s[1]
  BY HeadTailProperties
<1> HIDE DEF r
<1>2. DOMAIN r = 1..Len(r) /\ DOMAIN s = 1..Len(s) /\ 1 \in 1..Len(s)
  BY <1>1
<1>3. \A i \in 1..Len(r) : i + 1 \in 1..Len(s) /\ i + 1 # 1
  BY <1>1
<1>4. IsInjective(r)
  <2> SUFFICES ASSUME NEW a \in 1..Len(r), NEW b \in 1..Len(r), r[a] = r[b] PROVE a = b
    BY <1>2 DEF IsInjective
  <2>1. s[a + 1] = s[b + 1] /\ a + 1 \in 1..Len(s) /\ b + 1 \in 1..Len(s)
    BY <1>1, <1>3
  <2>2. a + 1 = b + 1
    BY <1>2, <2>1 DEF IsInjective
  <2> QED
    BY <2>2
<1>5. Head(s) \in Range(s)
  BY <1>1, <1>2 DEF Range
<1>6. ASSUME NEW i \in 1..Len(r) PROVE r[i] \in Range(s) /\ r[i] # Head(s)
  BY <1>1, <1>2, <1>3 DEF Range, IsInjective
<1>7. ASSUME NEW k \in 1..Len(s), s[k] # Head(s) PROVE s[k] \in Range(r)
  <2>1. k - 1 \in 1..Len(r) /\ (k - 1) + 1 = k
    BY <1>1, <1>7
  <2>2. r[k - 1] = s[k]
    BY <1>1, <2>1
  <2> QED
    BY <1>2, <2>1, <2>2 DEF Range
<1>8. Range(r) = Range(s) \ {Head(s)}
  BY <1>2, <1>6, <1>7 DEF Range
<1> QED
  BY <1>1, <1>4, <1>5, <1>8 DEF r

-----------------------------------------------------------------------------
(* Alarms: when they are due.                                              *)

\* Seconds from now and the moment that was meant come to the same, except for one type.
LEMMA AlarmIsMeant ==
    ASSUME TypeOK, NEW r \in Requests, calculateAlarmTime(r[1], r[2]) >= 0
    PROVE  /\ r[1] \in TimeTypes /\ r[2] \in Times
           /\ calculateAlarmTime(r[1], r[2]) \in Int /\ Meant(r[1], r[2]) \in Int
           /\ now + calculateAlarmTime(r[1], r[2]) \in 0..2 * MaxTime
           /\ r[1] # "scenario_offset" => now + calculateAlarmTime(r[1], r[2]) = Meant(r[1], r[2])
<1>1. r[1] \in TimeTypes /\ r[2] \in Times
  BY TimersAssumption DEF TimeTypes, Times
<1>2. /\ now \in Nat /\ zeroTime \in Nat /\ scenarioZero \in Nat /\ r[2] \in Nat /\ MaxTime \in Nat
      /\ now <= MaxTime /\ zeroTime <= MaxTime /\ scenarioZero <= MaxTime /\ r[2] <= MaxTime
  BY <1>1, TimersAssumption DEF TypeOK, Times
<1>3. CASE r[1] = "scenario"
  BY <1>1, <1>2, <1>3 DEF calculateAlarmTime, Meant, scenarioNow
<1>4. CASE r[1] = "scenario_offset"
  BY <1>1, <1>2, <1>4 DEF calculateAlarmTime, Meant, scenarioNow
<1>5. CASE r[1] = "wall"
  BY <1>1, <1>2, <1>5 DEF calculateAlarmTime, Meant, scenarioNow
<1>6. CASE r[1] = "wall_offset"
  BY <1>1, <1>2, <1>6 DEF calculateAlarmTime, Meant, scenarioNow
<1> QED
  BY <1>1, <1>3, <1>4, <1>5, <1>6 DEF TimeTypes

LEMMA TypeStep == TypeOK /\ InvFate /\ [Next]_vars => TypeOK'
<1> SUFFICES ASSUME TypeOK, InvFate, [Next]_vars PROVE TypeOK'
  OBVIOUS
<1> USE TimersAssumption DEF TypeOK, scenarioTime, history
<1>1. CASE Tick
  BY <1>1 DEF Tick, Times
<1>2. ASSUME NEW z \in ZeroTimes, SetZeroTime(z[1], z[2]) PROVE TypeOK'
  <2>1. z[1] \in Times /\ z[2] \in Times
    BY DEF Times
  <2>2. settings' \in 0..MaxSettings
    BY <1>2 DEF SetZeroTime
  <2> QED
    BY <1>2, <2>1, <2>2 DEF SetZeroTime
<1>3. ASSUME NEW n \in Limits, SetLimit(n) PROVE TypeOK'
  <2>1. n \in Int /\ EffectiveLimit(n) \in Nat
    BY DEF EffectiveLimit
  <2>2. settings' \in 0..MaxSettings /\ peak' \in Nat /\ limit' \in Limits
    BY <1>3, <2>1 DEF SetLimit
  <2> QED
    BY <1>3, <2>2 DEF SetLimit
<1>4. ASSUME NEW t \in Timers, NEW r \in Requests, SetTimer(t, r[1], r[2]) PROVE TypeOK'
  <2> DEFINE c == calculateAlarmTime(r[1], r[2])
             m == Meant(r[1], r[2])
  <2>1. c >= 0
    BY <1>4 DEF SetTimer
  <2>2. r[1] \in TimeTypes /\ m \in Int /\ now + c \in 0..2 * MaxTime
    BY <2>1, AlarmIsMeant
  <2>3. /\ due' = [due EXCEPT ![t] = now + c]
        /\ asked' = [asked EXCEPT ![t] = [type |-> r[1], at |-> m]]
        /\ stage' = [stage EXCEPT ![t] = "scheduled"] /\ entering' = entering \cup {t}
        /\ UNCHANGED <<scenarioTime, entries, results, completed, limit, dropped, fetched,
                       early, peak, settings>>
    BY <1>4 DEF SetTimer
  <2> HIDE DEF c, m
  <2>4. due' \in [Timers -> 0..2 * MaxTime] /\ stage' \in [Timers -> Stages]
    BY <2>2, <2>3 DEF Stages
  <2>5. asked' \in [Timers -> [type : TimeTypes, at : Int]]
    BY <2>2, <2>3
  <2> QED
    BY <2>3, <2>4, <2>5
<1>5. ASSUME NEW t \in Timers, AddTimer(t) PROVE TypeOK'
  BY <1>5 DEF AddTimer
<1>6. ASSUME NEW t \in Timers, Expire(t) PROVE TypeOK'
  <2>1. NotAsked \in [type : TimeTypes, at : Int]
    BY DEF NotAsked, TimeTypes
  <2>2. stage' \in [Timers -> Stages] /\ due' \in [Timers -> 0..2 * MaxTime]
    BY <1>6 DEF Expire, Stages
  <2>3. asked' \in [Timers -> [type : TimeTypes, at : Int]]
    BY <1>6, <2>1 DEF Expire
  <2> QED
    BY <1>6, <2>2, <2>3 DEF Expire
<1>7. ASSUME NEW t \in Timers, Call(t) PROVE TypeOK'
  <2>1. stage' \in [Timers -> Stages] /\ completed' \in [Timers -> Times]
    BY <1>7 DEF Call, Stages
  <2> QED
    BY <1>7, <2>1 DEF Call
<1>8. ASSUME NEW t \in Timers, Push(t) PROVE TypeOK'
  <2>1. stage' \in [Timers -> Stages] /\ results' \in Seq(Timers)
    BY <1>8, AppendProperties DEF Push, Stages
  <2> QED
    BY <1>8, <2>1 DEF Push
<1>9. ASSUME NEW t \in Timers, Trim(t) PROVE TypeOK'
  <2>1. stage' \in [Timers -> Stages]
    BY <1>9 DEF Trim, Stages
  <2>2. TooMany => Len(results) > 0
    BY DEF TooMany
  <2>3. results' \in Seq(Timers) /\ dropped' \subseteq Timers
    BY <1>9, <2>2, TailKeeps DEF Trim, InvFate
  <2> QED
    BY <1>9, <2>1, <2>3 DEF Trim
<1>10. ASSUME NEW t \in Timers, ClearTimer(t) PROVE TypeOK'
  BY <1>10 DEF ClearTimer, Stages
<1>11. ASSUME NEW t \in Timers, Yank(t) PROVE TypeOK'
  <2>1. results' \in Seq(Timers) /\ fetched' = fetched \cup {t}
    BY <1>11, RemoveAtKeeps DEF Yank, InvFate
  <2> QED
    BY <1>11, <2>1 DEF Yank
<1>12. CASE UNCHANGED vars
  BY <1>12 DEF vars
<1> QED
  BY <1>1, <1>2, <1>3, <1>4, <1>5, <1>6, <1>7, <1>8, <1>9, <1>10, <1>11, <1>12 DEF Next, Thread

LEMMA DueStep == TypeOK /\ DueAsMeant /\ [Next]_vars => DueAsMeant'
<1> SUFFICES ASSUME TypeOK, DueAsMeant, [Next]_vars PROVE DueAsMeant'
  OBVIOUS
<1> USE DEF TypeOK, DueAsMeant, scenarioTime, history
<1>1. CASE UNCHANGED <<stage, due, asked>>
  BY <1>1
<1>2. ASSUME NEW t \in Timers, NEW r \in Requests, SetTimer(t, r[1], r[2]) PROVE DueAsMeant'
  <2> DEFINE c == calculateAlarmTime(r[1], r[2])
             m == Meant(r[1], r[2])
  <2>1. c >= 0
    BY <1>2 DEF SetTimer
  <2>2. r[1] # "scenario_offset" => now + c = m
    BY <2>1, AlarmIsMeant
  <2>3. /\ due' = [due EXCEPT ![t] = now + c]
        /\ asked' = [asked EXCEPT ![t] = [type |-> r[1], at |-> m]]
        /\ stage' = [stage EXCEPT ![t] = "scheduled"]
    BY <1>2 DEF SetTimer
  <2> HIDE DEF c, m
  <2> QED
    BY <2>2, <2>3
<1>3. ASSUME NEW t \in Timers, Expire(t) PROVE DueAsMeant'
  BY <1>3 DEF Expire
<1>4. ASSUME NEW t \in Timers, Call(t) \/ Push(t) \/ Trim(t) \/ ClearTimer(t) PROVE DueAsMeant'
  BY <1>4 DEF Call, Push, Trim, ClearTimer
<1>5. ASSUME NEW t \in Timers, AddTimer(t) \/ Yank(t) PROVE UNCHANGED <<stage, due, asked>>
  BY <1>5 DEF AddTimer, Yank
<1>6. ASSUME NEW z \in ZeroTimes, SetZeroTime(z[1], z[2]) PROVE UNCHANGED <<stage, due, asked>>
  BY <1>6 DEF SetZeroTime
<1>7. ASSUME NEW n \in Limits, SetLimit(n) PROVE UNCHANGED <<stage, due, asked>>
  BY <1>7 DEF SetLimit
<1>8. CASE Tick \/ UNCHANGED vars
  BY <1>1, <1>8 DEF Tick, vars
<1> QED
  BY <1>1, <1>2, <1>3, <1>4, <1>5, <1>6, <1>7, <1>8 DEF Next, Thread

-----------------------------------------------------------------------------
(* Results: one fate each, and how many wait.                              *)

LEMMA FateStep == TypeOK /\ InvFate /\ [Next]_vars => InvFate'
<1> SUFFICES ASSUME TypeOK, InvFate, [Next]_vars PROVE InvFate'
  OBVIOUS
<1> USE DEF TypeOK, scenarioTime, history
<1>1. CASE UNCHANGED <<stage, results, dropped, fetched>>
  BY <1>1 DEF InvFate, Range, IsInjective
<1>2. ASSUME NEW t \in Timers, UNCHANGED <<results, dropped, fetched>>,
             stage[t] \notin Over \/ stage'[t] \in Over,
             \A u \in Timers \ {t} : stage'[u] = stage[u]
      PROVE  InvFate'
  <2>1. Range(results) \subseteq Timers
    BY DEF Range
  <2>2. \A u \in Range(results) \cup dropped \cup fetched : stage'[u] \in Over
    BY <1>2, <2>1 DEF InvFate
  <2> QED
    BY <1>2, <2>2 DEF InvFate, Range, IsInjective, Over
<1>3. ASSUME NEW t \in Timers, Push(t) PROVE InvFate'
  <2>1. t \notin Range(results) \cup dropped \cup fetched
    BY <1>3 DEF Push, InvFate, Over
  <2>2. IsInjective(results') /\ Range(results') = Range(results) \cup {t}
    BY <1>3, <2>1, AppendKeeps DEF Push, InvFate
  <2>3. UNCHANGED <<dropped, fetched>> /\ stage' = [stage EXCEPT ![t] = "pushed"]
    BY <1>3 DEF Push
  <2>4. Range(results) \subseteq Timers
    BY DEF Range
  <2>5. \A u \in Range(results') \cup dropped \cup fetched : stage'[u] \in Over
    BY <2>2, <2>3, <2>4 DEF InvFate, Over
  <2> QED
    BY <2>1, <2>2, <2>3, <2>5 DEF InvFate, Over
<1>4. ASSUME NEW t \in Timers, Trim(t) PROVE InvFate'
  <2>1. stage' = [stage EXCEPT ![t] = "erasing"] /\ UNCHANGED fetched
    BY <1>4 DEF Trim
  <2>2. Range(results) \subseteq Timers
    BY DEF Range
  <2>3. \A u \in Range(results) \cup dropped \cup fetched : stage'[u] \in Over
    BY <2>1, <2>2 DEF InvFate, Over
  <2>4. CASE ~TooMany
    <3>1. UNCHANGED <<results, dropped>>
      BY <1>4, <2>4 DEF Trim
    <3> QED
      BY <2>1, <2>3, <3>1 DEF InvFate, Range, IsInjective, Over
  <2>5. CASE TooMany
    <3>1. Len(results) > 0
      BY <2>5, TimersAssumption DEF TooMany
    <3>2. /\ results' = Tail(results) /\ dropped' = dropped \cup {Head(results)}
      BY <1>4, <2>5 DEF Trim
    <3>3. /\ IsInjective(results') /\ Range(results') = Range(results) \ {Head(results)}
          /\ Head(results) \in Range(results)
      BY <3>1, <3>2, TailKeeps DEF InvFate
    <3> QED
      BY <2>1, <2>3, <3>2, <3>3 DEF InvFate, Over
  <2> QED
    BY <2>4, <2>5
<1>5. ASSUME NEW t \in Timers, Yank(t) PROVE InvFate'
  <2>1. PICK i \in DOMAIN results : results[i] = t /\ results' = RemoveAt(results, i)
    BY <1>5 DEF Yank
  <2>2. IsInjective(results') /\ Range(results') = Range(results) \ {t}
    BY <2>1, RemoveAtKeeps DEF InvFate
  <2>3. fetched' = fetched \cup {t} /\ UNCHANGED <<stage, dropped>>
    BY <1>5 DEF Yank
  <2>4. t \in Range(results)
    BY <2>1 DEF Range
  <2> QED
    BY <2>2, <2>3, <2>4 DEF InvFate, Over
<1>6. ASSUME NEW t \in Timers, Expire(t) \/ Call(t) \/ ClearTimer(t) PROVE InvFate'
  BY <1>2, <1>6 DEF Expire, Call, ClearTimer, Over
<1>7. ASSUME NEW t \in Timers, AddTimer(t) PROVE InvFate'
  BY <1>1, <1>7 DEF AddTimer
<1>8. ASSUME NEW t \in Timers, NEW r \in Requests, SetTimer(t, r[1], r[2]) PROVE InvFate'
  BY <1>2, <1>8 DEF SetTimer, Over
<1>9. ASSUME NEW z \in ZeroTimes, SetZeroTime(z[1], z[2]) PROVE InvFate'
  BY <1>1, <1>9 DEF SetZeroTime
<1>10. ASSUME NEW n \in Limits, SetLimit(n) PROVE InvFate'
  BY <1>1, <1>10 DEF SetLimit
<1>11. CASE Tick \/ UNCHANGED vars
  BY <1>1, <1>11 DEF Tick, vars
<1> QED
  BY <1>3, <1>4, <1>5, <1>6, <1>7, <1>8, <1>9, <1>10, <1>11 DEF Next, Thread

LEMMA PeakStep == TypeOK /\ InvPeak /\ [Next]_vars => InvPeak' /\ peak' >= peak
<1> SUFFICES ASSUME TypeOK, InvPeak, [Next]_vars PROVE InvPeak' /\ peak' >= peak
  OBVIOUS
<1> USE DEF scenarioTime, history
<1>0. peak \in Nat
  BY DEF TypeOK
<1>1. CASE UNCHANGED <<limit, peak>>
  BY <1>0, <1>1 DEF InvPeak, EffectiveLimit
<1>2. ASSUME NEW n \in Limits, SetLimit(n) PROVE InvPeak' /\ peak' >= peak
  <2>1. EffectiveLimit(n) \in Nat /\ limit' = n
        /\ peak' = IF EffectiveLimit(n) > peak THEN EffectiveLimit(n) ELSE peak
    BY <1>2, TimersAssumption DEF SetLimit, EffectiveLimit
  <2>2. peak' >= EffectiveLimit(n) /\ peak' >= peak
    BY <1>0, <2>1
  <2> QED
    BY <2>1, <2>2 DEF InvPeak, EffectiveLimit
<1>3. CASE ~ \E n \in Limits : SetLimit(n)
  <2>1. UNCHANGED <<limit, peak>>
    BY <1>3 DEF Next, Thread, vars, Tick, SetZeroTime, SetTimer, AddTimer, Expire, Call, Push,
                Trim, ClearTimer, Yank
  <2> QED
    BY <1>1, <2>1
<1> QED
  BY <1>2, <1>3

LEMMA ErasedStep == TypeOK /\ RunIsErased /\ [Next]_vars => RunIsErased'
<1> SUFFICES ASSUME TypeOK, RunIsErased, [Next]_vars PROVE RunIsErased'
  OBVIOUS
<1> USE DEF TypeOK, RunIsErased, scenarioTime, history
<1>1. CASE UNCHANGED <<stage, entries, early>>
  BY <1>1
<1>2. ASSUME NEW t \in Timers, AddTimer(t) PROVE RunIsErased'
  BY <1>2 DEF AddTimer
<1>3. ASSUME NEW t \in Timers, Expire(t) \/ Call(t) \/ Push(t) \/ Trim(t) PROVE RunIsErased'
  BY <1>3 DEF Expire, Call, Push, Trim
<1>4. ASSUME NEW t \in Timers, ClearTimer(t) PROVE RunIsErased'
  BY <1>4 DEF ClearTimer
<1>5. ASSUME NEW t \in Timers, NEW r \in Requests, SetTimer(t, r[1], r[2]) PROVE RunIsErased'
  BY <1>5 DEF SetTimer
<1>6. ASSUME NEW t \in Timers, Yank(t) PROVE RunIsErased'
  BY <1>1, <1>6 DEF Yank
<1>7. ASSUME NEW z \in ZeroTimes, SetZeroTime(z[1], z[2]) PROVE RunIsErased'
  BY <1>1, <1>7 DEF SetZeroTime
<1>8. ASSUME NEW n \in Limits, SetLimit(n) PROVE RunIsErased'
  BY <1>1, <1>8 DEF SetLimit
<1>9. CASE Tick \/ UNCHANGED vars
  BY <1>1, <1>9 DEF Tick, vars
<1> QED
  BY <1>2, <1>3, <1>4, <1>5, <1>6, <1>7, <1>8, <1>9 DEF Next, Thread

LEMMA BoundStep == TypeOK /\ InvFate /\ InvPeak /\ ResultsBounded /\ [Next]_vars => ResultsBounded'
<1> SUFFICES ASSUME TypeOK, InvFate, InvPeak, ResultsBounded, [Next]_vars PROVE ResultsBounded'
  OBVIOUS
<1>0. peak \in Nat /\ peak' \in Nat /\ peak' >= peak /\ Len(results) \in Nat /\ results \in Seq(Timers)
      /\ IsInjective(results) /\ stage \in [Timers -> Stages]
  BY PeakStep, TypeStep DEF TypeOK, InvFate
<1>1. IsFiniteSet(Pushed) /\ Cardinality(Pushed) \in Nat
  BY PushedFinite
<1>2. Len(results) <= peak + Cardinality(Pushed)
  BY DEF ResultsBounded, Pushed
<1>a. Pushed' = {t \in Timers : stage'[t] = "pushed"}
  BY DEF Pushed
<1>b. SUFFICES Len(results') <= peak' + Cardinality(Pushed')
  BY <1>a DEF ResultsBounded
<1> USE DEF scenarioTime, history
<1>3. ASSUME Pushed' = Pushed, Len(results') \in Nat, Len(results') <= Len(results)
      PROVE  Len(results') <= peak' + Cardinality(Pushed')
  BY <1>0, <1>1, <1>2, <1>3
<1>4. ASSUME NEW t \in Timers, Push(t) PROVE Len(results') <= peak' + Cardinality(Pushed')
  <2>1. Pushed' = Pushed \cup {t} /\ t \notin Pushed
    BY <1>0, <1>4, <1>a DEF Push, Pushed
  <2>2. Cardinality(Pushed \cup {t}) = Cardinality(Pushed) + 1
    BY <1>1, <2>1, FS_AddElement
  <2>3. Len(results') = Len(results) + 1
    BY <1>0, <1>4, AppendProperties DEF Push
  <2> QED
    BY <1>0, <1>1, <1>2, <2>1, <2>2, <2>3
<1>5. ASSUME NEW t \in Timers, Trim(t) PROVE Len(results') <= peak' + Cardinality(Pushed')
  <2>1. Pushed' = Pushed \ {t} /\ t \in Pushed
    BY <1>0, <1>5, <1>a DEF Trim, Pushed
  <2>2. Cardinality(Pushed \ {t}) = Cardinality(Pushed) - 1 /\ Cardinality(Pushed \ {t}) \in Nat
    BY <1>1, <2>1, FS_RemoveElement, FS_Subset, FS_CardinalityType
  <2>3. limit \in Int
    BY TimersAssumption DEF TypeOK
  <2>4. CASE TooMany
    <3>1. Len(results) > 0
      BY <1>0, <2>3, <2>4 DEF TooMany
    <3>2. Len(results') = Len(results) - 1
      BY <1>0, <1>5, <2>4, <3>1, TailKeeps DEF Trim
    <3> QED
      BY <1>0, <1>1, <1>2, <2>1, <2>2, <3>2
  <2>5. CASE ~TooMany
    <3>1. results' = results
      BY <1>5, <2>5 DEF Trim
    <3>2. Len(results) <= MaxTimers
      BY <1>0, NoMoreThanTimers
    <3>3. Len(results) <= EffectiveLimit(limit)
      BY <1>0, <2>3, <2>5, <3>2 DEF TooMany, EffectiveLimit
    <3>4. EffectiveLimit(limit) \in Int
      BY <2>3, TimersAssumption DEF EffectiveLimit
    <3>5. Len(results) <= peak
      BY <1>0, <3>3, <3>4 DEF InvPeak
    <3> QED
      BY <1>0, <2>1, <2>2, <3>1, <3>5
  <2> QED
    BY <2>4, <2>5
<1>6. ASSUME NEW t \in Timers, Yank(t) PROVE Len(results') <= peak' + Cardinality(Pushed')
  <2>1. Len(results') = Len(results) - 1 /\ Len(results') \in Nat
    <3>1. PICK i \in DOMAIN results : results' = RemoveAt(results, i)
      BY <1>6 DEF Yank
    <3>2. i \in 1..Len(results)
      BY <1>0
    <3> QED
      BY <1>0, <3>1, <3>2, RemoveAtKeeps
  <2>2. Pushed' = Pushed
    BY <1>6, <1>a DEF Yank, Pushed
  <2> QED
    BY <1>0, <1>3, <2>1, <2>2
<1>7. CASE UNCHANGED <<stage, results>>
  BY <1>0, <1>3, <1>7, <1>a DEF Pushed
<1>8. ASSUME NEW t \in Timers, Expire(t) \/ Call(t) \/ ClearTimer(t)
      PROVE  Len(results') <= peak' + Cardinality(Pushed')
  <2>1. results' = results /\ Pushed' = Pushed
    BY <1>0, <1>8, <1>a DEF Expire, Call, ClearTimer, Pushed
  <2> QED
    BY <1>0, <1>3, <2>1
<1>9. ASSUME NEW t \in Timers, NEW r \in Requests, SetTimer(t, r[1], r[2])
      PROVE  Len(results') <= peak' + Cardinality(Pushed')
  <2>1. results' = results /\ Pushed' = Pushed
    BY <1>0, <1>9, <1>a DEF SetTimer, Pushed
  <2> QED
    BY <1>0, <1>3, <2>1
<1>10. ASSUME NEW t \in Timers, AddTimer(t) PROVE UNCHANGED <<stage, results>>
  BY <1>10 DEF AddTimer
<1>11. ASSUME NEW z \in ZeroTimes, SetZeroTime(z[1], z[2]) PROVE UNCHANGED <<stage, results>>
  BY <1>11 DEF SetZeroTime
<1>12. ASSUME NEW n \in Limits, SetLimit(n) PROVE UNCHANGED <<stage, results>>
  BY <1>12 DEF SetLimit
<1>13. CASE Tick \/ UNCHANGED vars
  BY <1>7, <1>13 DEF Tick, vars
<1> QED
  BY <1>4, <1>5, <1>6, <1>7, <1>8, <1>9, <1>10, <1>11, <1>12, <1>13 DEF Next, Thread

-----------------------------------------------------------------------------
LEMMA TimersInit == Init => TimersInv
<1> SUFFICES ASSUME Init PROVE TimersInv
  OBVIOUS
<1> USE TimersAssumption DEF Init
<1>1. EffectiveLimit(limit) \in Nat /\ peak = EffectiveLimit(limit)
  BY DEF EffectiveLimit
<1>2. TypeOK
  <2>1. NotAsked \in [type : TimeTypes, at : Int]
    BY DEF NotAsked, TimeTypes
  <2> QED
    BY <1>1, <2>1 DEF TypeOK, Times, Stages
<1>3. Range(results) = {} /\ IsInjective(results) /\ Len(results) = 0
  BY DEF Range, IsInjective
<1>4. ResultsBounded
  BY <1>1, <1>3, PushedFinite DEF ResultsBounded, Pushed
<1> QED
  BY <1>1, <1>2, <1>3, <1>4 DEF TimersInv, InvFate, InvPeak, DueAsMeant, RunIsErased

LEMMA TimersInvariant == Spec => []TimersInv
<1>1. TimersInv /\ [Next]_vars => TimersInv'
  BY TypeStep, FateStep, PeakStep, DueStep, ErasedStep, BoundStep DEF TimersInv
<1> QED
  BY <1>1, TimersInit, PTL DEF Spec

\* Whatever is done to the scenario's time, an alarm that waits is due at the moment its
\* user meant when it was set, except for a time relative to the zero time
\* (Time_Handler.cpp:77-109).
THEOREM AlarmsDueAsMeant == Spec => []DueAsMeant
<1>1. TimersInv => DueAsMeant
  BY DEF TimersInv
<1> QED
  BY <1>1, TimersInvariant, PTL

\* However threads interleave and the limit changes, the list of results stays within the
\* highest limit and the threads between their critical sections, a result waits, was
\* trimmed or was fetched, once, and a timer that has run is not in the map unless it had
\* run before it was entered (DelayedResults.cpp:60-88, Timer_Interface.cpp:103-104).
THEOREM RecordsKept == Spec => []TimersKept
<1>1. TimersInv => TimersKept
  BY DEF TimersInv, TimersKept, InvFate, OneFate
<1> QED
  BY <1>1, TimersInvariant, PTL
=============================================================================
