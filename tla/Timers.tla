------------------------------- MODULE Timers -------------------------------
(***************************************************************************)
(* Calls made with a timer: time.setTimer computes when, in the time the   *)
(* scenario keeps, schedules an alarm in the reactor and enters it in the  *)
(* server's map; a reactor thread makes the call when the alarm is due,    *)
(* adds its result to a list, trims the list and takes the entry out; the  *)
(* client fetches the result by the name of its timer.  Any reactor thread *)
(* runs any of these.                                                      *)
(***************************************************************************)
EXTENDS Integers, Sequences, FiniteSets, SequencesExt

CONSTANTS
    MaxTimers,  \* bound: timers set
    Threads,    \* how many threads run the reactor's event loop
    Limits,     \* values of the setting Server.resultRetentionLimit
    Requests,   \* what users ask for: how a time is written, and the time
    ZeroTimes,  \* what time.setZeroTime is given: the clock's and the scenario's time
    MaxTime,    \* bound: the clock, in seconds
    MaxSettings \* bound: changes of the zero time and of the limit

ASSUME TimersAssumption ==
    /\ MaxTimers \in Nat
    /\ Threads \in Nat \ {0}
    /\ Limits \subseteq Int /\ Limits # {}
    /\ Requests \subseteq {"scenario", "wall", "scenario_offset", "wall_offset"} \X (0..MaxTime)
    /\ ZeroTimes \subseteq (0..MaxTime) \X (0..MaxTime)
    /\ MaxTime \in Nat /\ MaxSettings \in Nat

Times == 0..MaxTime

\* newTimerId(): names that are never used again.
Timers == 1..MaxTimers

\* How a user writes a time: @, =, T and +.
TimeTypes == {"scenario", "wall", "scenario_offset", "wall_offset"}

VARIABLES
    now,            \* the clock
    zeroTime, scenarioZero, \* _zeroTime and _scenarioWallclockAtZeroTime
    stage,          \* where each timer is
    due,            \* when the reactor expires it
    entering,       \* timers whose addTimer() is still to come
    entries,        \* _timers
    results,        \* _delayed_results, oldest entry first
    completed,      \* time_completed of each result
    limit,          \* the setting
    dropped,        \* ghost: results trimmed
    fetched,        \* ghost: results a client has got
    early,          \* ghost: timers whose entry came when they had been erased
    asked,          \* ghost: how and for which moment each was asked for
    peak,           \* ghost: the highest limit there has been
    settings

scenarioTime == <<now, zeroTime, scenarioZero>>
history == <<dropped, fetched, early, asked, peak>>
vars == <<scenarioTime, stage, due, entering, entries, results, completed,
          limit, history, settings>>

\* unset -> scheduled -> calling -> (called -> pushed ->) erasing -> finished
Stages == {"unset", "scheduled", "calling", "called", "pushed", "erasing", "finished"}

\* A limit that is not positive limits nothing: there are as many results as timers.
EffectiveLimit(n) == IF n > 0 THEN n ELSE MaxTimers

\* The types of the server's records of timers.
TypeOK ==
    /\ now \in Times /\ zeroTime \in Times /\ scenarioZero \in Times
    /\ stage \in [Timers -> Stages]
    /\ due \in [Timers -> 0..2 * MaxTime]
    /\ entering \subseteq Timers /\ entries \subseteq Timers
    /\ results \in Seq(Timers)
    /\ completed \in [Timers -> Times]
    /\ limit \in Limits
    /\ dropped \subseteq Timers /\ fetched \subseteq Timers /\ early \subseteq Timers
    /\ asked \in [Timers -> [type : TimeTypes, at : Int]]
    /\ peak \in Nat
    /\ settings \in 0..MaxSettings

NotAsked == [type |-> "wall", at |-> 0]

Init ==
    /\ now = 0
    /\ zeroTime = 0 /\ scenarioZero = 0
    /\ stage = [t \in Timers |-> "unset"]
    /\ due = [t \in Timers |-> 0]
    /\ entering = {} /\ entries = {}
    /\ results = <<>>
    /\ completed = [t \in Timers |-> 0]
    /\ limit \in Limits
    /\ dropped = {} /\ fetched = {} /\ early = {}
    /\ asked = [t \in Timers |-> NotAsked]
    /\ peak = EffectiveLimit(limit)
    /\ settings = 0

-----------------------------------------------------------------------------
(* The scenario's time.                                                    *)

scenarioNow == scenarioZero + (now - zeroTime)

\* Mutant: the scenario's time is taken for the clock's.
AlarmByClock(type, time) ==
    CASE type \in {"scenario", "wall"} -> time - now
      [] type = "scenario_offset"      -> time - scenarioZero
      [] type = "wall_offset"          -> time

\* calculateAlarmTime(): seconds from now.
calculateAlarmTime(type, time) ==
    CASE type = "scenario"        -> time - scenarioNow
      [] type = "scenario_offset" -> time - scenarioZero
      [] type = "wall"            -> time - now
      [] type = "wall_offset"     -> time

\* The moment, on the clock, that a user's time means (Time_Handler.hpp:36-43).
Meant(type, time) ==
    CASE type = "scenario"        -> zeroTime + (time - scenarioZero)
      [] type = "scenario_offset" -> zeroTime + time
      [] type = "wall"            -> time
      [] type = "wall_offset"     -> now + time

Tick ==
    /\ now < MaxTime
    /\ now' = now + 1
    /\ UNCHANGED <<zeroTime, scenarioZero, stage, due, entering, entries, results,
                   completed, limit, history, settings>>

\* time.setZeroTime.  Alarms already set stay where they are.
SetZeroTime(z, s) ==
    /\ settings < MaxSettings
    /\ settings' = settings + 1
    /\ zeroTime' = z /\ scenarioZero' = s
    /\ UNCHANGED <<now, stage, due, entering, entries, results, completed, limit, history>>

\* settings.set of Server.resultRetentionLimit.
SetLimit(n) ==
    /\ settings < MaxSettings
    /\ n # limit
    /\ settings' = settings + 1
    /\ limit' = n
    /\ peak' = IF EffectiveLimit(n) > peak THEN EffectiveLimit(n) ELSE peak
    /\ UNCHANGED <<scenarioTime, stage, due, entering, entries, results, completed,
                   dropped, fetched, early, asked>>

-----------------------------------------------------------------------------
(* Reactor threads.                                                        *)

Running == {t \in Timers : stage[t] \in {"calling", "called", "pushed", "erasing"}}
Idle == Cardinality(Running) + Cardinality(entering) < Threads

\* set_timer() as far as schedule_timer(): a time in the past is an exception
\* and nothing is set.
SetTimer(t, type, time) ==
    /\ Idle
    /\ stage[t] = "unset" /\ \A s \in 1..t - 1 : stage[s] # "unset"
    /\ calculateAlarmTime(type, time) >= 0
    /\ stage' = [stage EXCEPT ![t] = "scheduled"]
    /\ due' = [due EXCEPT ![t] = now + calculateAlarmTime(type, time)]
    /\ asked' = [asked EXCEPT ![t] = [type |-> type, at |-> Meant(type, time)]]
    /\ entering' = entering \cup {t}
    /\ UNCHANGED <<scenarioTime, entries, results, completed, limit, dropped, fetched,
                   early, peak, settings>>

\* addTimer() and the return of the name to the client.
AddTimer(t) ==
    /\ t \in entering
    /\ entering' = entering \ {t}
    /\ entries' = entries \cup {t}
    /\ early' = IF stage[t] = "finished" THEN early \cup {t} ELSE early
    /\ UNCHANGED <<scenarioTime, stage, due, results, completed, limit, dropped,
                   fetched, asked, peak, settings>>

\* The reactor hands an alarm that is due to a thread that waits.
Expire(t) ==
    /\ Idle
    /\ stage[t] = "scheduled"
    /\ due[t] <= now
    /\ stage' = [stage EXCEPT ![t] = "calling"]
    /\ due' = [due EXCEPT ![t] = 0]
    /\ asked' = [asked EXCEPT ![t] = NotAsked]
    /\ UNCHANGED <<scenarioTime, entering, entries, results, completed, limit,
                   dropped, fetched, early, peak, settings>>

\* Mutant: the reactor keeps an alarm whose call failed.
CallAgain(t) ==
    /\ stage[t] = "calling"
    /\ \/ /\ stage' = [stage EXCEPT ![t] = "called"]
          /\ completed' = [completed EXCEPT ![t] = now]
       \/ /\ stage' = [stage EXCEPT ![t] = "scheduled"]
          /\ UNCHANGED completed
    /\ UNCHANGED <<scenarioTime, due, entering, entries, results, limit, history, settings>>

\* handle_timeout(): the call ends, with a result stamped by the clock or with
\* a fault, which is logged.
Call(t) ==
    /\ stage[t] = "calling"
    /\ \/ /\ stage' = [stage EXCEPT ![t] = "called"]
          /\ completed' = [completed EXCEPT ![t] = now]
       \/ /\ stage' = [stage EXCEPT ![t] = "erasing"]
          /\ UNCHANGED completed
    /\ UNCHANGED <<scenarioTime, due, entering, entries, results, limit, history, settings>>

\* Mutant: the result is stored under its time, not its timer's name.
PushStamped(t) ==
    /\ stage[t] = "called"
    /\ stage' = [stage EXCEPT ![t] = "pushed"]
    /\ results' = Append(results, completed[t])
    /\ UNCHANGED <<scenarioTime, due, entering, entries, completed, limit, history, settings>>

\* add_delayed_result(), the first critical section.
Push(t) ==
    /\ stage[t] = "called"
    /\ stage' = [stage EXCEPT ![t] = "pushed"]
    /\ results' = Append(results, t)
    /\ UNCHANGED <<scenarioTime, due, entering, entries, completed, limit, history, settings>>

\* Mutant: the list may reach twice the limit first.
TooManyLate == limit > 0 /\ Len(results) > 2 * limit

\* More results than the limit, if it limits.
TooMany == limit > 0 /\ Len(results) > limit

\* _trim(), the second: one result at most.
Trim(t) ==
    /\ stage[t] = "pushed"
    /\ stage' = [stage EXCEPT ![t] = "erasing"]
    /\ results' = IF TooMany THEN Tail(results) ELSE results
    /\ dropped' = IF TooMany THEN dropped \cup {Head(results)} ELSE dropped
    /\ UNCHANGED <<scenarioTime, due, entering, entries, completed, limit, fetched,
                   early, asked, peak, settings>>

\* Mutant: an entry is only cancelled, not erased.
ClearNothing(t) ==
    /\ stage[t] = "erasing"
    /\ stage' = [stage EXCEPT ![t] = "finished"]
    /\ UNCHANGED <<scenarioTime, due, entering, entries, results, completed, limit,
                   history, settings>>

\* clearTimer() with erase_only: a timer that has no entry is left at that.
ClearTimer(t) ==
    /\ stage[t] = "erasing"
    /\ stage' = [stage EXCEPT ![t] = "finished"]
    /\ entries' = entries \ {t}
    /\ UNCHANGED <<scenarioTime, due, entering, results, completed, limit, history, settings>>

\* Mutant: the result stays in the list.
YankCopy(t) ==
    /\ t \notin entering /\ t \in Range(results)
    /\ fetched' = fetched \cup {t}
    /\ UNCHANGED <<scenarioTime, stage, due, entering, entries, results, completed, limit,
                   dropped, early, asked, peak, settings>>

\* time.getResult with the name the client was given: the result leaves the
\* list.  A name without a result is an exception and changes nothing.
Yank(t) ==
    /\ t \notin entering
    /\ \E i \in DOMAIN results : results[i] = t /\ results' = RemoveAt(results, i)
    /\ fetched' = fetched \cup {t}
    /\ UNCHANGED <<scenarioTime, stage, due, entering, entries, completed, limit,
                   dropped, early, asked, peak, settings>>

Thread(t) == AddTimer(t) \/ Expire(t) \/ Call(t) \/ Push(t) \/ Trim(t) \/ ClearTimer(t)

Next ==
    \/ Tick
    \/ \E z \in ZeroTimes : SetZeroTime(z[1], z[2])
    \/ \E n \in Limits : SetLimit(n)
    \/ \E t \in Timers :
          \/ \E r \in Requests : SetTimer(t, r[1], r[2])
          \/ Yank(t)
          \/ Thread(t)

\* The clock goes on, and each of the reactor's threads does.
Fairness == WF_vars(Tick) /\ \A t \in Timers : WF_vars(Thread(t))

Spec == Init /\ [][Next]_vars /\ Fairness

-----------------------------------------------------------------------------
\* An alarm is due at the moment its user meant, however the scenario's time was
\* set by then (Time_Handler.cpp:77-109).
DueAsMeant ==
    \A t \in Timers :
        stage[t] = "scheduled" /\ asked[t].type # "scenario_offset" => due[t] = asked[t].at

\* Time_Handler.hpp:40: "T means relative to zero time".
OffsetAsMeant ==
    \A t \in Timers :
        stage[t] = "scheduled" /\ asked[t].type = "scenario_offset" => due[t] = asked[t].at

\* The list of results passes the highest limit there has been by no more than
\* the threads between their two critical sections (DelayedResults.cpp:60-65).
ResultsBounded ==
    Len(results) <= peak + Cardinality({t \in Timers : stage[t] = "pushed"})

\* A result waits in the list once, or was trimmed, or was fetched, and never
\* two of these: what a client has got is not there for it again, and makes no
\* room twice (DelayedResults.cpp:68-88).
OneFate ==
    LET waiting == Range(results)
    IN  /\ IsInjective(results)
        /\ waiting \cap dropped = {} /\ waiting \cap fetched = {} /\ dropped \cap fetched = {}

\* A timer that has run is not in the map of timers, unless it had run before it
\* was entered (Timer_Interface.cpp:103-104).
RunIsErased == \A t \in entries : stage[t] = "finished" => t \in early

\* What the server keeps of timers and results is kept right: within the limit, each
\* result with one fate, and no timer that is over.
TimersKept == TypeOK /\ ResultsBounded /\ OneFate /\ RunIsErased

\* Every timer that was set runs and is entered.
EveryTimerRuns ==
    \A t \in Timers :
        stage[t] = "scheduled" /\ due[t] <= MaxTime ~> stage[t] = "finished" /\ t \notin entering

\* DelayedResults.cpp:23: _trim() is to "erase the oldest result".
DropsOldest ==
    \A d \in dropped, r \in Range(results) : completed[d] <= completed[r]

\* XML_RPC_Server.hpp:72-76: clearTimer() removes a timer that has expired.
NoneStays == \A t \in entries : stage[t] # "finished"
=============================================================================
