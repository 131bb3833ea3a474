------------------------------ MODULE BaseTask ------------------------------
(***************************************************************************)
(* The life cycle of one service task (modules/lib/BaseTask.cpp): every    *)
(* traffic handler owns a message queue and at most one service thread,    *)
(* and is opened, paused and shut down by controllers, the reactor threads *)
(* that execute XML-RPC calls.  The flags shutdown_, svcDone_ and          *)
(* svcThreadID_ are plain members: no lock orders the accesses, so every   *)
(* read or write of one of them is a step of its own here.                 *)
(***************************************************************************)
EXTENDS Naturals, FiniteSets

CONSTANTS
    Controllers,   \* threads that call open() and stopTraffic()
    MaxOps,        \* bound: calls made in a behaviour
    MayOutlast     \* whether a service thread may still be busy after the
                   \* second that stopTraffic() polls for

ASSUME BaseTaskAssumption ==
    /\ MaxOps \in Nat \ {0}
    /\ MayOutlast \in BOOLEAN

VARIABLES
    shutdown,      \* shutdown_
    svcDone,       \* svcDone_
    svcThreadID,   \* svcThreadID_: the activation that last ran svcStart_(), 0 for none
    queueOpen,     \* ~ msg_queue()->deactivated()
    thr,           \* where the service thread is, "none" when thr_count() is 0
    activations,   \* service threads spawned so far: the number of the current one
    exitRequested, \* the process-wide exit_requested
    pc,            \* what each controller is doing
    full,          \* the argument of each controller's stopTraffic(): TRUE for shutdown
    ops,           \* calls made so far
    clean,         \* history: no open() has overlapped the controller's stopTraffic()
    quiet          \* history: such a call has closed the queue and returned, and no
                   \* open() has begun since

flags   == <<shutdown, svcDone, svcThreadID, queueOpen>>
service == <<thr, activations, exitRequested>>
control == <<pc, full, ops, clean, quiet>>
taskVars == <<flags, service, control>>

OpenLabels == {"open_check", "open_flag", "open_queue", "open_activate"}
StopLabels == {"stop_check", "stop_wait", "stop_flag", "stop_close", "stop_id",
               "stop_poll", "stop_join", "stop_done"}
InService  == {"started", "loop", "get", "work", "ending"}
ThreadLabels == InService \cup {"none", "spawned", "exiting"}

\* The range of every variable; the flags are those of BaseTask.hpp.
TaskTypeOK ==
    /\ shutdown \in BOOLEAN
    /\ svcDone \in BOOLEAN
    /\ svcThreadID \in 0..activations
    /\ queueOpen \in BOOLEAN
    /\ thr \in ThreadLabels
    /\ activations \in Nat
    /\ exitRequested \in BOOLEAN
    /\ pc \in [Controllers -> {"idle"} \cup OpenLabels \cup StopLabels]
    /\ full \in [Controllers -> BOOLEAN]
    /\ ops \in 0..MaxOps
    /\ clean \in [Controllers -> BOOLEAN]
    /\ quiet \in BOOLEAN

\* Mutant: the constructor leaves svcThreadID_ uninitialized.
InitGarbageID ==
    /\ shutdown = TRUE
    /\ svcDone = TRUE
    /\ svcThreadID = 7
    /\ queueOpen = TRUE
    /\ thr = "none"
    /\ activations = 0
    /\ exitRequested = FALSE
    /\ pc = [c \in Controllers |-> "idle"]
    /\ full = [c \in Controllers |-> FALSE]
    /\ ops = 0
    /\ clean = [c \in Controllers |-> FALSE]
    /\ quiet = FALSE

\* A constructed task: shut down, not serving, its queue as ACE creates it.
TaskInit ==
    /\ shutdown = TRUE
    /\ svcDone = TRUE
    /\ svcThreadID = 0
    /\ queueOpen = TRUE
    /\ thr = "none"
    /\ activations = 0
    /\ exitRequested = FALSE
    /\ pc = [c \in Controllers |-> "idle"]
    /\ full = [c \in Controllers |-> FALSE]
    /\ ops = 0
    /\ clean = [c \in Controllers |-> FALSE]
    /\ quiet = FALSE

Goto(c, label) == pc' = [pc EXCEPT ![c] = label]

-----------------------------------------------------------------------------
(* open(): refused while a service runs, else reset, reopen and activate.  *)

OpenCall(c) ==
    /\ pc[c] = "idle" /\ ops < MaxOps
    /\ Goto(c, "open_check")
    /\ ops' = ops + 1
    /\ clean' = [d \in Controllers |-> FALSE]
    /\ quiet' = FALSE
    /\ UNCHANGED <<flags, service, full>>

OpenCheck(c) ==
    /\ pc[c] = "open_check"
    /\ Goto(c, IF svcDone THEN "open_flag" ELSE "idle")
    /\ UNCHANGED <<flags, service, full, ops, clean, quiet>>

OpenFlag(c) ==
    /\ pc[c] = "open_flag"
    /\ shutdown' = FALSE
    /\ Goto(c, "open_queue")
    /\ UNCHANGED <<svcDone, svcThreadID, queueOpen, service, full, ops, clean, quiet>>

OpenQueue(c) ==
    /\ pc[c] = "open_queue"
    /\ queueOpen' = TRUE
    /\ Goto(c, "open_activate")
    /\ UNCHANGED <<shutdown, svcDone, svcThreadID, service, full, ops, clean, quiet>>

\* ACE_Task_Base::activate() spawns only when the task has no thread left.
Spawn ==
    IF thr = "none"
    THEN /\ thr' = "spawned"
         /\ activations' = activations + 1
    ELSE UNCHANGED <<thr, activations>>

OpenActivate(c) ==
    /\ pc[c] = "open_activate"
    /\ Spawn
    /\ Goto(c, "idle")
    /\ UNCHANGED <<flags, exitRequested, full, ops, clean, quiet>>

-----------------------------------------------------------------------------
(* stopTraffic(shutdown).                                                  *)

StopCall(c) ==
    /\ pc[c] = "idle" /\ ops < MaxOps
    /\ \E sd \in BOOLEAN : full' = [full EXCEPT ![c] = sd]
    /\ Goto(c, "stop_check")
    /\ clean' = [clean EXCEPT ![c] = \A d \in Controllers : pc[d] \notin OpenLabels]
    /\ ops' = ops + 1
    /\ UNCHANGED <<flags, service, quiet>>

\* Somebody else is shutting the task down already: only wait for svcDone_.
StopCheck(c) ==
    /\ pc[c] = "stop_check"
    /\ Goto(c, IF shutdown THEN "stop_wait" ELSE "stop_flag")
    /\ UNCHANGED <<flags, service, full, ops, clean, quiet>>

StopWait(c) ==
    /\ pc[c] = "stop_wait"
    /\ svcDone
    /\ Goto(c, "idle")
    /\ UNCHANGED <<flags, service, full, ops, clean, quiet>>

StopFlag(c) ==
    /\ pc[c] = "stop_flag"
    /\ shutdown' = (shutdown \/ full[c])
    /\ Goto(c, "stop_close")
    /\ UNCHANGED <<svcDone, svcThreadID, queueOpen, service, full, ops, clean, quiet>>

\* Mutant: the queue is not closed, so a blocked thread is never woken.
StopCloseNothing(c) ==
    /\ pc[c] = "stop_close"
    /\ Goto(c, "stop_id")
    /\ UNCHANGED <<flags, service, full, ops, clean, quiet>>

StopClose(c) ==
    /\ pc[c] = "stop_close"
    /\ queueOpen' = FALSE
    /\ Goto(c, "stop_id")
    /\ UNCHANGED <<shutdown, svcDone, svcThreadID, service, full, ops, clean, quiet>>

StopID(c) ==
    /\ pc[c] = "stop_id"
    /\ Goto(c, IF svcThreadID # 0 THEN "stop_poll" ELSE "stop_done")
    /\ UNCHANGED <<flags, service, full, ops, clean, quiet>>

\* Ten polls of 100 ms: the thread ends meanwhile, or is cancelled.  ACE's
\* cancel() marks the thread and no service loop tests the mark.
StopPoll(c) ==
    /\ pc[c] = "stop_poll"
    /\ \/ svcDone /\ Goto(c, "stop_join")
       \/ ~svcDone /\ MayOutlast /\ Goto(c, "stop_done")
    /\ UNCHANGED <<flags, service, full, ops, clean, quiet>>

\* join() of svcThreadID_ as it is now: returns at once for a thread that is gone.
StopJoin(c) ==
    /\ pc[c] = "stop_join"
    /\ svcThreadID = activations => thr = "none"
    /\ Goto(c, "stop_done")
    /\ UNCHANGED <<flags, service, full, ops, clean, quiet>>

StopDone(c) ==
    /\ pc[c] = "stop_done"
    /\ svcDone' = TRUE
    /\ Goto(c, "idle")
    /\ quiet' = (quiet \/ clean[c])
    /\ UNCHANGED <<shutdown, svcThreadID, queueOpen, service, full, ops, clean>>

-----------------------------------------------------------------------------
(* The service thread: svcStart_(), the loop of svc(), svcEnd_().          *)

StartID ==
    /\ thr = "spawned"
    /\ svcThreadID' = activations
    /\ thr' = "started"
    /\ UNCHANGED <<shutdown, svcDone, queueOpen, activations, exitRequested, control>>

StartFlag ==
    /\ thr = "started"
    /\ svcDone' = FALSE
    /\ thr' = "loop"
    /\ UNCHANGED <<shutdown, svcThreadID, queueOpen, activations, exitRequested, control>>

continueService == ~shutdown /\ ~svcDone /\ ~exitRequested

LoopTest ==
    /\ thr = "loop"
    /\ thr' = IF continueService THEN "get" ELSE "ending"
    /\ UNCHANGED <<flags, activations, exitRequested, control>>

\* getData_() hands over a unit that some upstream handler has queued.
Take ==
    /\ thr = "get" /\ queueOpen
    /\ thr' = "work"
    /\ UNCHANGED <<flags, activations, exitRequested, control>>

\* getData_() returns from a deactivated queue: the loop breaks.
GetFails ==
    /\ thr = "get" /\ ~queueOpen
    /\ thr' = "ending"
    /\ UNCHANGED <<flags, activations, exitRequested, control>>

WorkDone ==
    /\ thr = "work"
    /\ thr' = "loop"
    /\ UNCHANGED <<flags, activations, exitRequested, control>>

\* Mutant: the thread exits without reporting it.
EndSilently ==
    /\ thr = "ending"
    /\ thr' = "exiting"
    /\ UNCHANGED <<flags, activations, exitRequested, control>>

EndFlag ==
    /\ thr = "ending"
    /\ svcDone' = TRUE
    /\ thr' = "exiting"
    /\ UNCHANGED <<shutdown, svcThreadID, queueOpen, activations, exitRequested, control>>

ThreadExit ==
    /\ thr = "exiting"
    /\ thr' = "none"
    /\ UNCHANGED <<flags, activations, exitRequested, control>>

\* The exit handler of main.cpp raises exit_requested once.
RequestExit ==
    /\ ~exitRequested
    /\ exitRequested' = TRUE
    /\ UNCHANGED <<flags, thr, activations, control>>

-----------------------------------------------------------------------------
OpenStep(c) == OpenCheck(c) \/ OpenFlag(c) \/ OpenQueue(c) \/ OpenActivate(c)
StopStep(c) == \/ StopCheck(c) \/ StopWait(c) \/ StopFlag(c) \/ StopClose(c)
               \/ StopID(c) \/ StopPoll(c) \/ StopJoin(c) \/ StopDone(c)
ThreadStep  == \/ StartID \/ StartFlag \/ LoopTest \/ GetFails \/ WorkDone
               \/ EndFlag \/ ThreadExit

TaskNext ==
    \/ \E c \in Controllers : OpenCall(c) \/ StopCall(c) \/ OpenStep(c) \/ StopStep(c)
    \/ ThreadStep
    \/ Take
    \/ RequestExit

TaskSpec == TaskInit /\ [][TaskNext]_taskVars

\* Every thread of the process is scheduled; nobody promises traffic (Take),
\* another call or an exit request.
TaskFairSpec ==
    /\ TaskSpec
    /\ \A c \in Controllers : WF_taskVars(OpenStep(c)) /\ WF_taskVars(StopStep(c))
    /\ WF_taskVars(ThreadStep)

-----------------------------------------------------------------------------
\* svcDone_ is FALSE only while a thread is there to raise it again: open()
\* (BaseTask.cpp:117) is refused, and stopTraffic() (:47) waits, only for a
\* service that is really running.
DoneUnlessServing == ~svcDone => thr \in InService \ {"started"}

\* Between the return of a stopTraffic() that closed the queue and the next
\* open() the service thread dequeues nothing, whatever the other controllers
\* do, and even if the thread outlives the call.
NoTakeWhenQuiet == [][thr = "get" /\ thr' = "work" => ~quiet]_taskVars

\* A returned stop is not undone by a thread that was activated late: the
\* thread leaves by itself unless the task is opened again.
QuietLeaves == quiet ~> (thr = "none" \/ ~quiet)

\* Where no other controller has called, every call of open() and stopTraffic()
\* returns: the polling loop, the busy wait and the join are all released by the
\* thread, however long it outlasts the polls.
Alone(c) == \A d \in Controllers \ {c} : pc[d] = "idle"
CallsReturn == \A c \in Controllers :
    []Alone(c) => (pc[c] # "idle" ~> pc[c] = "idle")

\* BaseTask.hpp:59: "Shut down the message queue and wait for processing to
\* stop": no service thread outlives the stop.
StopWaitsForService == quiet => thr \notin InService

Opened == /\ ~shutdown /\ queueOpen /\ ~exitRequested
          /\ \A c \in Controllers : pc[c] = "idle"

\* BaseTask.hpp:53: open() "activates the object": a task left open by its
\* controllers is eventually served.
OpenServes == Opened ~> (thr = "get" \/ ~Opened)
=============================================================================
