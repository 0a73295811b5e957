------------------------------ MODULE Executor ------------------------------
(***************************************************************************)
(* The A2A server's task execution (lib/a2a/executor.ts): every executor of *)
(* the process shares one TaskLimiter, which caps the tasks in flight,      *)
(* routes cancel requests and drains the process on shutdown; a policy      *)
(* (lib/a2a/policy.ts) admits a task against what earlier tasks recorded.   *)
(*                                                                          *)
(* execute() is cut where it awaits: the policy's read, the turn, the       *)
(* policy's write, the memory ingestion.  Between two awaits it is one      *)
(* step.  The turn is what SyndicateTurn says of it: model calls, then one  *)
(* result or an exception.                                                  *)
(***************************************************************************)
EXTENDS Naturals, FiniteSets

CONSTANTS
    Task,           \* task ids, one execute() each
    MaxConcurrent,  \* TaskLimiter.max
    Limit,          \* the daily budget in tasks; 0 = no policy configured
    HasMemory,      \* the syndicate has long-term memory
    MaxCalls        \* bound on the model calls of one turn

ASSUME ExecutorAssumption ==
    /\ IsFiniteSet(Task)
    /\ MaxConcurrent \in Nat \ {0}
    /\ Limit \in Nat
    /\ HasMemory \in BOOLEAN
    /\ MaxCalls \in Nat

VARIABLES
    pc,        \* where each execute() awaits
    state,     \* the last state published for the task
    closed,    \* tasks whose event bus is finished
    verdict,   \* what the policy read decided, until it is acted on
    running,   \* the limiter's map: tasks holding a slot
    aborted,   \* tasks whose AbortController fired
    drain,     \* the shutdown: "off", "waiting", "done", "exited"
    left,      \* tasks drain() counted as canceled
    usage,     \* where usage is kept: the process's "memory" or a "table"
    calls,     \* model calls made by each turn
    spent,     \* tasks the usage store has counted today
    recorded,  \* model calls the policy recorded for each task
    reports,   \* task-log records written per task
    asked,     \* history: tasks a client asked to cancel while live
    served     \* history: tasks that were given a slot

taskVars == <<pc, state, closed, verdict>>
limiterVars == <<running, aborted, drain, left>>
usageVars == <<usage, calls, spent, recorded>>
historyVars == <<reports, asked, served>>
vars == <<taskVars, limiterVars, usageVars, historyVars>>

\* recording and failing: report() awaits policy.record, with the turn's usage
\* or, in the catch block, with none.
Place == {"new", "reading", "decided", "turn", "recording", "failing",
          "ingesting", "done"}

\* The awaits between acquire() and the finally block.
Holding == {"turn", "recording", "failing", "ingesting"}

Init ==
    /\ pc = [t \in Task |-> "new"]
    /\ state = [t \in Task |-> "none"]
    /\ closed = {}
    /\ verdict = [t \in Task |-> "none"]
    /\ running = {}
    /\ aborted = {}
    /\ drain = "off"
    /\ left = {}
    /\ usage \in {"memory", "table"}
    /\ calls = [t \in Task |-> 0]
    /\ spent = 0
    /\ recorded = [t \in Task |-> 0]
    /\ reports = [t \in Task |-> 0]
    /\ asked = {}
    /\ served = {}

(***************************************************************************)
(* Helpers: the statements the handlers are made of.                        *)
(***************************************************************************)
Goto(t, place) == pc' = [pc EXCEPT ![t] = place]

(* Plausible bug: the task tools' spelling of a status, which A2A does not know. *)
PublishMisspelt(t, s) ==
    state' = [state EXCEPT ![t] = IF s = "canceled" THEN "cancelled" ELSE s]

Publish(t, s) == state' = [state EXCEPT ![t] = s]
Report(t) == reports' = [reports EXCEPT ![t] = @ + 1]

Alive == drain # "exited"

\* Counters in process memory, or no policy: these awaits settle before the
\* event loop takes another event, so no other step comes in between.
Micro ==
    IF Limit = 0 \/ usage = "memory"
    THEN {"reading", "decided", "recording", "failing"}
    ELSE {}

Settled == \A t \in Task : pc[t] \notin Micro

Runs == Alive /\ Settled

(* Plausible bugs: the finally block forgets the slot, or the stream. *)
FinallyKeepsSlot(t) ==
    /\ Goto(t, "done")
    /\ closed' = closed \cup {t}
    /\ UNCHANGED <<running, drain>>

FinallyLeavesOpen(t) ==
    /\ Goto(t, "done")
    /\ running' = running \ {t}
    /\ drain' = IF drain = "waiting" /\ running \ {t} = {} THEN "done" ELSE drain
    /\ UNCHANGED closed

\* limiter.release and eventBus.finished, the finally block.  The last
\* release wakes a drain that waits.
Finally(t) ==
    /\ Goto(t, "done")
    /\ closed' = closed \cup {t}
    /\ running' = running \ {t}
    /\ drain' = IF drain = "waiting" /\ running \ {t} = {} THEN "done" ELSE drain

(* Plausible bug: the drain does not stop admission. *)
CanAcquireWhileDraining == Cardinality(running) < MaxConcurrent

CanAcquire ==
    /\ drain = "off"
    /\ Cardinality(running) < MaxConcurrent

(***************************************************************************)
(* execute()                                                                *)
(***************************************************************************)

\* A message arrives and its task is published.  File parts or no text: the
\* task is rejected.  No authentication context: the catch block fails it.
Refuse(t, s) ==
    /\ Runs
    /\ pc[t] = "new"
    /\ Publish(t, s)
    /\ Report(t)
    /\ Goto(t, "done")
    /\ closed' = closed \cup {t}
    /\ UNCHANGED <<verdict, limiterVars, usageVars, asked, served>>

\* acquire() and what follows it up to the turn's first await.
StartTurn(t) ==
    /\ CanAcquire
    /\ running' = running \cup {t}
    /\ served' = served \cup {t}
    /\ Goto(t, "turn")
    /\ UNCHANGED <<closed, reports>>

(* Plausible bug: a refusal for capacity is not reported. *)
RejectUnreported(t) ==
    /\ Goto(t, "done")
    /\ closed' = closed \cup {t}
    /\ UNCHANGED <<running, reports, served>>

RejectTask(t) ==
    /\ Goto(t, "done")
    /\ closed' = closed \cup {t}
    /\ Report(t)
    /\ UNCHANGED <<running, served>>

\* The message is accepted and the policy, if any, is asked.
Arrive(t) ==
    /\ Runs
    /\ pc[t] = "new"
    /\ Publish(t, "submitted")
    /\ Goto(t, IF Limit = 0 THEN "decided" ELSE "reading")
    /\ verdict' = [verdict EXCEPT ![t] = IF Limit = 0 THEN "admit" ELSE "none"]
    /\ UNCHANGED <<closed, limiterVars, usageVars, historyVars>>

(* Plausible bug: the budget is compared with > instead of >=. *)
ReadUsageOffByOne(t) ==
    /\ Alive
    /\ pc[t] = "reading"
    /\ verdict' = [verdict EXCEPT ![t] = IF spent <= Limit THEN "admit" ELSE "refuse"]
    /\ Goto(t, "decided")
    /\ UNCHANGED <<state, closed, limiterVars, usageVars, historyVars>>

\* policy.admit reads the counters.  A usage table may fail to answer, and
\* a policy that throws refuses.
ReadUsage(t) ==
    /\ Alive
    /\ pc[t] = "reading"
    /\ \E v \in {"admit", "refuse"} :
         /\ v = "admit" => spent < Limit
         /\ v = "refuse" => spent >= Limit \/ usage = "table"
         /\ verdict' = [verdict EXCEPT ![t] = v]
    /\ Goto(t, "decided")
    /\ UNCHANGED <<state, closed, limiterVars, usageVars, historyVars>>

\* The decision reaches execute().
Decide(t) ==
    /\ Alive
    /\ pc[t] = "decided"
    /\ verdict' = [verdict EXCEPT ![t] = "none"]
    /\ \/ /\ verdict[t] = "admit"
          /\ StartTurn(t)
          /\ UNCHANGED state
       \/ /\ verdict[t] = "admit" => ~CanAcquire
          /\ Publish(t, "rejected")
          /\ RejectTask(t)
    /\ UNCHANGED <<aborted, drain, left, usageVars, asked>>

\* A model call the turn was charged for; its progress line is published.
ModelCall(t) ==
    /\ Runs
    /\ pc[t] = "turn"
    /\ calls[t] < MaxCalls
    /\ calls' = [calls EXCEPT ![t] = @ + 1]
    /\ Publish(t, "working")
    /\ UNCHANGED <<pc, closed, verdict, limiterVars, usage, spent, recorded, historyVars>>

\* The turn returned.  A run aborted before its end does not complete.
TurnReturns(t, s) ==
    /\ Runs
    /\ pc[t] = "turn"
    /\ s = "completed" => t \notin aborted
    /\ s = "canceled" => t \in aborted
    /\ Publish(t, s)
    /\ Goto(t, "recording")
    /\ UNCHANGED <<closed, verdict, limiterVars, usageVars, historyVars>>

\* The turn threw (a session store that rejects): the catch block fails the
\* task and reports it with no usage.
TurnThrows(t) ==
    /\ Runs
    /\ pc[t] = "turn"
    /\ Publish(t, "failed")
    /\ Goto(t, "failing")
    /\ UNCHANGED <<closed, verdict, limiterVars, usageVars, historyVars>>

\* report(): the policy records the spend, or fails and is logged; then the
\* task log has its one record.  A completed task goes on to long-term memory.
RecordUsage(t) ==
    /\ Alive
    /\ pc[t] \in {"recording", "failing"}
    /\ \/ /\ Limit > 0
          /\ spent' = spent + 1
          /\ recorded' = [recorded EXCEPT ![t] = IF pc[t] = "recording" THEN calls[t] ELSE 0]
       \/ /\ Limit > 0 => usage = "table"
          /\ UNCHANGED <<spent, recorded>>
    /\ Report(t)
    /\ IF state[t] = "completed" /\ HasMemory
       THEN Goto(t, "ingesting") /\ UNCHANGED <<closed, running, drain>>
       ELSE Finally(t)
    /\ UNCHANGED <<state, verdict, aborted, left, usage, calls, asked, served>>

(* Plausible bug: without the inner try, a failed ingestion reaches the catch
   block, which fails the task it has already completed. *)
IngestionFailsTask(t) ==
    /\ Runs
    /\ pc[t] = "ingesting"
    /\ Publish(t, "failed")
    /\ Finally(t)
    /\ UNCHANGED <<verdict, aborted, left, usageVars, historyVars>>

\* ingestTurnMemory ends; a failure is only a warning.
Ingested(t) ==
    /\ Runs
    /\ pc[t] = "ingesting"
    /\ Finally(t)
    /\ UNCHANGED <<state, verdict, aborted, left, usageVars, historyVars>>

(***************************************************************************)
(* cancelTask, drain and the process's end.                                 *)
(***************************************************************************)

\* A client asks to cancel a task it saw live.  Only a task in the limiter's
\* map has a run to abort.
CancelTask(t) ==
    /\ Runs
    /\ state[t] \in {"submitted", "working"}
    /\ asked' = asked \cup {t}
    /\ aborted' = IF t \in running THEN aborted \cup {t} ELSE aborted
    /\ UNCHANGED <<taskVars, running, drain, left, usageVars, reports, served>>

\* SIGTERM: no more slots; with none taken the drain is over.
StartDrain ==
    /\ Runs
    /\ drain = "off"
    /\ drain' = IF running = {} THEN "done" ELSE "waiting"
    /\ UNCHANGED <<taskVars, running, aborted, left, usageVars, historyVars>>

(* Plausible bug: the drain waits for the last task with no grace timer. *)
NoGrace ==
    /\ Runs
    /\ drain = "waiting"
    /\ running = {}
    /\ drain' = "done"
    /\ UNCHANGED <<taskVars, running, aborted, left, usageVars, historyVars>>

\* The grace period ends first: abort and count whatever is left.
GraceOver ==
    /\ Runs
    /\ drain = "waiting"
    /\ drain' = "done"
    /\ left' = running
    /\ aborted' = aborted \cup running
    /\ UNCHANGED <<taskVars, running, usageVars, historyVars>>

\* stop() exits the process at once, or half a second after aborting the rest.
Exit ==
    /\ Runs
    /\ drain = "done"
    /\ drain' = "exited"
    /\ UNCHANGED <<taskVars, running, aborted, left, usageVars, historyVars>>

Execute(t) ==
    \/ \E s \in {"rejected", "failed"} : Refuse(t, s)
    \/ Arrive(t)
    \/ ReadUsage(t)
    \/ Decide(t)
    \/ ModelCall(t)
    \/ \E s \in {"completed", "failed", "canceled"} : TurnReturns(t, s)
    \/ TurnThrows(t)
    \/ RecordUsage(t)
    \/ Ingested(t)

Next ==
    \/ \E t \in Task : Execute(t) \/ CancelTask(t)
    \/ StartDrain
    \/ GraceOver
    \/ Exit

(***************************************************************************)
(* Fairness.  The event loop runs what is ready; a store answers or fails;  *)
(* the grace timer fires; an aborted turn ends, because its signal reaches  *)
(* the provider call in flight and the next call is refused.  A turn that   *)
(* nobody aborts need not end: A2A_TASK_TIMEOUT_MS may be 0.                *)
(***************************************************************************)
TurnEnds(t) ==
    \/ \E s \in {"completed", "failed", "canceled"} : TurnReturns(t, s)
    \/ TurnThrows(t)

Fairness ==
    /\ \A t \in Task :
         /\ WF_vars(ReadUsage(t))
         /\ WF_vars(Decide(t))
         /\ WF_vars(t \in aborted /\ TurnEnds(t))
         /\ WF_vars(RecordUsage(t))
         /\ WF_vars(Ingested(t))
    /\ WF_vars(GraceOver)

Spec == Init /\ [][Next]_vars

FairSpec == Spec /\ Fairness
-----------------------------------------------------------------------------
(***************************************************************************)
(* Properties.                                                              *)
(***************************************************************************)
TypeOK ==
    /\ pc \in [Task -> Place]
    /\ state \in [Task -> {"none", "submitted", "working",
                            "completed", "failed", "canceled", "rejected"}]
    /\ closed \subseteq Task
    /\ verdict \in [Task -> {"none", "admit", "refuse"}]
    /\ running \subseteq Task
    /\ aborted \subseteq Task
    /\ drain \in {"off", "waiting", "done", "exited"}
    /\ left \subseteq Task
    /\ usage \in {"memory", "table"}
    /\ calls \in [Task -> Nat]
    /\ spent \in Nat
    /\ recorded \in [Task -> Nat]
    /\ reports \in [Task -> Nat]
    /\ asked \subseteq Task
    /\ served \subseteq Task

\* A slot is in the limiter's map exactly while an execute() that acquired it
\* is between acquire and its finally block: none leaks, none is freed early.
SlotsMatchRuns == running = {t \in Task : pc[t] \in Holding}

\* The cap holds over what really runs, the memory ingestion included.
CapHolds == Cardinality({t \in Task : pc[t] \in Holding}) <= MaxConcurrent

\* Both: the slots the limiter counts are the runs there are, and within the cap.
SlotsHold == SlotsMatchRuns /\ CapHolds

\* "One record per task, however it ended", and only for a task that ended.
ReportedOnce ==
    \A t \in Task :
        /\ t \in closed => reports[t] = 1
        /\ state[t] \in {"none", "submitted", "working"} => reports[t] = 0

\* drain(): once it is over with nothing counted, nothing is in flight, and no
\* later task slips in.
DrainLeavesNothing ==
    drain \in {"done", "exited"} => \A t \in Task : pc[t] \in Holding => t \in left

\* policy.ts: tasks already running when the line is crossed finish, so "the
\* overshoot is bounded by the concurrency cap".  It is where the counters are
\* in process memory; a table is read and written across awaits.
OvershootBounded ==
    usage = "memory" /\ Limit > 0 => Cardinality(served) <= Limit - 1 + MaxConcurrent

\* policy.ts: "a failed or canceled turn still spent its model calls", and
\* record counts them whatever the task's state.
SpendRecorded ==
    \A t \in closed \cap served : recorded[t] = calls[t]

\* cancelTask: "Aborts the task's run; `execute` then publishes the `canceled`
\* status": a task its client asked to cancel does not complete.
CancelHonoured == \A t \in asked : state[t] # "completed"

\* The executor is an implementation of the task lifecycle: one final state,
\* published before the stream closes, rejection only before any work.
Lifecycle == INSTANCE TaskLifecycle

ImplementsLifecycle == Lifecycle!Spec

\* A client never waits on a stream for nothing: a task with its final state,
\* and a task whose run was aborted, is closed unless the process is gone first.
EveryTaskCloses ==
    \A t \in Task :
        (state[t] \in {"completed", "failed", "canceled", "rejected"} \/ t \in aborted)
          ~> (t \in closed \/ ~Alive)

\* drain: "resolve when all running ones finish or graceMs passes".  It ends
\* even when a task never does.
DrainEnds == drain = "waiting" ~> drain \in {"done", "exited"}
=============================================================================
