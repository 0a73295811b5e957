--------------------------- MODULE ExecutorProofs ---------------------------
(***************************************************************************)
(* The safety properties of the executor for any number of tasks, any cap,  *)
(* and every kind of policy and memory.                                     *)
(*                                                                          *)
(* What makes them inductive is that a task's place in execute() determines *)
(* the state its client saw, whether its stream is closed and whether it    *)
(* was reported (Tracked), and that the limiter's map is a function of the  *)
(* places (SlotsMatchRuns).                                                 *)
(***************************************************************************)
EXTENDS Executor, FiniteSetTheorems, TLAPS

TaskState == {"none", "submitted", "working", "completed", "failed", "canceled", "rejected"}

\* The states a task may show at a place of execute().
Shows(place) ==
    CASE place = "new"                     -> {"none"}
      [] place \in {"reading", "decided"}  -> {"submitted"}
      [] place = "turn"                    -> {"submitted", "working"}
      [] place = "recording"               -> {"completed", "failed", "canceled"}
      [] place = "failing"                 -> {"failed"}
      [] place = "ingesting"               -> {"completed"}
      [] OTHER                             -> {"completed", "failed", "canceled", "rejected"}

Tracked(t) ==
    /\ state[t] \in Shows(pc[t])
    /\ t \in closed <=> pc[t] = "done"
    /\ reports[t] = IF pc[t] \in {"ingesting", "done"} THEN 1 ELSE 0

IInv ==
    /\ TypeOK
    /\ \A t \in Task : Tracked(t)
    /\ SlotsMatchRuns
    /\ Cardinality(running) <= MaxConcurrent
    /\ drain \in {"done", "exited"} => running \subseteq left

LEMMA InitInv == Init => IInv
<1> SUFFICES ASSUME Init PROVE IInv
  OBVIOUS
<1>1. TypeOK
  BY DEF Init, TypeOK, Place
<1>2. \A t \in Task : Tracked(t)
  BY DEF Init, Tracked, Shows
<1>3. SlotsMatchRuns
  BY DEF Init, SlotsMatchRuns, Holding
<1>4. Cardinality(running) <= MaxConcurrent
  BY FS_EmptySet, ExecutorAssumption DEF Init
<1> QED BY <1>1, <1>2, <1>3, <1>4 DEF IInv, Init

LEMMA RunningFinite ==
  ASSUME TypeOK
  PROVE  /\ IsFiniteSet(running) /\ Cardinality(running) \in Nat
         /\ \A t \in Task : t \notin running =>
              Cardinality(running \cup {t}) = Cardinality(running) + 1
         /\ \A t \in Task : Cardinality(running \ {t}) <= Cardinality(running)
<1>1. IsFiniteSet(running)
  BY FS_Subset, ExecutorAssumption DEF TypeOK
<1>2. Cardinality(running) \in Nat
  BY <1>1, FS_CardinalityType
<1>3. \A t \in Task : t \notin running =>
        Cardinality(running \cup {t}) = Cardinality(running) + 1
  BY <1>1, FS_AddElement
<1>4. \A t \in Task : Cardinality(running \ {t}) <= Cardinality(running)
  BY <1>1, FS_Subset
<1> QED BY <1>1, <1>2, <1>3, <1>4

(***************************************************************************)
(* The finally block: the slot goes with the task, and a drain that waited  *)
(* for it is over.                                                          *)
(***************************************************************************)
LEMMA FinallyKeeps ==
  ASSUME IInv, NEW t \in Task, pc[t] \in Holding, Finally(t)
  PROVE  /\ pc' = [pc EXCEPT ![t] = "done"]
         /\ closed' = closed \cup {t}
         /\ running' = running \ {t}
         /\ drain' \in {"off", "waiting", "done", "exited"}
         /\ SlotsMatchRuns'
         /\ Cardinality(running') <= MaxConcurrent
         /\ UNCHANGED left => (drain' \in {"done", "exited"} => running' \subseteq left')
<1>1. /\ TypeOK /\ SlotsMatchRuns /\ Cardinality(running) <= MaxConcurrent
      /\ drain \in {"done", "exited"} => running \subseteq left
  BY DEF IInv
<1>2. /\ pc' = [pc EXCEPT ![t] = "done"]
      /\ closed' = closed \cup {t}
      /\ running' = running \ {t}
      /\ drain' = IF drain = "waiting" /\ running \ {t} = {} THEN "done" ELSE drain
  BY DEF Finally, Goto
<1>3. SlotsMatchRuns'
  BY <1>1, <1>2 DEF SlotsMatchRuns, Holding, TypeOK
<1>4. Cardinality(running') <= MaxConcurrent
  <2>1. Cardinality(running') <= Cardinality(running)
    BY <1>1, <1>2, RunningFinite
  <2>2. IsFiniteSet(running') /\ Cardinality(running') \in Nat /\ Cardinality(running) \in Nat
    BY <1>1, <1>2, RunningFinite, FS_Subset, FS_CardinalityType
  <2> QED BY <1>1, <2>1, <2>2, ExecutorAssumption
<1>5. drain' \in {"off", "waiting", "done", "exited"}
  BY <1>1, <1>2 DEF TypeOK
<1>6. UNCHANGED left => (drain' \in {"done", "exited"} => running' \subseteq left')
  BY <1>1, <1>2
<1> QED BY <1>2, <1>3, <1>4, <1>5, <1>6

LEMMA StepInv ==
  ASSUME IInv, [Next]_vars
  PROVE  IInv'
<1>1. /\ TypeOK /\ SlotsMatchRuns /\ Cardinality(running) <= MaxConcurrent
      /\ \A t \in Task : Tracked(t)
      /\ drain \in {"done", "exited"} => running \subseteq left
  BY DEF IInv
<1>2. ASSUME NEW t \in Task, NEW s \in {"rejected", "failed"}, Refuse(t, s) PROVE IInv'
  <2>1. /\ pc[t] = "new"
        /\ state' = [state EXCEPT ![t] = s]
        /\ reports' = [reports EXCEPT ![t] = @ + 1]
        /\ pc' = [pc EXCEPT ![t] = "done"]
        /\ closed' = closed \cup {t}
        /\ UNCHANGED <<verdict, running, aborted, drain, left, usage, calls, spent, recorded, asked, served>>
    BY <1>2 DEF Refuse, Publish, Report, Goto, limiterVars, usageVars
  <2>2. TypeOK'
    BY <1>1, <2>1 DEF TypeOK, Place
  <2>3. \A u \in Task : Tracked(u)'
    BY <1>1, <2>1 DEF TypeOK, Tracked, Shows
  <2>4. SlotsMatchRuns'
    BY <1>1, <2>1 DEF TypeOK, SlotsMatchRuns, Holding
  <2> QED BY <1>1, <2>1, <2>2, <2>3, <2>4 DEF IInv
<1>3. ASSUME NEW t \in Task, Arrive(t) PROVE IInv'
  <2>1. /\ pc[t] = "new"
        /\ state' = [state EXCEPT ![t] = "submitted"]
        /\ \E place \in {"reading", "decided"}, v \in {"none", "admit"} :
             /\ pc' = [pc EXCEPT ![t] = place]
             /\ verdict' = [verdict EXCEPT ![t] = v]
        /\ UNCHANGED <<closed, running, aborted, drain, left, usage, calls, spent, recorded,
                       reports, asked, served>>
    BY <1>3 DEF Arrive, Publish, Goto, limiterVars, usageVars, historyVars
  <2>2. TypeOK'
    BY <1>1, <2>1 DEF TypeOK, Place
  <2>3. \A u \in Task : Tracked(u)'
    BY <1>1, <2>1 DEF TypeOK, Tracked, Shows
  <2>4. SlotsMatchRuns'
    BY <1>1, <2>1 DEF TypeOK, SlotsMatchRuns, Holding
  <2> QED BY <1>1, <2>1, <2>2, <2>3, <2>4 DEF IInv
<1>4. ASSUME NEW t \in Task, ReadUsage(t) PROVE IInv'
  <2>1. /\ pc[t] = "reading"
        /\ pc' = [pc EXCEPT ![t] = "decided"]
        /\ \E v \in {"admit", "refuse"} : verdict' = [verdict EXCEPT ![t] = v]
        /\ UNCHANGED <<state, closed, running, aborted, drain, left, usage, calls, spent, recorded,
                       reports, asked, served>>
    BY <1>4 DEF ReadUsage, Goto, limiterVars, usageVars, historyVars
  <2>2. TypeOK'
    BY <1>1, <2>1 DEF TypeOK, Place
  <2>3. \A u \in Task : Tracked(u)'
    BY <1>1, <2>1 DEF TypeOK, Tracked, Shows
  <2>4. SlotsMatchRuns'
    BY <1>1, <2>1 DEF TypeOK, SlotsMatchRuns, Holding
  <2> QED BY <1>1, <2>1, <2>2, <2>3, <2>4 DEF IInv
<1>5. ASSUME NEW t \in Task, Decide(t) PROVE IInv'
  <2>1. /\ pc[t] = "decided"
        /\ verdict' = [verdict EXCEPT ![t] = "none"]
        /\ UNCHANGED <<aborted, drain, left, usage, calls, spent, recorded, asked>>
    BY <1>5 DEF Decide, usageVars
  <2>2. CASE StartTurn(t) /\ UNCHANGED state
    <3>1. /\ drain = "off" /\ Cardinality(running) < MaxConcurrent
          /\ running' = running \cup {t} /\ served' = served \cup {t}
          /\ pc' = [pc EXCEPT ![t] = "turn"]
          /\ UNCHANGED <<state, closed, reports>>
      BY <2>2 DEF StartTurn, CanAcquire, Goto
    <3>2. TypeOK'
      BY <1>1, <2>1, <3>1 DEF TypeOK, Place
    <3>3. \A u \in Task : Tracked(u)'
      BY <1>1, <2>1, <3>1 DEF TypeOK, Tracked, Shows
    <3>4. SlotsMatchRuns'
      BY <1>1, <2>1, <3>1 DEF TypeOK, SlotsMatchRuns, Holding
    <3>5. t \notin running
      BY <1>1, <2>1 DEF SlotsMatchRuns, Holding
    <3>6. Cardinality(running') <= MaxConcurrent
      BY <1>1, <3>1, <3>5, RunningFinite, ExecutorAssumption
    <3> QED BY <2>1, <3>1, <3>2, <3>3, <3>4, <3>6 DEF IInv
  <2>3. CASE Publish(t, "rejected") /\ RejectTask(t)
    <3>1. /\ state' = [state EXCEPT ![t] = "rejected"]
          /\ reports' = [reports EXCEPT ![t] = @ + 1]
          /\ pc' = [pc EXCEPT ![t] = "done"]
          /\ closed' = closed \cup {t}
          /\ UNCHANGED <<running, served>>
      BY <2>3 DEF Publish, RejectTask, Report, Goto
    <3>2. TypeOK'
      BY <1>1, <2>1, <3>1 DEF TypeOK, Place
    <3>3. \A u \in Task : Tracked(u)'
      BY <1>1, <2>1, <3>1 DEF TypeOK, Tracked, Shows
    <3>4. SlotsMatchRuns'
      BY <1>1, <2>1, <3>1 DEF TypeOK, SlotsMatchRuns, Holding
    <3> QED BY <1>1, <2>1, <3>1, <3>2, <3>3, <3>4 DEF IInv
  <2> QED BY <1>5, <2>2, <2>3 DEF Decide
<1>6. ASSUME NEW t \in Task, ModelCall(t) PROVE IInv'
  <2>1. /\ pc[t] = "turn"
        /\ calls' = [calls EXCEPT ![t] = @ + 1]
        /\ state' = [state EXCEPT ![t] = "working"]
        /\ UNCHANGED <<pc, closed, verdict, running, aborted, drain, left, usage, spent, recorded,
                       reports, asked, served>>
    BY <1>6 DEF ModelCall, Publish, limiterVars, historyVars
  <2>2. TypeOK'
    BY <1>1, <2>1 DEF TypeOK
  <2>3. \A u \in Task : Tracked(u)'
    BY <1>1, <2>1 DEF TypeOK, Tracked, Shows
  <2>4. SlotsMatchRuns'
    BY <1>1, <2>1 DEF SlotsMatchRuns
  <2> QED BY <1>1, <2>1, <2>2, <2>3, <2>4 DEF IInv
<1>7. ASSUME NEW t \in Task, NEW s \in {"completed", "failed", "canceled"}, NEW place,
             \/ place = "recording"
             \/ place = "failing" /\ s = "failed",
             pc[t] = "turn", Publish(t, s), Goto(t, place),
             UNCHANGED <<closed, verdict, limiterVars, usageVars, historyVars>>
      PROVE  IInv'
  <2>1. /\ state' = [state EXCEPT ![t] = s]
        /\ pc' = [pc EXCEPT ![t] = place]
        /\ UNCHANGED <<closed, verdict, running, aborted, drain, left, usage, calls, spent, recorded,
                       reports, asked, served>>
    BY <1>7 DEF Publish, Goto, limiterVars, usageVars, historyVars
  <2>2. TypeOK'
    BY <1>1, <1>7, <2>1 DEF TypeOK, Place
  <2>3. \A u \in Task : Tracked(u)'
    BY <1>1, <1>7, <2>1 DEF TypeOK, Tracked, Shows
  <2>4. SlotsMatchRuns'
    BY <1>1, <1>7, <2>1 DEF TypeOK, SlotsMatchRuns, Holding
  <2> QED BY <1>1, <2>1, <2>2, <2>3, <2>4 DEF IInv
<1>8. ASSUME NEW t \in Task, RecordUsage(t) PROVE IInv'
  <2>1. /\ pc[t] \in {"recording", "failing"}
        /\ reports' = [reports EXCEPT ![t] = @ + 1]
        /\ UNCHANGED <<state, verdict, aborted, left, usage, calls, asked, served>>
    BY <1>8 DEF RecordUsage, Report
  <2>2. spent' \in Nat /\ recorded' \in [Task -> Nat]
    <3>1. calls[t] \in Nat /\ spent \in Nat /\ recorded \in [Task -> Nat]
      BY <1>1 DEF TypeOK
    <3> QED BY <1>8, <3>1 DEF RecordUsage
  <2>3. CASE /\ state[t] = "completed"
             /\ Goto(t, "ingesting") /\ UNCHANGED <<closed, running, drain>>
    <3>1. pc' = [pc EXCEPT ![t] = "ingesting"] /\ UNCHANGED <<closed, running, drain>>
      BY <2>3 DEF Goto
    <3>2. TypeOK'
      BY <1>1, <2>1, <2>2, <3>1 DEF TypeOK, Place
    <3>3. \A u \in Task : Tracked(u)'
      BY <1>1, <2>1, <2>3, <3>1 DEF TypeOK, Tracked, Shows
    <3>4. SlotsMatchRuns'
      BY <1>1, <2>1, <3>1 DEF TypeOK, SlotsMatchRuns, Holding
    <3> QED BY <1>1, <2>1, <3>1, <3>2, <3>3, <3>4 DEF IInv
  <2>4. CASE Finally(t)
    <3>1. pc[t] \in Holding
      BY <2>1 DEF Holding
    <3>2. /\ pc' = [pc EXCEPT ![t] = "done"] /\ closed' = closed \cup {t}
          /\ running' = running \ {t}
          /\ drain' \in {"off", "waiting", "done", "exited"}
          /\ SlotsMatchRuns' /\ Cardinality(running') <= MaxConcurrent
          /\ drain' \in {"done", "exited"} => running' \subseteq left'
      BY <2>1, <2>4, <3>1, FinallyKeeps
    <3>3. TypeOK'
      BY <1>1, <2>1, <2>2, <3>2 DEF TypeOK, Place
    <3>4. \A u \in Task : Tracked(u)'
      BY <1>1, <2>1, <3>2 DEF TypeOK, Tracked, Shows
    <3> QED BY <3>2, <3>3, <3>4 DEF IInv
  <2> QED BY <1>8, <2>3, <2>4 DEF RecordUsage
<1>9. ASSUME NEW t \in Task, Ingested(t) PROVE IInv'
  <2>1. /\ pc[t] = "ingesting" /\ Finally(t)
        /\ UNCHANGED <<state, verdict, aborted, left, usage, calls, spent, recorded, reports, asked, served>>
    BY <1>9 DEF Ingested, usageVars, historyVars
  <2>2. /\ pc' = [pc EXCEPT ![t] = "done"] /\ closed' = closed \cup {t}
        /\ running' = running \ {t}
        /\ drain' \in {"off", "waiting", "done", "exited"}
        /\ SlotsMatchRuns' /\ Cardinality(running') <= MaxConcurrent
        /\ drain' \in {"done", "exited"} => running' \subseteq left'
    BY <2>1, FinallyKeeps DEF Holding
  <2>3. TypeOK'
    BY <1>1, <2>1, <2>2 DEF TypeOK, Place
  <2>4. \A u \in Task : Tracked(u)'
    BY <1>1, <2>1, <2>2 DEF TypeOK, Tracked, Shows
  <2> QED BY <2>2, <2>3, <2>4 DEF IInv
<1>10. CASE \/ \E t \in Task : CancelTask(t)
            \/ StartDrain \/ GraceOver \/ Exit
            \/ UNCHANGED vars
  <2>1. /\ UNCHANGED <<pc, state, closed, verdict, running, usage, calls, spent, recorded, reports, served>>
        /\ aborted' \subseteq Task /\ left' \subseteq Task /\ asked' \subseteq Task
        /\ drain' \in {"off", "waiting", "done", "exited"}
        /\ drain' \in {"done", "exited"} => running \subseteq left'
    BY <1>1, <1>10 DEF CancelTask, StartDrain, GraceOver, Exit, vars, taskVars, limiterVars,
       usageVars, historyVars, TypeOK
  <2>2. TypeOK' /\ (\A t \in Task : Tracked(t)') /\ SlotsMatchRuns'
    BY <1>1, <2>1 DEF TypeOK, Tracked, SlotsMatchRuns
  <2> QED BY <1>1, <2>1, <2>2 DEF IInv
<1>11. ASSUME NEW t \in Task, Execute(t) PROVE IInv'
  <2>1. ASSUME NEW s \in {"completed", "failed", "canceled"}, TurnReturns(t, s) PROVE IInv'
    BY <1>7, <2>1 DEF TurnReturns
  <2>2. CASE TurnThrows(t)
    BY <1>7, <2>2 DEF TurnThrows
  <2> QED BY <1>2, <1>3, <1>4, <1>5, <1>6, <1>8, <1>9, <1>11, <2>1, <2>2 DEF Execute
<1> QED BY <1>10, <1>11 DEF Next

\* Every handler leaves the executor's state typed.
THEOREM TypeCorrect == Spec => []TypeOK
<1>1. IInv => TypeOK
  BY DEF IInv
<1> QED BY <1>1, InitInv, StepInv, PTL DEF Spec

\* No slot leaks and none is freed early, on any path through execute(), and
\* the concurrency cap holds over what runs, for any number of tasks.
THEOREM SlotsAlwaysHold == Spec => []SlotsHold
<1>1. IInv => SlotsHold
  BY DEF IInv, SlotsHold, CapHolds, SlotsMatchRuns
<1> QED BY <1>1, InitInv, StepInv, PTL DEF Spec

\* One task-log record for each task that ended, none for one that did not.
THEOREM AlwaysReportedOnce == Spec => []ReportedOnce
<1>1. IInv => ReportedOnce
  BY DEF IInv, ReportedOnce, Tracked, Shows, TypeOK, Place
<1> QED BY <1>1, InitInv, StepInv, PTL DEF Spec

\* After the drain nothing runs that the drain did not count as canceled.
THEOREM DrainAlwaysLeavesNothing == Spec => []DrainLeavesNothing
<1>1. IInv => DrainLeavesNothing
  BY DEF IInv, DrainLeavesNothing, SlotsMatchRuns
<1> QED BY <1>1, InitInv, StepInv, PTL DEF Spec

(***************************************************************************)
(* The executor implements TaskLifecycle: `state` and `closed` are its      *)
(* variables, and every handler is one of its steps or leaves both alone.   *)
(***************************************************************************)
LEMMA LifecycleStep ==
  ASSUME IInv, [Next]_vars
  PROVE  [Lifecycle!Next]_<<state, closed>>
<1>1. /\ SlotsMatchRuns
      /\ \A t \in Task : Tracked(t)
  BY DEF IInv
<1> USE DEF Lifecycle!Next, Lifecycle!Publish, Lifecycle!Live, Lifecycle!Final
<1>2. ASSUME NEW t \in Task, NEW s \in {"rejected", "failed"}, Refuse(t, s)
      PROVE  Lifecycle!End(t)
  BY <1>1, <1>2 DEF Refuse, Publish, Tracked, Shows, Lifecycle!End
<1>3. ASSUME NEW t \in Task, Arrive(t) PROVE Lifecycle!Submit(t)
  BY <1>1, <1>3 DEF Arrive, Publish, Tracked, Shows, Lifecycle!Submit
<1>4. ASSUME NEW t \in Task, Decide(t)
      PROVE  Lifecycle!End(t) \/ UNCHANGED <<state, closed>>
  <2>1. state[t] = "submitted"
    BY <1>1, <1>4 DEF Decide, Tracked, Shows
  <2> QED BY <2>1, <1>4 DEF Decide, StartTurn, RejectTask, Publish, Lifecycle!End
<1>5. ASSUME NEW t \in Task, ModelCall(t) PROVE Lifecycle!Progress(t)
  BY <1>1, <1>5 DEF ModelCall, Publish, Tracked, Shows, Lifecycle!Progress
<1>6. ASSUME NEW t \in Task, NEW s \in {"completed", "failed", "canceled"},
             pc[t] = "turn", Publish(t, s), UNCHANGED closed
      PROVE  Lifecycle!End(t)
  BY <1>1, <1>6 DEF Publish, Tracked, Shows, Lifecycle!End
<1>7. ASSUME NEW t \in Task, RecordUsage(t)
      PROVE  Lifecycle!Close(t) \/ UNCHANGED <<state, closed>>
  <2>1. state[t] \in Lifecycle!Final
    BY <1>1, <1>7 DEF RecordUsage, Tracked, Shows
  <2> QED BY <2>1, <1>7 DEF RecordUsage, Finally, Lifecycle!Close
<1>8. ASSUME NEW t \in Task, Ingested(t) PROVE Lifecycle!Close(t)
  <2>1. state[t] \in Lifecycle!Final
    BY <1>1, <1>8 DEF Ingested, Tracked, Shows
  <2> QED BY <2>1, <1>8 DEF Ingested, Finally, Lifecycle!Close
<1>9. ASSUME NEW t \in Task, Execute(t)
      PROVE  Lifecycle!Next \/ UNCHANGED <<state, closed>>
  <2>1. ASSUME NEW s \in {"completed", "failed", "canceled"}, TurnReturns(t, s)
        PROVE  Lifecycle!End(t)
    BY <1>6, <2>1 DEF TurnReturns
  <2>2. CASE TurnThrows(t)
    BY <1>6, <2>2 DEF TurnThrows
  <2>3. CASE ReadUsage(t)
    BY <2>3 DEF ReadUsage
  <2> QED BY <1>2, <1>3, <1>4, <1>5, <1>7, <1>8, <1>9, <2>1, <2>2, <2>3 DEF Execute
<1>10. CASE (\E t \in Task : CancelTask(t)) \/ StartDrain \/ GraceOver \/ Exit \/ UNCHANGED vars
  BY <1>10 DEF CancelTask, StartDrain, GraceOver, Exit, vars, taskVars
<1> QED BY <1>9, <1>10 DEF Next

\* Every task's client sees the lifecycle A2A promises: submitted, perhaps
\* working, one final state, then the end of the stream.
THEOREM ImplementsTheLifecycle == Spec => ImplementsLifecycle
<1>1. Init => Lifecycle!Init
  BY DEF Init, Lifecycle!Init
<1> QED BY <1>1, InitInv, StepInv, LifecycleStep, PTL
        DEF Spec, ImplementsLifecycle, Lifecycle!Spec, Lifecycle!lifecycleVars

(***************************************************************************)
(* The overshoot of a budget kept in process memory.  A task that has run   *)
(* is counted or still holds a slot, and an admission is acted on before    *)
(* any other task's usage is recorded, so that a slot is taken only while   *)
(* the tasks served are fewer than the budget and the free slots allow.     *)
(***************************************************************************)
Uncounted == {t \in Task : pc[t] \in {"turn", "recording", "failing"}}

OvershootInv ==
    /\ \A t, u \in Task : pc[t] \in Micro /\ pc[u] \in Micro => t = u
    /\ \A t \in Task : verdict[t] = "admit" => pc[t] = "decided" /\ spent < Limit
    /\ Cardinality(served) <= spent + Cardinality(Uncounted)
    /\ OvershootBounded

LEMMA UncountedHold ==
  ASSUME IInv
  PROVE  /\ Uncounted \subseteq running
         /\ IsFiniteSet(Uncounted) /\ Cardinality(Uncounted) \in Nat
         /\ Cardinality(Uncounted) <= Cardinality(running)
         /\ IsFiniteSet(served) /\ Cardinality(served) \in Nat
<1>1. Uncounted \subseteq running /\ TypeOK
  BY DEF IInv, SlotsMatchRuns, Holding, Uncounted
<1>2. IsFiniteSet(running)
  BY <1>1, RunningFinite
<1>3. IsFiniteSet(Uncounted) /\ Cardinality(Uncounted) <= Cardinality(running)
  BY <1>1, <1>2, FS_Subset
<1>4. IsFiniteSet(served)
  BY <1>1, FS_Subset, ExecutorAssumption DEF TypeOK
<1> QED BY <1>1, <1>3, <1>4, FS_CardinalityType

LEMMA UsageKept == [Next]_vars => usage' = usage
  BY DEF Next, Execute, Refuse, Arrive, ReadUsage, Decide, ModelCall, TurnReturns, TurnThrows,
     RecordUsage, Ingested, CancelTask, StartDrain, GraceOver, Exit, vars, usageVars

LEMMA OvershootInit ==
  ASSUME usage = "memory", Limit > 0, Init
  PROVE  OvershootInv
<1>1. served = {} /\ spent = 0 /\ Uncounted = {}
  BY DEF Init, Uncounted
<1>2. Cardinality(served) = 0 /\ Cardinality(Uncounted) = 0
  BY <1>1, FS_EmptySet
<1>3. OvershootBounded
  BY <1>2, ExecutorAssumption DEF OvershootBounded
<1> QED BY <1>1, <1>2, <1>3 DEF OvershootInv, Init, Micro

\* Taking a slot is the step that serves one more task.
LEMMA ServeOneMore ==
  ASSUME Limit > 0, IInv, OvershootInv, NEW t \in Task,
         pc[t] = "decided", verdict[t] = "admit", StartTurn(t)
  PROVE  /\ Cardinality(served') <= spent + Cardinality(Uncounted')
         /\ Cardinality(served') <= Limit - 1 + MaxConcurrent
<1>1. /\ Cardinality(running) < MaxConcurrent
      /\ served' = served \cup {t}
      /\ pc' = [pc EXCEPT ![t] = "turn"]
  BY DEF StartTurn, CanAcquire, Goto
<1>2. /\ Cardinality(running) \in Nat /\ spent \in Nat /\ pc \in [Task -> Place]
      /\ spent < Limit
      /\ Cardinality(served) <= spent + Cardinality(Uncounted)
  BY RunningFinite DEF IInv, OvershootInv, TypeOK
<1>3. Uncounted' = Uncounted \cup {t} /\ t \notin Uncounted
  BY <1>1, <1>2 DEF Uncounted
<1>4. Cardinality(Uncounted') = Cardinality(Uncounted) + 1
  BY <1>3, UncountedHold, FS_AddElement
<1>5. /\ Cardinality(served') \in Nat
      /\ Cardinality(served') <= Cardinality(served) + 1
  <2>1. \/ Cardinality(served') = Cardinality(served)
        \/ Cardinality(served') = Cardinality(served) + 1
    BY <1>1, UncountedHold, FS_AddElement
  <2> QED BY <2>1, UncountedHold
<1> QED BY <1>1, <1>2, <1>4, <1>5, UncountedHold, ExecutorAssumption

LEMMA OvershootStep ==
  ASSUME usage = "memory", Limit > 0, IInv, OvershootInv, [Next]_vars
  PROVE  OvershootInv'
<1>1. /\ \A t, u \in Task : pc[t] \in Micro /\ pc[u] \in Micro => t = u
      /\ \A t \in Task : verdict[t] = "admit" => pc[t] = "decided" /\ spent < Limit
      /\ Cardinality(served) <= spent + Cardinality(Uncounted)
      /\ Cardinality(served) <= Limit - 1 + MaxConcurrent
      /\ pc \in [Task -> Place] /\ spent \in Nat
      /\ verdict \in [Task -> {"none", "admit", "refuse"}]
  BY DEF OvershootInv, OvershootBounded, IInv, TypeOK
<1>2. /\ Micro = {"reading", "decided", "recording", "failing"}
      /\ Micro' = {"reading", "decided", "recording", "failing"}
  BY UsageKept DEF Micro
\* A step that neither serves nor counts a task.
<1>3. ASSUME NEW t \in Task, NEW place \in Place, pc' = [pc EXCEPT ![t] = place],
             place \in Micro => pc[t] \in Micro \/ Settled,
             pc[t] \in {"turn", "recording", "failing"}
               <=> place \in {"turn", "recording", "failing"},
             \A u \in Task : verdict'[u] = "admit" => pc'[u] = "decided" /\ spent < Limit,
             UNCHANGED <<spent, served>>
      PROVE  OvershootInv'
  <2>1. \A u, v \in Task : pc'[u] \in Micro /\ pc'[v] \in Micro => u = v
    BY <1>1, <1>3 DEF Settled
  <2>2. Uncounted' = Uncounted
    BY <1>1, <1>3 DEF Uncounted
  <2> QED BY <1>1, <1>2, <1>3, <2>1, <2>2 DEF OvershootInv, OvershootBounded
<1>4. ASSUME NEW t \in Task, Execute(t) PROVE OvershootInv'
  <2>1. ASSUME NEW s \in {"rejected", "failed"}, Refuse(t, s) PROVE OvershootInv'
    <3>1. /\ pc[t] = "new" /\ pc' = [pc EXCEPT ![t] = "done"]
          /\ UNCHANGED <<verdict, spent, served>>
      BY <2>1 DEF Refuse, Goto, usageVars
    <3> QED BY <1>1, <1>2, <1>3, <3>1 DEF Place
  <2>2. CASE Arrive(t)
    <3>0. Limit # 0
      BY ExecutorAssumption
    <3>1. /\ pc[t] = "new" /\ Settled
          /\ pc' = [pc EXCEPT ![t] = "reading"]
          /\ verdict' = [verdict EXCEPT ![t] = "none"]
          /\ UNCHANGED <<spent, served>>
      BY <2>2, <3>0 DEF Arrive, Runs, Goto, usageVars, historyVars
    <3> QED BY <1>1, <1>2, <1>3, <3>1 DEF Place
  <2>3. CASE ReadUsage(t)
    <3>1. /\ pc[t] = "reading" /\ pc' = [pc EXCEPT ![t] = "decided"]
          /\ \E v \in {"admit", "refuse"} :
               /\ v = "admit" => spent < Limit
               /\ verdict' = [verdict EXCEPT ![t] = v]
          /\ UNCHANGED <<spent, served>>
      BY <2>3 DEF ReadUsage, Goto, usageVars, historyVars
    <3> QED BY <1>1, <1>2, <1>3, <3>1 DEF Place
  <2>4. CASE Decide(t)
    <3>1. /\ pc[t] = "decided" /\ verdict' = [verdict EXCEPT ![t] = "none"]
          /\ UNCHANGED spent
      BY <2>4 DEF Decide, usageVars
    <3>2. CASE RejectTask(t)
      <4>1. pc' = [pc EXCEPT ![t] = "done"] /\ UNCHANGED served
        BY <3>2 DEF RejectTask, Goto
      <4> QED BY <1>1, <1>2, <1>3, <3>1, <4>1 DEF Place
    <3>3. CASE StartTurn(t) /\ verdict[t] = "admit"
      <4>1. pc' = [pc EXCEPT ![t] = "turn"]
        BY <3>3 DEF StartTurn, Goto
      <4>2. \A u, v \in Task : pc'[u] \in Micro /\ pc'[v] \in Micro => u = v
        BY <1>1, <1>2, <4>1
      <4>3. \A u \in Task : verdict'[u] = "admit" => pc'[u] = "decided" /\ spent' < Limit
        BY <1>1, <3>1, <4>1
      <4>4. /\ Cardinality(served') <= spent + Cardinality(Uncounted')
            /\ Cardinality(served') <= Limit - 1 + MaxConcurrent
        BY <3>1, <3>3, ServeOneMore
      <4> QED BY <1>2, <3>1, <4>2, <4>3, <4>4 DEF OvershootInv, OvershootBounded
    <3> QED BY <2>4, <3>2, <3>3 DEF Decide
  <2>5. CASE ModelCall(t)
    <3>1. pc[t] = "turn" /\ pc' = [pc EXCEPT ![t] = "turn"] /\ UNCHANGED <<verdict, spent, served>>
      BY <1>1, <2>5 DEF ModelCall, historyVars
    <3> QED BY <1>1, <1>2, <1>3, <3>1 DEF Place
  <2>6. CASE TurnThrows(t) \/ \E s \in {"completed", "failed", "canceled"} : TurnReturns(t, s)
    <3>1. /\ pc[t] = "turn" /\ Settled
          /\ \E place \in {"recording", "failing"} : pc' = [pc EXCEPT ![t] = place]
          /\ UNCHANGED <<verdict, spent, served>>
      BY <2>6 DEF TurnThrows, TurnReturns, Runs, Goto, usageVars, historyVars
    <3> QED BY <1>1, <1>2, <1>3, <3>1 DEF Place
  <2>7. CASE RecordUsage(t)
    <3>1. /\ pc[t] \in {"recording", "failing"} /\ spent' = spent + 1
          /\ UNCHANGED <<verdict, served>>
          /\ \E place \in {"ingesting", "done"} : pc' = [pc EXCEPT ![t] = place]
      BY <2>7 DEF RecordUsage, Finally, Goto
    <3>2. \A u, v \in Task : pc'[u] \in Micro /\ pc'[v] \in Micro => u = v
      BY <1>1, <1>2, <3>1
    <3>3. \A u \in Task : verdict'[u] # "admit"
      BY <1>1, <1>2, <3>1
    <3>4. Uncounted' = Uncounted \ {t} /\ t \in Uncounted
      BY <1>1, <3>1 DEF Uncounted
    <3>5. Cardinality(Uncounted') = Cardinality(Uncounted) - 1
      BY <3>4, UncountedHold, FS_RemoveElement
    <3>6. Cardinality(served') <= spent' + Cardinality(Uncounted')
      BY <1>1, <3>1, <3>5, UncountedHold
    <3> QED BY <1>1, <1>2, <3>1, <3>2, <3>3, <3>6 DEF OvershootInv, OvershootBounded
  <2>8. CASE Ingested(t)
    <3>1. /\ pc[t] = "ingesting" /\ pc' = [pc EXCEPT ![t] = "done"]
          /\ UNCHANGED <<verdict, spent, served>>
      BY <2>8 DEF Ingested, Finally, Goto, usageVars, historyVars
    <3> QED BY <1>1, <1>2, <1>3, <3>1 DEF Place
  <2> QED BY <1>4, <2>1, <2>2, <2>3, <2>4, <2>5, <2>6, <2>7, <2>8 DEF Execute
<1>5. CASE (\E t \in Task : CancelTask(t)) \/ StartDrain \/ GraceOver \/ Exit \/ UNCHANGED vars
  <2>1. UNCHANGED <<pc, verdict, spent, served>>
    BY <1>5 DEF CancelTask, StartDrain, GraceOver, Exit, vars, taskVars, usageVars, historyVars
  <2>2. Uncounted' = Uncounted
    BY <2>1 DEF Uncounted
  <2> QED BY <1>1, <1>2, <2>1, <2>2 DEF OvershootInv, OvershootBounded
<1> QED BY <1>4, <1>5 DEF Next

\* With the counters in process memory, a budget is overshot by less than the
\* concurrency cap, for any budget, cap and number of tasks.
THEOREM OvershootIsBounded == Spec => []OvershootBounded
<1> DEFINE Counts == usage = "memory" /\ Limit > 0
<1>1. Init => IInv /\ (Counts => OvershootInv)
  BY InitInv, OvershootInit
<1>2. IInv /\ (Counts => OvershootInv) /\ [Next]_vars => (IInv /\ (Counts => OvershootInv))'
  BY StepInv, OvershootStep, UsageKept
<1>3. (Counts => OvershootInv) => OvershootBounded
  BY DEF OvershootInv, OvershootBounded
<1> HIDE DEF Counts
<1> QED BY <1>1, <1>2, <1>3, PTL DEF Spec
=============================================================================
