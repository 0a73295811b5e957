----------------------------- MODULE TaskQueue -----------------------------
(***************************************************************************)
(* The Assistant's task list and background queue: the chat process, which  *)
(* edits the store through the task tools (lib/tools/taskTools.ts), and the *)
(* one worker process that claims and runs jobs                             *)
(* (scripts/assistant_worker.ts).  Each mutate() is one step here, as its   *)
(* comment says; TaskRace splits it and shows what that hides.              *)
(*                                                                          *)
(* Every action that writes the store takes the store it read as `base`, so *)
(* TaskRace can hand it an older one.                                       *)
(***************************************************************************)
EXTENDS TaskStore

CONSTANTS
    MaxChat,   \* bound on the chat process's tool calls
    MaxStops   \* bound on the times a worker process goes away

ASSUME BoundsAssumption == MaxChat \in Nat /\ MaxStops \in Nat

VARIABLES
    store,   \* the file
    clock,   \* the latest time stamp written
    chats,   \* tool calls made so far
    stops,   \* worker processes gone so far
    worker   \* the worker process: see Worker

vars == <<store, clock, chats, stops, worker>>

NoJob == 0

\* job: the id the drain loop runs (NoJob between jobs); once: --once;
\* stopping: Ctrl-C or SIGTERM was received; aborted: the run was aborted.
Worker == [up : BOOLEAN, once : BOOLEAN, stopping : BOOLEAN,
           job : Nat, aborted : BOOLEAN]

Down == [up |-> FALSE, once |-> FALSE, stopping |-> FALSE,
         job |-> NoJob, aborted |-> FALSE]

Init ==
    /\ store = emptyStore
    /\ clock = 0
    /\ chats = 0
    /\ stops = 0
    /\ worker = Down

\* Two writes in the same millisecond carry the same stamp.
Now == {clock, clock + 1}

(***************************************************************************)
(* The chat process.                                                        *)
(***************************************************************************)
ChatCall(base, after, now) ==
    /\ chats < MaxChat
    /\ chats' = chats + 1
    /\ clock' = now
    /\ store' = after
    /\ UNCHANGED <<stops, worker>>

TaskAdd(base, now) == ChatCall(base, AddRecord(base, "todo", now), now)

TaskQueueTool(base, now) == ChatCall(base, AddRecord(base, "background", now), now)

TaskUpdate(base, now) ==
    \E id \in Ids(base), status \in {"none", "open", "done", "cancelled", "queued"} :
        ChatCall(base, UpdateRecord(base, id, status, now), now)

Chat(base) ==
    \E now \in Now :
        \/ TaskAdd(base, now)
        \/ TaskQueueTool(base, now)
        \/ TaskUpdate(base, now)

(***************************************************************************)
(* The worker process.  Starting it recovers what a dead one left running.  *)
(***************************************************************************)
StartWorker(base) ==
    /\ ~worker.up
    /\ \E once \in BOOLEAN, now \in Now :
         /\ worker' = [Down EXCEPT !.up = TRUE, !.once = once]
         /\ store' = RecoverInterruptedJobs(base, now)
         /\ clock' = IF Interrupted(base) = {} THEN clock ELSE now
    /\ UNCHANGED <<chats, stops>>

(* Plausible bug: a second job beside the one in hand. *)
CanClaimTwice == worker.up /\ ~worker.stopping

CanClaim == worker.up /\ ~worker.stopping /\ worker.job = NoJob

\* claimNextJob with a job to claim, then runJob up to its first await.
Claim(base) ==
    /\ CanClaim
    /\ Claimable(base) # {}
    /\ \E now \in Now :
         /\ store' = ClaimJob(base, NextJob(base), now)
         /\ clock' = now
    /\ worker' = [worker EXCEPT !.job = NextJob(base), !.aborted = FALSE]
    /\ UNCHANGED <<chats, stops>>

\* claimNextJob with none: mutate writes back what it read.  With --once the
\* drained queue ends the process.
ClaimNothing(base) ==
    /\ CanClaim
    /\ Claimable(base) = {}
    /\ store' = base
    /\ worker' = IF worker.once THEN Down ELSE worker
    /\ UNCHANGED <<clock, chats, stops>>

\* The run ended and its outcome is recorded.  An aborted run is a failed one.
Finish(base, ok) ==
    /\ worker.up
    /\ worker.job # NoJob
    /\ ok => ~worker.aborted
    /\ \E now \in Now :
         /\ store' = FinishJob(base, worker.job, ok, now)
         /\ clock' = now
    /\ worker' = [worker EXCEPT !.job = NoJob, !.aborted = FALSE]
    /\ UNCHANGED <<chats, stops>>

Signal(w) ==
    /\ worker.up
    /\ ~worker.once
    /\ stops < MaxStops
    /\ worker' = w
    /\ UNCHANGED <<store, clock, chats, stops>>

\* The first Ctrl-C: finish the job in hand.
Interrupt == ~worker.stopping /\ Signal([worker EXCEPT !.stopping = TRUE])

\* SIGTERM: abort the job in hand.
Terminate ==
    /\ ~(worker.stopping /\ (worker.job = NoJob \/ worker.aborted))
    /\ Signal([worker EXCEPT !.stopping = TRUE, !.aborted = worker.job # NoJob])

\* The polling loop leaves once the drain loop has returned.
ExitWorker ==
    /\ worker.up
    /\ worker.stopping
    /\ worker.job = NoJob
    /\ worker' = Down
    /\ stops' = stops + 1
    /\ UNCHANGED <<store, clock, chats>>

\* The process dies where it is: a crash, a kill, the second Ctrl-C, any
\* signal under --once, or a store write that failed in finishJob.
Crash ==
    /\ worker.up
    /\ stops < MaxStops
    /\ worker' = Down
    /\ stops' = stops + 1
    /\ UNCHANGED <<store, clock, chats>>

Next ==
    \/ Chat(store)
    \/ StartWorker(store)
    \/ Claim(store)
    \/ ClaimNothing(store)
    \/ \E ok \in BOOLEAN : Finish(store, ok)
    \/ Interrupt
    \/ Terminate
    \/ ExitWorker
    \/ Crash

(***************************************************************************)
(* Fairness.  Somebody starts the worker again after it went away (the      *)
(* README's second terminal, or cron); a running process takes its next     *)
(* step; JOB_TIMEOUT_MS ends every run.                                     *)
(***************************************************************************)
Fairness ==
    /\ WF_vars(StartWorker(store))
    /\ WF_vars(Claim(store))
    /\ WF_vars(\E ok \in BOOLEAN : Finish(store, ok))
    /\ WF_vars(ExitWorker)

Spec == Init /\ [][Next]_vars

FairSpec == Spec /\ Fairness
-----------------------------------------------------------------------------
(***************************************************************************)
(* Properties.                                                              *)
(***************************************************************************)
TypeOK ==
    /\ WellFormed(store)
    /\ clock \in Nat
    /\ chats \in 0 .. MaxChat
    /\ stops \in Nat
    /\ worker \in Worker

\* The one record marked running is the job the live worker has in hand, so
\* finishJob always finds its record and no outcome is thrown away.
OneJobInHand ==
    worker.up => InStatus(store, "running") = (IF worker.job = NoJob THEN {} ELSE {worker.job})

\* With no worker at all, at most the job it died with is marked running.
OneOrphanAtMost ==
    \A i, j \in InStatus(store, "running") : i = j

\* Both of these: over every crash and restart, what the file shows as running
\* and what a worker runs part only while there is no worker, and by one job.
OneJobRuns == OneJobInHand /\ OneOrphanAtMost

\* Over crashes, restarts and re-queues by the user: retries are bounded, a
\* status never contradicts the result or error stored beside it, and the list
\* never outgrows its cap.
RecordsSound == RetryBudget(store) /\ OutcomeAgrees(store) /\ Capped(store)

\* addRecord: "live ones are never dropped".
LiveKept ==
    \A i \in Ids(store) : store.tasks[i].status \notin FINISHED => i \in Ids(store')

\* "ids come from the store and are never reused" (tests/taskTools.test.ts): a
\* record that appears has an id no earlier or later record has, dropped or not.
IdsFresh ==
    /\ store'.next_id >= store.next_id
    /\ \A i \in Ids(store') \ Ids(store) : store.next_id <= i /\ i < store'.next_id

\* Making room never costs a live record nor, later, an id.
RecordsKept == [][LiveKept /\ IdsFresh]_vars

\* Whatever the user does, a job in hand stays in hand until the worker records
\* its outcome; and "Ctrl-C: finish the job in hand, claim no more."
WorkerDecides ==
    [][/\ worker.job # NoJob /\ worker'.job = worker.job =>
            store'.tasks[worker.job].status = "running"
       /\ worker.stopping => InStatus(store', "running") \subseteq InStatus(store, "running")]_vars

\* recoverInterruptedJobs: "one poisoned job cannot loop forever".  Every
\* queued or running job is eventually settled, however the worker dies.
JobSettled(i) ==
    i \in Ids(store) /\ store.tasks[i].status \in {"queued", "running"}
      ~> (i \in Ids(store) => store.tasks[i].status \in FINISHED)

EveryJobSettles == \A i \in 1 .. MaxChat : JobSettled(i)
=============================================================================
