----------------------------- MODULE TaskStore -----------------------------
(***************************************************************************)
(* The record store of lib/tools/taskTools.ts as pure operations on a store *)
(* value.  Every tool and every worker step of that file is mutate(change): *)
(* read the whole file, apply `change`, write the whole file back.  Here a  *)
(* `change` is an operator from a store to a store; when the file is read   *)
(* and written is the business of TaskQueue (one step) and TaskRace (two    *)
(* steps).                                                                  *)
(*                                                                          *)
(* The store's array is kept in insertion order and ids are handed out in   *)
(* increasing order, so the array is abstracted to a function from ids to   *)
(* records: "the first record that ..." is the one with the least id.       *)
(* Titles, notes and due dates are left out; a result and an error are      *)
(* their presence.  `updated` stands for updated_at, a logical time.        *)
(***************************************************************************)
EXTENDS Naturals, FiniteSets

CONSTANTS
    MAX_TASKS,    \* records kept at most
    MAX_ATTEMPTS  \* claims of one job before an interruption is its last

ASSUME LimitsAssumption ==
    /\ MAX_TASKS \in Nat \ {0}
    /\ MAX_ATTEMPTS \in Nat \ {0}

TaskKind == {"todo", "background"}
TaskStatus == {"open", "done", "cancelled", "queued", "running", "failed"}

FINISHED == {"done", "cancelled", "failed"}

TaskRecord == [kind     : TaskKind,
               status   : TaskStatus,
               attempts : Nat,
               result   : BOOLEAN,   \* the worker wrote a result
               error    : BOOLEAN,   \* the worker or the recovery wrote an error
               updated  : Nat]

emptyStore == [next_id |-> 1, tasks |-> [i \in {} |-> {}]]

Ids(s) == DOMAIN s.tasks
InStatus(s, status) == {i \in Ids(s) : s.tasks[i].status = status}
Jobs(s) == {i \in Ids(s) : s.tasks[i].kind = "background"}

(***************************************************************************)
(* A definition marked "plausible bug" is a variant of the one after it,    *)
(* kept to see which property would notice; nothing else uses it.           *)
(*                                                                          *)
(* Adding: addRecord drops the oldest finished records to make room and     *)
(* refuses when the list is full of live ones.                              *)
(***************************************************************************)
Finished(s) == {i \in Ids(s) : s.tasks[i].status \in FINISHED}

\* The stable sort by updated_at: equal stamps keep the array's order.
Older(s, i, j) ==
    \/ s.tasks[i].updated < s.tasks[j].updated
    \/ s.tasks[i].updated = s.tasks[j].updated /\ i < j

(* Plausible bug: the oldest records are dropped, finished or not. *)
DroppedAlive(s) ==
    IF Cardinality(Ids(s)) < MAX_TASKS THEN {}
    ELSE {i \in Ids(s) :
            Cardinality({j \in Ids(s) : Older(s, j, i)})
              < Cardinality(Ids(s)) - MAX_TASKS + 1}

\* As many of the oldest finished records as the list is over MAX_TASKS - 1.
Dropped(s) ==
    IF Cardinality(Ids(s)) < MAX_TASKS THEN {}
    ELSE {i \in Finished(s) :
            Cardinality({j \in Finished(s) : Older(s, j, i)})
              < Cardinality(Ids(s)) - MAX_TASKS + 1}

Kept(s) == Ids(s) \ Dropped(s)

NewRecord(kind, now) ==
    [kind     |-> kind,
     status   |-> IF kind = "todo" THEN "open" ELSE "queued",
     attempts |-> 0,
     result   |-> FALSE,
     error    |-> FALSE,
     updated  |-> now]

(* Plausible bug: the id counter stays. *)
AddRecordSameId(s, kind, now) ==
    [s EXCEPT !.tasks = [i \in Kept(s) \cup {s.next_id} |->
                           IF i = s.next_id THEN NewRecord(kind, now) ELSE s.tasks[i]]]

AddRecord(s, kind, now) ==
    IF Cardinality(Kept(s)) >= MAX_TASKS
    THEN [s EXCEPT !.tasks = [i \in Kept(s) |-> s.tasks[i]]]
    ELSE [next_id |-> s.next_id + 1,
          tasks   |-> [i \in Kept(s) \cup {s.next_id} |->
                         IF i = s.next_id THEN NewRecord(kind, now) ELSE s.tasks[i]]]

(***************************************************************************)
(* task_update: which status changes are allowed, and what a re-queue       *)
(* resets.  A refusal leaves the store as it was read.                      *)
(***************************************************************************)
Allowed(kind) ==
    IF kind = "todo" THEN {"open", "done", "cancelled"} ELSE {"cancelled", "queued"}

(* Plausible bug: a running job can be withdrawn. *)
UpdateAcceptedRunning(s, id, status) ==
    /\ id \in Ids(s)
    /\ \/ status = "none"
       \/ /\ status \in Allowed(s.tasks[id].kind)
          /\ s.tasks[id].kind = "background" /\ status = "queued" =>
               s.tasks[id].status \in {"failed", "cancelled"}

\* `status` is "none" for an edit of title, notes or due date only.
UpdateAccepted(s, id, status) ==
    /\ id \in Ids(s)
    /\ \/ status = "none"
       \/ /\ status \in Allowed(s.tasks[id].kind)
          /\ s.tasks[id].kind = "background" =>
               /\ s.tasks[id].status # "running"
               /\ status = "queued" => s.tasks[id].status \in {"failed", "cancelled"}

(* Plausible bug: a re-queue keeps the spent attempts. *)
UpdatedKeepsAttempts(r, status, now) ==
    CASE status = "none"   -> [r EXCEPT !.updated = now]
      [] status = "queued" -> [r EXCEPT !.status = "queued", !.error = FALSE, !.updated = now]
      [] OTHER             -> [r EXCEPT !.status = status, !.updated = now]

UpdatedRecord(r, status, now) ==
    CASE status = "none"   -> [r EXCEPT !.updated = now]
      [] status = "queued" -> [r EXCEPT !.status = "queued", !.attempts = 0,
                                        !.error = FALSE, !.updated = now]
      [] OTHER             -> [r EXCEPT !.status = status, !.updated = now]

UpdateRecord(s, id, status, now) ==
    IF UpdateAccepted(s, id, status)
    THEN [s EXCEPT !.tasks[id] = UpdatedRecord(@, status, now)]
    ELSE s

(***************************************************************************)
(* The worker's side.                                                       *)
(***************************************************************************)
Interrupted(s) == InStatus(s, "running") \cap Jobs(s)

(* Plausible bug: an interrupted job is always queued again. *)
RecoveredAlways(r, now) == [r EXCEPT !.status = "queued", !.updated = now]

RecoveredRecord(r, now) ==
    IF r.attempts >= MAX_ATTEMPTS
    THEN [r EXCEPT !.status = "failed", !.error = TRUE, !.updated = now]
    ELSE [r EXCEPT !.status = "queued", !.updated = now]

(* Plausible bug: a worker that starts takes over nothing. *)
RecoverNothing(s, now) == s

RecoverInterruptedJobs(s, now) ==
    [s EXCEPT !.tasks = [i \in Ids(s) |->
        IF i \in Interrupted(s) THEN RecoveredRecord(s.tasks[i], now) ELSE s.tasks[i]]]

Claimable(s) == InStatus(s, "queued") \cap Jobs(s)

\* The record Array.find returns: the first one, so the least id.
NextJob(s) == CHOOSE i \in Claimable(s) : \A j \in Claimable(s) : i <= j

ClaimedRecord(r, now) ==
    [r EXCEPT !.status = "running", !.attempts = r.attempts + 1, !.updated = now]

ClaimJob(s, id, now) == [s EXCEPT !.tasks[id] = ClaimedRecord(@, now)]

FinishedRecord(r, ok, now) ==
    IF ok
    THEN [r EXCEPT !.status = "done", !.result = TRUE, !.error = FALSE, !.updated = now]
    ELSE [r EXCEPT !.status = "failed", !.error = TRUE, !.updated = now]

FinishJob(s, id, ok, now) ==
    IF id \in InStatus(s, "running")
    THEN [s EXCEPT !.tasks[id] = FinishedRecord(@, ok, now)]
    ELSE s

(***************************************************************************)
(* A well-formed store: what a reader of the file may rely on.              *)
(***************************************************************************)
WellFormed(s) ==
    /\ s = [next_id |-> s.next_id, tasks |-> s.tasks]
    /\ s.next_id \in Nat \ {0}
    /\ s.tasks \in [Ids(s) -> TaskRecord]
    /\ Ids(s) \subseteq 1 .. s.next_id - 1

\* An interruption never leaves a job with attempts it may not use: a queued
\* job has one left, a running one holds at least its own.
RetryBudget(s) ==
    \A i \in Jobs(s) :
        /\ s.tasks[i].attempts <= MAX_ATTEMPTS
        /\ s.tasks[i].status = "queued" => s.tasks[i].attempts < MAX_ATTEMPTS
        /\ s.tasks[i].status = "running" => s.tasks[i].attempts >= 1

\* What the worker wrote agrees with the status a reader sees, and no todo
\* has a status only the worker gives.
OutcomeAgrees(s) ==
    /\ \A i \in Jobs(s) :
         /\ s.tasks[i].status = "done" => s.tasks[i].result /\ ~s.tasks[i].error
         /\ s.tasks[i].status = "failed" => s.tasks[i].error
         /\ s.tasks[i].status \in {"queued", "running"} => ~s.tasks[i].error
    /\ \A i \in Ids(s) \ Jobs(s) : s.tasks[i].status \in {"open", "done", "cancelled"}

Capped(s) == Cardinality(Ids(s)) <= MAX_TASKS
=============================================================================
