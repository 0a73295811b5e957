--------------------------- MODULE TaskListProofs ---------------------------
(***************************************************************************)
(* The task list, for every MAX_TASKS, MAX_ATTEMPTS, number of tool calls   *)
(* and number of worker deaths: what each operation of the store keeps      *)
(* (one lemma for each `change` that mutate() is given, of TaskStore        *)
(* alone), then the queue with its worker, where a write is one step, and   *)
(* last the two processes that read and write in two steps.                 *)
(***************************************************************************)
EXTENDS TaskRace, FiniteSetTheorems, WellFoundedInduction, TLAPS

\* A store a reader of the file can rely on.
Sound(s) == WellFormed(s) /\ Capped(s) /\ RetryBudget(s) /\ OutcomeAgrees(s)

\* The statuses task_update takes.
Asked == {"none", "open", "done", "cancelled", "queued"}

(***************************************************************************)
(* The empty store is sound.                                                *)
(***************************************************************************)
LEMMA EmptySound == Sound(emptyStore)
<1>1. Ids(emptyStore) = {}
  BY DEF Ids, emptyStore
<1>2. WellFormed(emptyStore)
  BY <1>1 DEF WellFormed, emptyStore, Ids
<1>3. Capped(emptyStore)
  BY <1>1, FS_EmptySet, LimitsAssumption DEF Capped
<1>4. RetryBudget(emptyStore) /\ OutcomeAgrees(emptyStore)
  BY <1>1 DEF RetryBudget, OutcomeAgrees, Jobs
<1> QED BY <1>2, <1>3, <1>4 DEF Sound

(***************************************************************************)
(* The ids of a well-formed store are finitely many.                        *)
(***************************************************************************)
LEMMA IdsFinite ==
  ASSUME NEW s, WellFormed(s)
  PROVE  /\ IsFiniteSet(Ids(s))
         /\ Cardinality(Ids(s)) \in Nat
<1>1. s.next_id - 1 \in Int /\ Ids(s) \subseteq 1 .. s.next_id - 1
  BY DEF WellFormed
<1>2. IsFiniteSet(1 .. s.next_id - 1)
  BY <1>1, FS_Interval
<1>3. IsFiniteSet(Ids(s))
  BY <1>1, <1>2, FS_Subset
<1> QED BY <1>3, FS_CardinalityType

(***************************************************************************)
(* Replacing one record by one that keeps its kind, its retry budget and    *)
(* the agreement of its outcome keeps the store sound.                      *)
(***************************************************************************)
RecordSound(r) ==
    /\ r \in TaskRecord
    /\ r.kind = "background" =>
         /\ r.attempts <= MAX_ATTEMPTS
         /\ r.status = "queued" => r.attempts < MAX_ATTEMPTS
         /\ r.status = "running" => r.attempts >= 1
         /\ r.status = "done" => r.result /\ ~r.error
         /\ r.status = "failed" => r.error
         /\ r.status \in {"queued", "running"} => ~r.error
    /\ r.kind # "background" => r.status \in {"open", "done", "cancelled"}

SoundByRecord(s) ==
    /\ s = [next_id |-> s.next_id, tasks |-> s.tasks]
    /\ s.next_id \in Nat \ {0}
    /\ s.tasks = [i \in Ids(s) |-> s.tasks[i]]
    /\ Ids(s) \subseteq 1 .. s.next_id - 1
    /\ Capped(s)
    /\ \A i \in Ids(s) : RecordSound(s.tasks[i])

LEMMA SoundMeans ==
  ASSUME NEW s
  PROVE  Sound(s) <=> SoundByRecord(s)
BY DEF SoundByRecord, Sound, WellFormed, RetryBudget, OutcomeAgrees, RecordSound, Jobs, Ids

(***************************************************************************)
(* The worker's and the user's changes to one record keep it sound.         *)
(***************************************************************************)
LEMMA UpdatedRecordSound ==
  ASSUME NEW r, RecordSound(r), NEW status \in Asked, NEW now \in Nat,
         status # "none" =>
           /\ status \in Allowed(r.kind)
           /\ r.kind = "background" => r.status # "running"
  PROVE  LET u == UpdatedRecord(r, status, now) IN
           /\ RecordSound(u)
           /\ u.status = "running" <=> r.status = "running"
<1> DEFINE u == UpdatedRecord(r, status, now)
<1>1. r \in TaskRecord
  BY DEF RecordSound
<1>2. CASE status = "none"
  <2>1. u = [r EXCEPT !.updated = now]
    BY <1>2 DEF UpdatedRecord
  <2>2. /\ u \in TaskRecord
        /\ u.kind = r.kind /\ u.status = r.status /\ u.attempts = r.attempts
        /\ u.result = r.result /\ u.error = r.error
    BY <1>1, <2>1 DEF TaskRecord
  <2> HIDE DEF u
  <2>3. RecordSound(u)
    BY <2>2 DEF RecordSound
  <2> QED BY <2>2, <2>3 DEF u
<1>3. CASE status = "queued"
  <2>1. u = [r EXCEPT !.status = "queued", !.attempts = 0, !.error = FALSE, !.updated = now]
    BY <1>3 DEF UpdatedRecord
  <2> HIDE DEF u
  <2>2. /\ u \in TaskRecord
        /\ u.status = "queued" /\ u.attempts = 0 /\ ~u.error
    <3>1. "queued" \in TaskStatus /\ 0 \in Nat /\ FALSE \in BOOLEAN
      BY DEF TaskStatus
    <3>2. u \in TaskRecord
      BY <1>1, <2>1, <3>1 DEF TaskRecord
    <3>3. u.status = "queued" /\ u.attempts = 0
      BY <1>1, <2>1 DEF TaskRecord
    <3>4. ~u.error
      BY <1>1, <2>1 DEF TaskRecord
    <3> QED BY <3>2, <3>3, <3>4
  <2>3. r.kind = "background" /\ r.status # "running" /\ u.kind = r.kind
    BY <1>1, <1>3, <2>1 DEF TaskRecord, TaskKind, Allowed
  <2>4. RecordSound(u)
    BY <2>2, <2>3, LimitsAssumption DEF RecordSound
  <2> QED BY <2>2, <2>3, <2>4 DEF u
<1>4. CASE status \notin {"none", "queued"}
  <2>1. u = [r EXCEPT !.status = status, !.updated = now]
    BY <1>4 DEF UpdatedRecord
  <2>2. /\ u \in TaskRecord
        /\ u.kind = r.kind /\ u.status = status /\ u.attempts = r.attempts
    BY <1>1, <1>4, <2>1 DEF TaskRecord, TaskStatus, Asked
  <2>3. /\ status \in {"open", "done", "cancelled"}
        /\ r.kind = "background" => status = "cancelled" /\ r.status # "running"
    BY <1>1, <1>4 DEF Asked, Allowed, TaskRecord, TaskKind
  <2>4. r.kind # "background" => r.status # "running"
    BY DEF RecordSound
  <2> HIDE DEF u
  <2>5. RecordSound(u)
    BY <2>2, <2>3, <1>1 DEF RecordSound
  <2> QED BY <2>2, <2>3, <2>4, <2>5 DEF u
<1> QED BY <1>2, <1>3, <1>4

LEMMA RecoveredRecordSound ==
  ASSUME NEW r, RecordSound(r), r.kind = "background", r.status = "running", NEW now \in Nat
  PROVE  LET u == RecoveredRecord(r, now) IN RecordSound(u) /\ u.status # "running"
<1> DEFINE u == RecoveredRecord(r, now)
<1>1. /\ r \in TaskRecord
      /\ r.attempts <= MAX_ATTEMPTS
      /\ ~r.error
  BY DEF RecordSound
<1>2. /\ u \in TaskRecord
      /\ u.kind = r.kind
      /\ u.attempts = r.attempts
      /\ \/ u.status = "failed" /\ u.error
         \/ u.status = "queued" /\ u.error = r.error /\ ~(r.attempts >= MAX_ATTEMPTS)
  BY <1>1 DEF RecoveredRecord, TaskRecord, TaskStatus
<1>3. r.attempts \in Nat
  BY <1>1 DEF TaskRecord
<1> HIDE DEF u
<1>4. RecordSound(u)
  BY <1>1, <1>2, <1>3, LimitsAssumption DEF RecordSound
<1> QED BY <1>2, <1>4 DEF u

LEMMA ClaimedRecordSound ==
  ASSUME NEW r, RecordSound(r), r.kind = "background", r.status = "queued", NEW now \in Nat
  PROVE  LET u == ClaimedRecord(r, now) IN RecordSound(u) /\ u.status = "running"
<1> DEFINE u == ClaimedRecord(r, now)
<1>1. /\ r \in TaskRecord
      /\ r.attempts < MAX_ATTEMPTS
      /\ ~r.error
  BY DEF RecordSound
<1>2. r.attempts \in Nat /\ r.attempts + 1 \in Nat
  BY <1>1 DEF TaskRecord
<1>3. u = [r EXCEPT !.status = "running", !.attempts = r.attempts + 1, !.updated = now]
  BY DEF ClaimedRecord
<1> HIDE DEF u
<1>4. /\ u \in TaskRecord
      /\ u.kind = r.kind
      /\ u.status = "running"
      /\ u.attempts = r.attempts + 1
      /\ u.error = r.error
  BY <1>1, <1>2, <1>3 DEF TaskRecord, TaskStatus
<1>5. RecordSound(u)
  BY <1>1, <1>2, <1>4, LimitsAssumption DEF RecordSound
<1> QED BY <1>4, <1>5 DEF u

LEMMA FinishedRecordSound ==
  ASSUME NEW r, RecordSound(r), r.status = "running", NEW ok \in BOOLEAN, NEW now \in Nat
  PROVE  LET u == FinishedRecord(r, ok, now) IN RecordSound(u) /\ u.status # "running"
<1> DEFINE u == FinishedRecord(r, ok, now)
<1>1. /\ r \in TaskRecord
      /\ r.kind = "background"
      /\ r.attempts <= MAX_ATTEMPTS
  BY DEF RecordSound, TaskRecord, TaskKind
<1>2. CASE ok
  <2>1. u = [r EXCEPT !.status = "done", !.result = TRUE, !.error = FALSE, !.updated = now]
    BY <1>2 DEF FinishedRecord
  <2> HIDE DEF u
  <2>2. /\ u \in TaskRecord
        /\ u.kind = r.kind /\ u.attempts = r.attempts
        /\ u.status = "done"
    BY <1>1, <2>1 DEF TaskRecord, TaskStatus
  <2>3. u.result /\ ~u.error
    BY <1>1, <2>1 DEF TaskRecord
  <2>4. RecordSound(u)
    BY <1>1, <2>2, <2>3 DEF RecordSound
  <2> QED BY <2>2, <2>4 DEF u
<1>3. CASE ~ok
  <2>1. u = [r EXCEPT !.status = "failed", !.error = TRUE, !.updated = now]
    BY <1>3 DEF FinishedRecord
  <2> HIDE DEF u
  <2>2. /\ u \in TaskRecord
        /\ u.kind = r.kind /\ u.attempts = r.attempts
        /\ u.status = "failed"
    BY <1>1, <2>1 DEF TaskRecord, TaskStatus
  <2>3. u.error
    BY <1>1, <2>1 DEF TaskRecord
  <2>4. RecordSound(u)
    BY <1>1, <2>2, <2>3 DEF RecordSound
  <2> QED BY <2>2, <2>4 DEF u
<1> QED BY <1>2, <1>3

(***************************************************************************)
(* Replacing records in place, none added and none dropped.                 *)
(***************************************************************************)
LEMMA ReplaceSound ==
  ASSUME NEW s, Sound(s), NEW f, f = [i \in Ids(s) |-> f[i]],
         \A i \in Ids(s) : RecordSound(f[i])
  PROVE  /\ Sound([s EXCEPT !.tasks = f])
         /\ Ids([s EXCEPT !.tasks = f]) = Ids(s)
         /\ [s EXCEPT !.tasks = f].tasks = f
<1> DEFINE t == [s EXCEPT !.tasks = f]
<1>1. s = [next_id |-> s.next_id, tasks |-> s.tasks]
  BY SoundMeans DEF SoundByRecord
<1>2. t = [next_id |-> s.next_id, tasks |-> f]
  BY <1>1
<1>3. t.tasks = f /\ t.next_id = s.next_id
  BY <1>2
<1>4. Ids(t) = Ids(s)
  BY <1>3 DEF Ids
<1>5. Capped(t)
  BY <1>4, SoundMeans DEF SoundByRecord, Capped
<1> HIDE DEF t
<1>6. Sound(t)
  BY <1>2, <1>3, <1>4, <1>5, SoundMeans DEF SoundByRecord
<1> QED BY <1>3, <1>4, <1>6 DEF t

(***************************************************************************)
(* How a store relates to a later one: the counter never goes back, a       *)
(* record that appears takes an id the counter had not reached, and no live *)
(* record is lost.                                                          *)
(***************************************************************************)
Follows(s, t) ==
    /\ t.next_id >= s.next_id
    /\ \A i \in Ids(t) \ Ids(s) : s.next_id <= i /\ i < t.next_id
    /\ \A i \in Ids(s) : s.tasks[i].status \notin FINISHED => i \in Ids(t)

LEMMA SameIdsFollows ==
  ASSUME NEW s, Sound(s), NEW t, t.next_id = s.next_id, Ids(t) = Ids(s)
  PROVE  Follows(s, t)
<1>1. s.next_id \in Nat
  BY SoundMeans DEF SoundByRecord
<1> QED BY <1>1 DEF Follows

(***************************************************************************)
(* addRecord: the list stays within MAX_TASKS, whatever it held, and the    *)
(* records it drops are finished ones.                                      *)
(***************************************************************************)
LEMMA AddSound ==
  ASSUME NEW s, Sound(s), NEW kind \in TaskKind, NEW now \in Nat
  PROVE  LET t == AddRecord(s, kind, now) IN
           /\ Sound(t)
           /\ Follows(s, t)
           /\ InStatus(t, "running") = InStatus(s, "running")
<1> DEFINE t == AddRecord(s, kind, now)
           new == NewRecord(kind, now)
<1>1. /\ s = [next_id |-> s.next_id, tasks |-> s.tasks]
      /\ s.next_id \in Nat \ {0}
      /\ Ids(s) \subseteq 1 .. s.next_id - 1
      /\ Capped(s)
      /\ \A i \in Ids(s) : RecordSound(s.tasks[i])
  BY SoundMeans DEF SoundByRecord
<1>2. s.next_id \notin Ids(s)
  BY <1>1
<1>3. RecordSound(new) /\ new.status \in {"open", "queued"}
  BY LimitsAssumption DEF NewRecord, RecordSound, TaskRecord, TaskKind, TaskStatus
<1>4. /\ Kept(s) \subseteq Ids(s)
      /\ \A i \in Ids(s) : s.tasks[i].status \notin FINISHED => i \in Kept(s)
  BY DEF Kept, Dropped, Finished
<1>5. /\ IsFiniteSet(Kept(s))
      /\ Cardinality(Kept(s)) \in Nat
      /\ Cardinality(Kept(s)) <= MAX_TASKS
  <2>1. IsFiniteSet(Ids(s)) /\ Cardinality(Ids(s)) \in Nat
    BY IdsFinite DEF Sound
  <2>2. IsFiniteSet(Kept(s)) /\ Cardinality(Kept(s)) <= Cardinality(Ids(s))
    BY <2>1, <1>4, FS_Subset
  <2> QED BY <2>1, <2>2, <1>1, FS_CardinalityType, LimitsAssumption DEF Capped
<1>6. CASE Cardinality(Kept(s)) >= MAX_TASKS
  <2>1. /\ t = [next_id |-> s.next_id, tasks |-> [i \in Kept(s) |-> s.tasks[i]]]
        /\ Ids(t) = Kept(s)
    BY <1>1, <1>6 DEF AddRecord, Ids
  <2>2. Capped(t)
    BY <2>1, <1>5 DEF Capped
  <2> HIDE DEF t
  <2>3. Sound(t)
    BY <2>1, <2>2, <1>1, <1>4, SoundMeans DEF SoundByRecord
  <2>4. Follows(s, t)
    BY <2>1, <1>1, <1>4 DEF Follows
  <2>5. InStatus(t, "running") = InStatus(s, "running")
    BY <2>1, <1>4 DEF InStatus, FINISHED
  <2> QED BY <2>3, <2>4, <2>5 DEF t
<1>7. CASE ~(Cardinality(Kept(s)) >= MAX_TASKS)
  <2>1. /\ t = [next_id |-> s.next_id + 1,
                tasks   |-> [i \in Kept(s) \cup {s.next_id} |->
                               IF i = s.next_id THEN new ELSE s.tasks[i]]]
        /\ Ids(t) = Kept(s) \cup {s.next_id}
    BY <1>7 DEF AddRecord, Ids
  <2>2. Cardinality(Ids(t)) = Cardinality(Kept(s)) + 1
    <3>1. s.next_id \notin Kept(s)
      BY <1>2, <1>4
    <3> QED BY <3>1, <2>1, <1>5, FS_AddElement
  <2>3. Capped(t)
    BY <2>2, <1>5, <1>7, LimitsAssumption DEF Capped
  <2> HIDE DEF t, new
  <2>4. Sound(t)
    <3>1. t.next_id = s.next_id + 1 /\ t.next_id \in Nat \ {0}
      BY <2>1, <1>1
    <3>2. /\ t.tasks = [i \in Ids(t) |-> t.tasks[i]]
          /\ \A i \in Kept(s) : t.tasks[i] = s.tasks[i]
          /\ t.tasks[s.next_id] = new
      BY <2>1, <1>2, <1>4
    <3>3. Ids(t) \subseteq 1 .. t.next_id - 1
      BY <3>1, <2>1, <1>1, <1>4
    <3>4. \A i \in Ids(t) : RecordSound(t.tasks[i])
      BY <3>2, <2>1, <1>1, <1>3, <1>4
    <3>5. t = [next_id |-> t.next_id, tasks |-> t.tasks]
      BY <2>1
    <3> QED BY <3>1, <3>2, <3>3, <3>4, <3>5, <2>3, SoundMeans DEF SoundByRecord
  <2>5. Follows(s, t)
    BY <2>1, <1>1, <1>4 DEF Follows
  <2>6. InStatus(t, "running") = InStatus(s, "running")
    BY <2>1, <1>2, <1>3, <1>4 DEF InStatus, FINISHED
  <2> QED BY <2>4, <2>5, <2>6 DEF t
<1> QED BY <1>6, <1>7

(***************************************************************************)
(* task_update: an edit never touches what the worker has in hand.          *)
(***************************************************************************)
LEMMA UpdateSound ==
  ASSUME NEW s, Sound(s), NEW id \in Ids(s), NEW status \in Asked, NEW now \in Nat
  PROVE  LET t == UpdateRecord(s, id, status, now) IN
           /\ Sound(t)
           /\ Follows(s, t)
           /\ InStatus(t, "running") = InStatus(s, "running")
<1> DEFINE t == UpdateRecord(s, id, status, now)
           r == UpdatedRecord(s.tasks[id], status, now)
           f == [s.tasks EXCEPT ![id] = r]
<1>1. CASE ~UpdateAccepted(s, id, status)
  BY <1>1, SameIdsFollows DEF UpdateRecord
<1>2. CASE UpdateAccepted(s, id, status)
  <2>1. /\ s.tasks = [i \in Ids(s) |-> s.tasks[i]]
        /\ \A i \in Ids(s) : RecordSound(s.tasks[i])
    BY SoundMeans DEF SoundByRecord
  <2>2. status # "none" =>
           /\ status \in Allowed(s.tasks[id].kind)
           /\ s.tasks[id].kind = "background" => s.tasks[id].status # "running"
    BY <1>2 DEF UpdateAccepted
  <2>3. RecordSound(r) /\ (r.status = "running" <=> s.tasks[id].status = "running")
    BY <2>1, <2>2, UpdatedRecordSound
  <2>4. t = [s EXCEPT !.tasks = f]
    BY <1>2 DEF UpdateRecord
  <2> HIDE DEF r
  <2>5. f = [i \in Ids(s) |-> f[i]] /\ \A i \in Ids(s) : RecordSound(f[i])
    BY <2>1, <2>3
  <2>6. Sound(t) /\ Ids(t) = Ids(s) /\ t.tasks = f
    BY <2>4, <2>5, ReplaceSound
  <2>7. t.next_id = s.next_id
    BY <2>4, SoundMeans DEF SoundByRecord
  <2>8. InStatus(t, "running") = InStatus(s, "running")
    BY <2>1, <2>3, <2>6 DEF InStatus
  <2> HIDE DEF t
  <2> QED BY <2>6, <2>7, <2>8, SameIdsFollows DEF t
<1> QED BY <1>1, <1>2

(***************************************************************************)
(* recoverInterruptedJobs: nothing is left running that a worker could      *)
(* have died with, and no job is put back more often than MAX_ATTEMPTS.     *)
(***************************************************************************)
LEMMA RecoverSound ==
  ASSUME NEW s, Sound(s), NEW now \in Nat
  PROVE  LET t == RecoverInterruptedJobs(s, now) IN
           /\ Sound(t)
           /\ Follows(s, t)
           /\ InStatus(t, "running") = InStatus(s, "running") \ Interrupted(s)
<1> DEFINE t == RecoverInterruptedJobs(s, now)
           f == [i \in Ids(s) |-> IF i \in Interrupted(s) THEN RecoveredRecord(s.tasks[i], now)
                                                         ELSE s.tasks[i]]
<1>1. \A i \in Ids(s) : RecordSound(s.tasks[i])
  BY SoundMeans DEF SoundByRecord
<1>2. \A i \in Interrupted(s) :
         /\ RecordSound(RecoveredRecord(s.tasks[i], now))
         /\ RecoveredRecord(s.tasks[i], now).status # "running"
  BY <1>1, RecoveredRecordSound DEF Interrupted, InStatus, Jobs
<1>3. t = [s EXCEPT !.tasks = f]
  BY DEF RecoverInterruptedJobs
<1>4. f = [i \in Ids(s) |-> f[i]] /\ \A i \in Ids(s) : RecordSound(f[i])
  BY <1>1, <1>2
<1>5. Sound(t) /\ Ids(t) = Ids(s) /\ t.tasks = f
  BY <1>3, <1>4, ReplaceSound, ZenonT(60)
<1>6. t.next_id = s.next_id
  BY <1>3, SoundMeans DEF SoundByRecord
<1>7. InStatus(t, "running") = InStatus(s, "running") \ Interrupted(s)
  BY <1>2, <1>5 DEF InStatus
<1> HIDE DEF t
<1> QED BY <1>5, <1>6, <1>7, SameIdsFollows DEF t

(***************************************************************************)
(* claimNextJob: one queued job, and it has an attempt left.                *)
(***************************************************************************)
LEMMA ClaimSound ==
  ASSUME NEW s, Sound(s), NEW id \in Claimable(s), NEW now \in Nat
  PROVE  LET t == ClaimJob(s, id, now) IN
           /\ Sound(t)
           /\ Follows(s, t)
           /\ InStatus(t, "running") = InStatus(s, "running") \cup {id}
<1> DEFINE t == ClaimJob(s, id, now)
           r == ClaimedRecord(s.tasks[id], now)
           f == [s.tasks EXCEPT ![id] = r]
<1>1. /\ s.tasks = [i \in Ids(s) |-> s.tasks[i]]
      /\ \A i \in Ids(s) : RecordSound(s.tasks[i])
  BY SoundMeans DEF SoundByRecord
<1>2. /\ id \in Ids(s)
      /\ s.tasks[id].status = "queued"
      /\ s.tasks[id].kind = "background"
  BY DEF Claimable, InStatus, Jobs
<1>3. RecordSound(r) /\ r.status = "running"
  BY <1>1, <1>2, ClaimedRecordSound
<1>4. t = [s EXCEPT !.tasks = f]
  BY DEF ClaimJob
<1> HIDE DEF r
<1>5. f = [i \in Ids(s) |-> f[i]] /\ \A i \in Ids(s) : RecordSound(f[i])
  BY <1>1, <1>3
<1>6. Sound(t) /\ Ids(t) = Ids(s) /\ t.tasks = f
  BY <1>4, <1>5, ReplaceSound
<1>7. t.next_id = s.next_id
  BY <1>4, SoundMeans DEF SoundByRecord
<1>8. InStatus(t, "running") = InStatus(s, "running") \cup {id}
  BY <1>1, <1>2, <1>3, <1>6 DEF InStatus
<1> HIDE DEF t
<1> QED BY <1>6, <1>7, <1>8, SameIdsFollows DEF t

(***************************************************************************)
(* finishJob: the record, if it is still running, gets its outcome.         *)
(***************************************************************************)
LEMMA FinishSound ==
  ASSUME NEW s, Sound(s), NEW id, NEW ok \in BOOLEAN, NEW now \in Nat
  PROVE  LET t == FinishJob(s, id, ok, now) IN
           /\ Sound(t)
           /\ Follows(s, t)
           /\ InStatus(t, "running") = InStatus(s, "running") \ {id}
<1> DEFINE t == FinishJob(s, id, ok, now)
           r == FinishedRecord(s.tasks[id], ok, now)
           f == [s.tasks EXCEPT ![id] = r]
<1>1. CASE id \notin InStatus(s, "running")
  BY <1>1, SameIdsFollows DEF FinishJob
<1>2. CASE id \in InStatus(s, "running")
  <2>1. /\ s.tasks = [i \in Ids(s) |-> s.tasks[i]]
        /\ \A i \in Ids(s) : RecordSound(s.tasks[i])
    BY SoundMeans DEF SoundByRecord
  <2>2. id \in Ids(s)
    BY <1>2 DEF InStatus
  <2>3. RecordSound(r) /\ r.status # "running"
    BY <1>2, <2>1, <2>2, FinishedRecordSound DEF InStatus
  <2>4. t = [s EXCEPT !.tasks = f]
    BY <1>2 DEF FinishJob
  <2> HIDE DEF r
  <2>5. f = [i \in Ids(s) |-> f[i]] /\ \A i \in Ids(s) : RecordSound(f[i])
    BY <2>1, <2>3
  <2>6. Sound(t) /\ Ids(t) = Ids(s) /\ t.tasks = f
    BY <2>4, <2>5, ReplaceSound
  <2>7. t.next_id = s.next_id
    BY <2>4, SoundMeans DEF SoundByRecord
  <2>8. InStatus(t, "running") = InStatus(s, "running") \ {id}
    BY <2>1, <2>3, <2>6 DEF InStatus
  <2> HIDE DEF t
  <2> QED BY <2>6, <2>7, <2>8, SameIdsFollows DEF t
<1> QED BY <1>1, <1>2

(***************************************************************************)
(* TaskQueue. The invariant that is inductive is the conjunction of its     *)
(* properties: a job the worker has in hand is the only one running         *)
(* (OneJobInHand), so what a worker that starts finds running is an orphan, *)
(* and recovering it leaves none; and the store is Sound, which each        *)
(* operation keeps.                                                         *)
(***************************************************************************)
(***************************************************************************)
(* The writes, one lemma for each action that calls mutate().  `base` is    *)
(* the store the action read: TaskQueue gives the current one, TaskRace one *)
(* read earlier.                                                            *)
(***************************************************************************)
LEMMA ChatWrites ==
  ASSUME NEW base, Sound(base), clock \in Nat, Chat(base)
  PROVE  /\ Sound(store')
         /\ Follows(base, store')
         /\ InStatus(store', "running") = InStatus(base, "running")
         /\ clock' \in Nat
         /\ chats < MaxChat /\ chats' = chats + 1
         /\ UNCHANGED <<stops, worker>>
<1>1. PICK now \in Now : TaskAdd(base, now) \/ TaskQueueTool(base, now) \/ TaskUpdate(base, now)
  BY DEF Chat
<1>2. now \in Nat
  BY DEF Now
<1>3. CASE TaskAdd(base, now)
  <2>1. store' = AddRecord(base, "todo", now) /\ "todo" \in TaskKind
    BY <1>3 DEF TaskAdd, ChatCall, TaskKind
  <2> QED BY <1>2, <1>3, <2>1, AddSound DEF TaskAdd, ChatCall
<1>4. CASE TaskQueueTool(base, now)
  <2>1. store' = AddRecord(base, "background", now) /\ "background" \in TaskKind
    BY <1>4 DEF TaskQueueTool, ChatCall, TaskKind
  <2> QED BY <1>2, <1>4, <2>1, AddSound DEF TaskQueueTool, ChatCall
<1>5. CASE TaskUpdate(base, now)
  <2>1. PICK id \in Ids(base), status \in Asked :
          ChatCall(base, UpdateRecord(base, id, status, now), now)
    BY <1>5 DEF TaskUpdate, Asked
  <2> QED BY <1>2, <2>1, UpdateSound DEF ChatCall
<1> QED BY <1>1, <1>3, <1>4, <1>5

LEMMA OnlyJobsRun ==
  ASSUME NEW s, Sound(s)
  PROVE  Interrupted(s) = InStatus(s, "running")
<1>1. \A i \in Ids(s) \ Jobs(s) : s.tasks[i].status # "running"
  BY DEF Sound, OutcomeAgrees
<1> QED BY <1>1 DEF Interrupted, InStatus

LEMMA StartWrites ==
  ASSUME NEW base, Sound(base), clock \in Nat, StartWorker(base)
  PROVE  /\ Sound(store')
         /\ Follows(base, store')
         /\ InStatus(store', "running") = {}
         /\ clock' \in Nat
         /\ worker' \in Worker /\ worker'.up /\ worker'.job = NoJob
         /\ ~worker.up
         /\ UNCHANGED <<chats, stops>>
<1>1. PICK once \in BOOLEAN, now \in Now :
        /\ worker' = [Down EXCEPT !.up = TRUE, !.once = once]
        /\ store' = RecoverInterruptedJobs(base, now)
        /\ clock' = IF Interrupted(base) = {} THEN clock ELSE now
  BY DEF StartWorker
<1>2. now \in Nat
  BY DEF Now
<1>3. /\ Sound(store')
      /\ Follows(base, store')
      /\ InStatus(store', "running") = {}
  BY <1>1, <1>2, RecoverSound, OnlyJobsRun
<1>4. clock' \in Nat
  BY <1>1, <1>2
<1>5. worker' \in Worker /\ worker'.up /\ worker'.job = NoJob
  BY <1>1 DEF Down, Worker, NoJob
<1> QED BY <1>3, <1>4, <1>5 DEF StartWorker

\* Array.find finds a claimable job whenever there is one.
LEMMA Least ==
  ASSUME NEW S, S \subseteq Nat, S # {}
  PROVE  \E i \in S : \A j \in S : i <= j
<1> DEFINE R == OpToRel(<, Nat)
<1>1. IsWellFoundedOn(R, Nat)
  BY NatLessThanWellFounded
<1>2. \A i, j \in Nat : <<j, i>> \notin R => i <= j
  BY DEF OpToRel
<1> HIDE DEF R
<1>3. PICK i \in S : \A j \in S : ~(<<j, i>> \in R)
  BY <1>1, WFMin
<1>4. \A j \in S : i <= j
  <2> TAKE j \in S
  <2>1. i \in Nat /\ j \in Nat /\ <<j, i>> \notin R
    BY <1>3
  <2> QED BY <2>1, <1>2
<1> QED BY <1>4

LEMMA NextJobClaimable ==
  ASSUME NEW s, Sound(s), Claimable(s) # {}
  PROVE  NextJob(s) \in Claimable(s) /\ NextJob(s) \in Nat \ {0}
<1>1. s.next_id \in Nat \ {0} /\ Ids(s) \subseteq 1 .. s.next_id - 1
  BY DEF Sound, WellFormed
<1>2. Ids(s) \subseteq Nat \ {0}
  BY <1>1
<1>3. Claimable(s) \subseteq Ids(s)
  BY DEF Claimable, InStatus
<1>4. \E i \in Claimable(s) : \A j \in Claimable(s) : i <= j
  BY <1>2, <1>3, Least
<1>5. NextJob(s) \in Claimable(s)
  BY <1>4 DEF NextJob
<1> QED BY <1>2, <1>3, <1>5

LEMMA ClaimWrites ==
  ASSUME NEW base, Sound(base), clock \in Nat, worker \in Worker, Claim(base)
  PROVE  /\ Sound(store')
         /\ Follows(base, store')
         /\ InStatus(store', "running") = InStatus(base, "running") \cup {worker'.job}
         /\ clock' \in Nat
         /\ worker' \in Worker /\ worker'.up /\ worker'.job # NoJob
         /\ worker.up /\ worker.job = NoJob /\ ~worker.stopping
         /\ UNCHANGED <<chats, stops>>
<1>1. PICK now \in Now : store' = ClaimJob(base, NextJob(base), now) /\ clock' = now
  BY DEF Claim
<1>2. now \in Nat
  BY DEF Now
<1>3. NextJob(base) \in Claimable(base) /\ NextJob(base) \in Nat \ {0}
  BY NextJobClaimable DEF Claim
<1>4. worker' = [worker EXCEPT !.job = NextJob(base), !.aborted = FALSE]
  BY DEF Claim
<1>5. worker.up /\ worker.job = NoJob /\ ~worker.stopping
  BY DEF Claim, CanClaim
<1>6. worker' \in Worker /\ worker'.up /\ worker'.job = NextJob(base)
  BY <1>3, <1>4, <1>5 DEF Worker
<1>7. /\ Sound(store')
      /\ Follows(base, store')
      /\ InStatus(store', "running") = InStatus(base, "running") \cup {NextJob(base)}
  BY <1>1, <1>2, <1>3, ClaimSound
<1> QED BY <1>1, <1>2, <1>3, <1>5, <1>6, <1>7 DEF Claim, NoJob

LEMMA FinishWrites ==
  ASSUME NEW base, Sound(base), clock \in Nat, worker \in Worker,
         NEW ok \in BOOLEAN, Finish(base, ok)
  PROVE  /\ Sound(store')
         /\ Follows(base, store')
         /\ InStatus(store', "running") = InStatus(base, "running") \ {worker.job}
         /\ clock' \in Nat
         /\ worker' \in Worker /\ worker'.up /\ worker'.job = NoJob
         /\ worker.up /\ worker.job # NoJob
         /\ UNCHANGED <<chats, stops>>
<1>1. PICK now \in Now : store' = FinishJob(base, worker.job, ok, now) /\ clock' = now
  BY DEF Finish
<1>2. now \in Nat
  BY DEF Now
<1>3. worker' = [worker EXCEPT !.job = NoJob, !.aborted = FALSE]
  BY DEF Finish
<1>4. worker' \in Worker /\ worker'.up /\ worker'.job = NoJob
  <2>1. worker.up /\ NoJob \in Nat /\ FALSE \in BOOLEAN
    BY DEF Finish, NoJob
  <2> QED BY <1>3, <2>1 DEF Worker
<1>5. /\ Sound(store')
      /\ Follows(base, store')
      /\ InStatus(store', "running") = InStatus(base, "running") \ {worker.job}
  BY <1>1, <1>2, FinishSound
<1> QED BY <1>1, <1>2, <1>4, <1>5 DEF Finish

(***************************************************************************)
(* The inductive invariant.                                                 *)
(***************************************************************************)
IInv ==
    /\ TypeOK
    /\ Sound(store)
    /\ ~worker.up => worker.job = NoJob
    /\ OneJobInHand
    /\ OneOrphanAtMost

LEMMA DownType == Down \in Worker /\ ~Down.up /\ Down.job = NoJob
BY DEF Down, Worker, NoJob

LEMMA InitInv == Init => IInv
<1> SUFFICES ASSUME Init PROVE IInv
  OBVIOUS
<1>1. Sound(store)
  BY EmptySound DEF Init
<1>2. /\ clock = 0 /\ chats = 0 /\ stops = 0
      /\ worker \in Worker /\ ~worker.up /\ worker.job = NoJob
  BY DownType DEF Init
<1>3. TypeOK
  BY <1>1, <1>2, BoundsAssumption DEF TypeOK, Sound
<1>4. InStatus(store, "running") = {}
  BY DEF Init, emptyStore, InStatus, Ids
<1> QED BY <1>1, <1>2, <1>3, <1>4 DEF IInv, OneJobInHand, OneOrphanAtMost

\* One step: the parts of the invariant, and what the action properties need.
LEMMA StepInv ==
  ASSUME IInv, [Next]_vars
  PROVE  /\ IInv'
         /\ Follows(store, store')
         /\ worker.stopping =>
              InStatus(store', "running") \subseteq InStatus(store, "running")
<1>1. /\ Sound(store)
      /\ clock \in Nat /\ chats \in 0 .. MaxChat /\ stops \in Nat /\ worker \in Worker
      /\ ~worker.up => worker.job = NoJob
      /\ OneJobInHand /\ OneOrphanAtMost
  BY DEF IInv, TypeOK
<1>2. CASE Chat(store)
  <2>1. /\ Sound(store') /\ Follows(store, store')
        /\ InStatus(store', "running") = InStatus(store, "running")
        /\ clock' \in Nat /\ chats < MaxChat /\ chats' = chats + 1
        /\ UNCHANGED <<stops, worker>>
    BY <1>1, <1>2, ChatWrites
  <2>2. TypeOK'
    BY <1>1, <2>1, BoundsAssumption DEF TypeOK, Sound
  <2>3. OneJobInHand' /\ OneOrphanAtMost'
    BY <1>1, <2>1 DEF OneJobInHand, OneOrphanAtMost
  <2> QED BY <1>1, <2>1, <2>2, <2>3 DEF IInv
<1>3. CASE StartWorker(store)
  <2>1. /\ Sound(store') /\ Follows(store, store')
        /\ InStatus(store', "running") = {}
        /\ clock' \in Nat
        /\ worker' \in Worker /\ worker'.up /\ worker'.job = NoJob
        /\ UNCHANGED <<chats, stops>>
    BY <1>1, <1>3, StartWrites
  <2>2. TypeOK'
    BY <1>1, <2>1 DEF TypeOK, Sound
  <2>3. OneJobInHand' /\ OneOrphanAtMost'
    BY <2>1 DEF OneJobInHand, OneOrphanAtMost
  <2> QED BY <2>1, <2>2, <2>3 DEF IInv
<1>4. CASE Claim(store)
  <2>1. /\ Sound(store') /\ Follows(store, store')
        /\ InStatus(store', "running") = InStatus(store, "running") \cup {worker'.job}
        /\ clock' \in Nat
        /\ worker' \in Worker /\ worker'.up /\ worker'.job # NoJob
        /\ worker.up /\ worker.job = NoJob /\ ~worker.stopping
        /\ UNCHANGED <<chats, stops>>
    BY <1>1, <1>4, ClaimWrites
  <2>2. TypeOK'
    BY <1>1, <2>1 DEF TypeOK, Sound
  <2>3. InStatus(store', "running") = {worker'.job}
    BY <1>1, <2>1 DEF OneJobInHand
  <2>4. OneJobInHand' /\ OneOrphanAtMost'
    BY <2>1, <2>3 DEF OneJobInHand, OneOrphanAtMost
  <2> QED BY <2>1, <2>2, <2>4 DEF IInv
<1>5. CASE ClaimNothing(store)
  <2>1. /\ store' = store /\ UNCHANGED <<clock, chats, stops>>
        /\ worker.up /\ worker.job = NoJob
        /\ worker' = Down \/ worker' = worker
    BY <1>5 DEF ClaimNothing, CanClaim
  <2>2. worker' \in Worker /\ worker'.job = NoJob
    BY <1>1, <2>1, DownType
  <2>3. TypeOK'
    BY <1>1, <2>1, <2>2 DEF TypeOK, Sound
  <2>4. OneJobInHand' /\ OneOrphanAtMost'
    BY <1>1, <2>1, <2>2 DEF OneJobInHand, OneOrphanAtMost
  <2> QED BY <1>1, <2>1, <2>2, <2>3, <2>4, SameIdsFollows DEF IInv
<1>6. ASSUME NEW ok \in BOOLEAN, Finish(store, ok)
      PROVE  /\ IInv'
             /\ Follows(store, store')
             /\ InStatus(store', "running") \subseteq InStatus(store, "running")
  <2>1. /\ Sound(store') /\ Follows(store, store')
        /\ InStatus(store', "running") = InStatus(store, "running") \ {worker.job}
        /\ clock' \in Nat
        /\ worker' \in Worker /\ worker'.up /\ worker'.job = NoJob
        /\ worker.up /\ worker.job # NoJob
        /\ UNCHANGED <<chats, stops>>
    BY <1>1, <1>6, FinishWrites
  <2>2. TypeOK'
    BY <1>1, <2>1 DEF TypeOK, Sound
  <2>3. InStatus(store', "running") = {}
    BY <1>1, <2>1 DEF OneJobInHand
  <2>4. OneJobInHand' /\ OneOrphanAtMost'
    BY <2>1, <2>3 DEF OneJobInHand, OneOrphanAtMost
  <2> QED BY <2>1, <2>2, <2>4 DEF IInv
<1>7. CASE Interrupt \/ Terminate
  <2>1. /\ UNCHANGED <<store, clock, chats, stops>>
        /\ worker' \in Worker /\ worker'.up = worker.up /\ worker'.job = worker.job
    BY <1>1, <1>7 DEF Interrupt, Terminate, Signal, Worker, NoJob
  <2>2. TypeOK'
    BY <1>1, <2>1 DEF TypeOK, Sound
  <2>3. OneJobInHand' /\ OneOrphanAtMost'
    BY <1>1, <2>1 DEF OneJobInHand, OneOrphanAtMost
  <2> QED BY <1>1, <2>1, <2>2, <2>3, SameIdsFollows DEF IInv
<1>8. CASE ExitWorker \/ Crash
  <2>1. /\ UNCHANGED <<store, clock, chats>> /\ stops' = stops + 1
        /\ worker' = Down
    BY <1>8 DEF ExitWorker, Crash
  <2>2. worker' \in Worker /\ ~worker'.up /\ worker'.job = NoJob
    BY <2>1, DownType
  <2>3. TypeOK'
    BY <1>1, <2>1, <2>2 DEF TypeOK, Sound
  <2>4. OneJobInHand' /\ OneOrphanAtMost'
    BY <1>1, <2>1, <2>2 DEF OneJobInHand, OneOrphanAtMost
  <2> QED BY <1>1, <2>1, <2>2, <2>3, <2>4, SameIdsFollows DEF IInv
<1>9. CASE UNCHANGED vars
  <2>1. UNCHANGED <<store, clock, chats, stops, worker>>
    BY <1>9 DEF vars
  <2> QED BY <1>1, <2>1, SameIdsFollows DEF IInv, TypeOK, OneJobInHand, OneOrphanAtMost
<1> QED BY <1>2, <1>3, <1>4, <1>5, <1>6, <1>7, <1>8, <1>9 DEF Next

\* The file is well formed, and the chat and worker bookkeeping is typed.
THEOREM TypeCorrect == Spec => []TypeOK
<1>1. IInv => TypeOK
  BY DEF IInv
<1> QED BY <1>1, InitInv, StepInv, PTL DEF Spec

\* The worker never has a job in hand that the file does not show as running,
\* nor the file one the live worker does not have; with no worker, one at most.
THEOREM OneJobAtATime == Spec => []OneJobRuns
<1>1. IInv => OneJobRuns
  BY DEF IInv, OneJobRuns
<1> QED BY <1>1, InitInv, StepInv, PTL DEF Spec

\* However many workers die, no job is run more often than MAX_ATTEMPTS without
\* the user queueing it again; a record's status, result and error tell one
\* story; and addRecord keeps the list within MAX_TASKS whatever it is full of.
THEOREM RecordsAreSound == Spec => []RecordsSound
<1>1. IInv => RecordsSound
  BY DEF IInv, Sound, RecordsSound
<1> QED BY <1>1, InitInv, StepInv, PTL DEF Spec

\* No step of either process drops a record that is not finished, and a new
\* record's id is beyond every id handed out before it.
THEOREM RecordsAreKept == Spec => RecordsKept
<1>1. IInv /\ [Next]_vars => [LiveKept /\ IdsFresh]_vars
  BY StepInv DEF Follows, LiveKept, IdsFresh
<1> QED BY <1>1, InitInv, StepInv, PTL DEF Spec, RecordsKept

\* No tool call of the chat process touches the job in hand, and a worker told
\* to stop claims no more.
THEOREM TheWorkerDecides == Spec => WorkerDecides
<1>1. IInv' /\ worker.job # NoJob /\ worker'.job = worker.job =>
        store'.tasks[worker.job].status = "running"
  BY DEF IInv, OneJobInHand, InStatus
<1>2. IInv /\ [Next]_vars =>
        [/\ worker.job # NoJob /\ worker'.job = worker.job =>
              store'.tasks[worker.job].status = "running"
         /\ worker.stopping =>
              InStatus(store', "running") \subseteq InStatus(store, "running")]_vars
  BY <1>1, StepInv
<1> QED BY <1>2, InitInv, StepInv, PTL DEF Spec, WorkerDecides

(***************************************************************************)
(* TaskRace. Each copy of the store is sound, because each write is an      *)
(* operation applied to a sound copy.                                       *)
(***************************************************************************)
RaceInv ==
    /\ clock \in Nat
    /\ worker \in Worker
    /\ Sound(store)
    /\ view = [p \in Process |-> view[p]]
    /\ \A p \in Process : Inside(p) => Sound(view[p])

LEMMA RaceInitInv == RaceInit => RaceInv
<1> SUFFICES ASSUME RaceInit PROVE RaceInv
  OBVIOUS
<1>1. clock \in Nat /\ worker \in Worker /\ Sound(store)
  BY EmptySound, DownType DEF RaceInit, Init
<1>2. view = [p \in Process |-> NoView] /\ NoView.next_id = 0
  BY DEF RaceInit, NoView, emptyStore
<1>3. \A p \in Process : ~Inside(p)
  BY <1>2 DEF Inside
<1>4. view = [p \in Process |-> view[p]]
  BY <1>2
<1> QED BY <1>1, <1>3, <1>4 DEF RaceInv

LEMMA NoViewOutside == NoView.next_id = 0
BY DEF NoView, emptyStore

\* A process that leaves mutate() is outside; the other is where it was.
LEMMA Leave ==
  ASSUME NEW p \in Process, view = [q \in Process |-> view[q]],
         view' = [view EXCEPT ![p] = NoView]
  PROVE  /\ view' = [q \in Process |-> view'[q]]
         /\ ~Inside(p)'
         /\ \A q \in Process : Inside(q)' => q # p /\ view'[q] = view[q] /\ Inside(q)
<1>1. view'[p] = NoView /\ \A q \in Process : q # p => view'[q] = view[q]
  OBVIOUS
<1> QED BY <1>1, NoViewOutside DEF Inside

\* Reading the file.
LEMMA ReadInv ==
  ASSUME RaceInv, NEW p \in Process, Read(p)
  PROVE  RaceInv'
<1>1. /\ clock \in Nat /\ worker \in Worker /\ Sound(store)
      /\ view = [q \in Process |-> view[q]]
      /\ \A q \in Process : Inside(q) => Sound(view[q])
  BY DEF RaceInv
<1>2. /\ view' = [view EXCEPT ![p] = store]
      /\ UNCHANGED <<store, clock, chats, stops, worker>>
  BY DEF Read, vars
<1>3. view'[p] = store /\ \A q \in Process : q # p => view'[q] = view[q]
  BY <1>1, <1>2
<1>4. view' = [q \in Process |-> view'[q]]
  BY <1>1, <1>2
<1>5. \A q \in Process : Inside(q)' => Sound(view'[q])
  BY <1>1, <1>3 DEF Inside
<1>6. clock' \in Nat /\ worker' \in Worker /\ Sound(store')
  BY <1>1, <1>2
<1> QED BY <1>4, <1>5, <1>6 DEF RaceInv

\* Writing it back: the other process's copy, if it holds one, is as it was.
LEMMA WriteInv ==
  ASSUME RaceInv, NEW p \in Process, Inside(p),
         view' = [view EXCEPT ![p] = NoView],
         clock' \in Nat, worker' \in Worker, Sound(store')
  PROVE  RaceInv'
<1>1. /\ view = [q \in Process |-> view[q]]
      /\ \A q \in Process : Inside(q) => Sound(view[q])
  BY DEF RaceInv
<1>2. /\ view' = [q \in Process |-> view'[q]]
      /\ \A q \in Process : Inside(q)' => q # p /\ view'[q] = view[q] /\ Inside(q)
  BY <1>1, Leave
<1>3. \A q \in Process : Inside(q)' => Sound(view'[q])
  BY <1>1, <1>2
<1> QED BY <1>2, <1>3 DEF RaceInv

\* A step that writes no file and at most forgets a copy.
LEMMA KeepInv ==
  ASSUME RaceInv, worker' \in Worker, UNCHANGED <<store, clock>>,
         UNCHANGED view \/ view' = [view EXCEPT !["worker"] = NoView]
  PROVE  RaceInv'
<1>1. CASE UNCHANGED view
  BY <1>1 DEF RaceInv, Inside
<1>2. CASE view' = [view EXCEPT !["worker"] = NoView]
  <2>1. "worker" \in Process /\ view = [q \in Process |-> view[q]]
    BY DEF Process, RaceInv
  <2>2. /\ view' = [q \in Process |-> view'[q]]
        /\ \A q \in Process : Inside(q)' => view'[q] = view[q] /\ Inside(q)
    BY <1>2, <2>1, Leave
  <2> QED BY <2>2 DEF RaceInv
<1> QED BY <1>1, <1>2

LEMMA RaceStepInv ==
  ASSUME RaceInv, [RaceNext]_raceVars
  PROVE  RaceInv'
<1>1. /\ clock \in Nat /\ worker \in Worker /\ Sound(store)
      /\ \A q \in Process : Inside(q) => Sound(view[q])
      /\ "chat" \in Process /\ "worker" \in Process
  BY DEF RaceInv, Process
<1>2. CASE ReadForChat \/ ReadForWorker
  BY <1>1, <1>2, ReadInv DEF ReadForChat, ReadForWorker
<1>3. CASE Write("chat", Chat(view["chat"]))
  <2>1. Inside("chat") /\ Chat(view["chat"])
    BY <1>3 DEF Write
  <2>2. Sound(store') /\ clock' \in Nat /\ worker' \in Worker
    BY <1>1, <2>1, ChatWrites
  <2> QED BY <1>1, <1>3, <2>1, <2>2, WriteInv DEF Write
<1>4. CASE Write("worker", StartWorker(view["worker"]))
  <2>1. Inside("worker") /\ StartWorker(view["worker"])
    BY <1>4 DEF Write
  <2>2. Sound(store') /\ clock' \in Nat /\ worker' \in Worker
    BY <1>1, <2>1, StartWrites
  <2> QED BY <1>1, <1>4, <2>1, <2>2, WriteInv DEF Write
<1>5. CASE Write("worker", Claim(view["worker"]))
  <2>1. Inside("worker") /\ Claim(view["worker"])
    BY <1>5 DEF Write
  <2>2. Sound(store') /\ clock' \in Nat /\ worker' \in Worker
    BY <1>1, <2>1, ClaimWrites
  <2> QED BY <1>1, <1>5, <2>1, <2>2, WriteInv DEF Write
<1>6. CASE Write("worker", ClaimNothing(view["worker"]))
  <2>1. Inside("worker") /\ ClaimNothing(view["worker"])
    BY <1>6 DEF Write
  <2>2. Sound(store') /\ clock' \in Nat /\ worker' \in Worker
    BY <1>1, <2>1, DownType DEF ClaimNothing
  <2> QED BY <1>1, <1>6, <2>1, <2>2, WriteInv DEF Write
<1>7. CASE Write("worker", \E ok \in BOOLEAN : Finish(view["worker"], ok))
  <2>1. Inside("worker")
    BY <1>7 DEF Write
  <2>2. PICK ok \in BOOLEAN : Finish(view["worker"], ok)
    BY <1>7 DEF Write
  <2>3. Sound(store') /\ clock' \in Nat /\ worker' \in Worker
    BY <1>1, <2>1, <2>2, FinishWrites
  <2> QED BY <1>1, <1>7, <2>1, <2>3, WriteInv DEF Write
<1>8. CASE Handler(Interrupt) \/ Handler(Terminate)
  <2>1. UNCHANGED <<store, clock, view>> /\ worker' \in Worker
    BY <1>1, <1>8 DEF Handler, Interrupt, Terminate, Signal, Worker, NoJob
  <2> QED BY <2>1, KeepInv
<1>9. CASE Handler(ExitWorker) \/ DieAnywhere
  <2>1. UNCHANGED <<store, clock>> /\ worker' = Down
    BY <1>9 DEF Handler, ExitWorker, DieAnywhere, Crash
  <2>2. UNCHANGED view \/ view' = [view EXCEPT !["worker"] = NoView]
    BY <1>9 DEF Handler, DieAnywhere
  <2> QED BY <2>1, <2>2, DownType, KeepInv
<1>10. CASE UNCHANGED raceVars
  <2>1. UNCHANGED <<store, clock, worker, view>>
    BY <1>10 DEF raceVars
  <2> QED BY <1>1, <2>1, KeepInv
<1> QED BY <1>2, <1>3, <1>4, <1>5, <1>6, <1>7, <1>8, <1>9, <1>10 DEF RaceNext

\* Whatever the interleaving of the two processes' reads and writes, the file
\* and every copy of it is a store the operations could have produced.
THEOREM CopiesAreSound == RaceSpec => []EveryCopySound
<1>1. RaceInv => EveryCopySound
  BY DEF RaceInv, EveryCopySound, Sound
<1> QED BY <1>1, RaceInitInv, RaceStepInv, PTL DEF RaceSpec
=============================================================================
