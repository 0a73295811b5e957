---------------------------- MODULE DurableTasks ----------------------------
(* The durable A2A task table and a client that pages through it, newest   *)
(* first, while the server goes on saving tasks. A row is keyed by tenant, *)
(* owner, agent and id; here one tenant and agent, several owners. A row's *)
(* timestamp is empty ("" is 0) until its task has a status.               *)
EXTENDS Integers, Sequences, FiniteSets, SequencesExt

CONSTANTS TaskIds,   \* natural numbers, compared as the ids are
          Owners, PageSize,
          MaxSaves   \* bound: saves, and so timestamps

ASSUME TaskIdsAssumption == TaskIds \subseteq Nat /\ PageSize \in Nat \ {0} /\ MaxSaves \in Nat

VARIABLES
  rows,    \* the table: owner and id to [ts, state]
  lastSave,   \* the timestamp of the last save
  walk     \* the client: its filter, cursor, the ids it was given, in order

taskTableVars == <<rows, lastSave, walk>>

TaskStates == {"working", "completed"}
NoCursor == <<>>

TaskTableInit ==
  /\ rows = [k \in {} |-> 0]
  /\ lastSave = 0
  /\ walk = [phase |-> "idle", owner |-> CHOOSE o \in Owners : TRUE, state |-> "any",
             cursor |-> NoCursor, seen |-> <<>>, due |-> {}]

Saved(key, state, ts) == [ts |-> ts, state |-> state]

(* save, with the status timestamp of now, of the last save's instant, or  *)
(* none.                                                                   *)
SaveTask(owner, id, state, ts) ==
  LET key == <<owner, id>> IN
  /\ ts \in {0, lastSave, lastSave + 1} /\ ts <= MaxSaves
  /\ lastSave' = IF ts > lastSave THEN ts ELSE lastSave
  /\ rows' = [k \in DOMAIN rows \cup {key} |-> IF k = key THEN Saved(key, state, ts) ELSE rows[k]]
  /\ walk' = [walk EXCEPT !.due = IF owner = walk.owner THEN @ \ {id} ELSE @]

Mine == {id \in TaskIds : /\ <<walk.owner, id>> \in DOMAIN rows
                          /\ walk.state \in {"any", rows[<<walk.owner, id>>].state}}
TaskKey(id) == <<rows[<<walk.owner, id>>].ts, id>>

(* Plausible bug: rows of one instant are told apart by nothing. *)
BeforeByTime(a, b) == a[1] < b[1]
Before(a, b) == a[1] < b[1] \/ (a[1] = b[1] /\ a[2] < b[2])

Beyond == {id \in Mine : walk.cursor = NoCursor \/ Before(TaskKey(id), walk.cursor)}
Ordered == CHOOSE s \in SetToSeqs(Beyond) : \A i, j \in DOMAIN s : i < j => Before(TaskKey(s[j]), TaskKey(s[i]))

Begin(owner, state) ==
  /\ walk.phase = "idle"
  /\ walk' = [phase |-> "walking", owner |-> owner, state |-> state, cursor |-> NoCursor,
              seen |-> <<>>,
              due |-> {id \in TaskIds : /\ <<owner, id>> \in DOMAIN rows
                                        /\ state \in {"any", rows[<<owner, id>>].state}}]
  /\ UNCHANGED <<rows, lastSave>>

(* list: one row more than the page tells whether there is another page.   *)
List ==
  LET page == SubSeq(Ordered, 1, IF Len(Ordered) < PageSize THEN Len(Ordered) ELSE PageSize) IN
  /\ walk.phase = "walking"
  /\ walk' = [walk EXCEPT !.seen = @ \o page,
                !.phase = IF Len(Ordered) > PageSize THEN "walking" ELSE "ended",
                !.cursor = IF page = <<>> THEN NoCursor ELSE TaskKey(Last(page))]
  /\ UNCHANGED <<rows, lastSave>>

TaskTableNext ==
  \/ \E owner \in Owners, id \in TaskIds, state \in TaskStates, ts \in 0 .. MaxSaves :
        SaveTask(owner, id, state, ts)
  \/ \E owner \in Owners, state \in TaskStates \cup {"any"} : Begin(owner, state)
  \/ List

TaskTableSpec == TaskTableInit /\ [][TaskTableNext]_taskTableVars

(* A task nobody saved since the client's first page is given to it once,  *)
(* whatever else was saved between the pages; a task that is another       *)
(* owner's never is.                                                       *)
PagesMissNothing ==
  /\ walk.phase = "ended" =>
       \A id \in walk.due : Cardinality({i \in 1 .. Len(walk.seen) : walk.seen[i] = id}) = 1
  /\ \A i \in 1 .. Len(walk.seen) : <<walk.owner, walk.seen[i]>> \in DOMAIN rows
=============================================================================
