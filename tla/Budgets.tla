------------------------------ MODULE Budgets ------------------------------
(* Daily budgets over a shared usage table: a task is admitted by two      *)
(* reads, its caller's counter and its scope's, and charged by two writes  *)
(* made together when it ends. Days turn over at midnight UTC whatever is  *)
(* in flight.                                                              *)
EXTENDS Naturals, FiniteSets

CONSTANTS BudgetTasks,  \* tasks of one caller
          Scopes,       \* end-user scopes of that caller
          PerCaller, PerScope, \* limits on tasks a day
          MaxDay        \* bound: midnights

ASSUME BudgetsAssumption ==
  /\ IsFiniteSet(BudgetTasks) /\ Scopes # {} /\ "caller" \notin Scopes
  /\ PerCaller \in Nat /\ PerScope \in Nat /\ MaxDay \in Nat

VARIABLES
  day,    \* today
  usage,  \* day -> subject -> tasks charged: the caller's and each scope's
  job     \* each task: phase, scope, the day admit() took and whether a
          \* budget was used up then, the day record() took, the writes that
          \* landed and that failed

budgetVars == <<day, usage, job>>

TheCaller == "caller"
Subjects == Scopes \cup {TheCaller}
Days == 0 .. MaxDay

BudgetInit ==
  /\ day = 0
  /\ usage = [d \in Days |-> [s \in Subjects |-> 0]]
  /\ job = [t \in BudgetTasks |-> [phase |-> "new", scope |-> CHOOSE s \in Scopes : TRUE,
                                   asked |-> 0, full |-> FALSE, ended |-> 0, landed |-> {}, failed |-> {}]]

SetJob(t, new) == job' = [job EXCEPT ![t] = new]

Midnight == day < MaxDay /\ day' = day + 1 /\ UNCHANGED <<usage, job>>

OverBudget(limit, d, subject) == usage[d][subject] >= limit

(* admit takes its day once, before the first read.                        *)
Admit(t, scope) ==
  /\ job[t].phase = "new"
  /\ SetJob(t, [job[t] EXCEPT !.phase = "asking", !.scope = scope, !.asked = day,
                         !.full = OverBudget(PerCaller, day, TheCaller) \/ OverBudget(PerScope, day, scope)])
  /\ UNCHANGED <<day, usage>>

ReadCaller(t) ==
  /\ job[t].phase = "asking"
  /\ SetJob(t, [job[t] EXCEPT !.phase = IF OverBudget(PerCaller, job[t].asked, TheCaller)
                                     THEN "refused" ELSE "callerOk"])
  /\ UNCHANGED <<day, usage>>

ReadScope(t) ==
  /\ job[t].phase = "callerOk"
  /\ SetJob(t, [job[t] EXCEPT !.phase = IF OverBudget(PerScope, job[t].asked, job[t].scope)
                                     THEN "refused" ELSE "running"])
  /\ UNCHANGED <<day, usage>>

(* record: the day again, of its end; then both writes, in either order.   *)
Record(t) ==
  /\ job[t].phase = "running"
  /\ SetJob(t, [job[t] EXCEPT !.phase = "recording", !.ended = day])
  /\ UNCHANGED <<day, usage>>

(* Plausible bug: each write looks at the clock itself. *)
DayOfNow(t) == day
DayOfWrite(t) == job[t].ended

(* melchizedek_usage_add: one statement adds to the row as it stands.      *)
Charged(t, subject) ==
  LET d == DayOfWrite(t) IN
  /\ job[t].phase = "recording" /\ subject \in {TheCaller, job[t].scope} \ (job[t].landed \cup job[t].failed)
  /\ usage' = [usage EXCEPT ![d][subject] = @ + 1]
  /\ SetJob(t, [job[t] EXCEPT !.landed = @ \cup {subject}])
  /\ UNCHANGED day

(* The write fails; the other one is not taken back.                       *)
ChargeFails(t, subject) ==
  /\ job[t].phase = "recording" /\ subject \in {TheCaller, job[t].scope} \ (job[t].landed \cup job[t].failed)
  /\ SetJob(t, [job[t] EXCEPT !.failed = @ \cup {subject}])
  /\ UNCHANGED <<day, usage>>

BudgetNext ==
  \/ Midnight
  \/ \E t \in BudgetTasks :
       \/ \E scope \in Scopes : Admit(t, scope)
       \/ ReadCaller(t) \/ ReadScope(t) \/ Record(t)
       \/ \E subject \in Subjects : Charged(t, subject) \/ ChargeFails(t, subject)

BudgetSpec == BudgetInit /\ [][BudgetNext]_budgetVars

EndedOn(d) == {t \in BudgetTasks : job[t].phase = "recording" /\ job[t].ended = d}

(* A day's counter of a subject is the tasks that ended that day, less the *)
(* writes that failed or are still to land: a task that runs over midnight *)
(* is on one day alone, in both its counters or short of them by its own   *)
(* failures. And a task that asked when a budget of its was used up that   *)
(* day never runs, whatever midnight does between the two reads.           *)
BudgetsBalance ==
  /\ \A d \in Days, s \in Subjects :
       usage[d][s] = Cardinality({t \in EndedOn(d) : s \in job[t].landed})
  /\ \A t \in BudgetTasks : job[t].full => job[t].phase \in {"asking", "callerOk", "refused"}
=============================================================================
