----------------------------- MODULE MCExecutor -----------------------------
(* Executor for TLC.  Three tasks contend where usage is kept in memory;    *)
(* with a table every await of the policy is a place to be overtaken at,    *)
(* and two tasks are enough: the third does not come.                       *)
EXTENDS Executor

CONSTANT Third  \* the task that comes only with usage in memory

MCNext == Next /\ (usage = "table" => pc'[Third] = "new")

MCSpec == Init /\ [][MCNext]_vars /\ Fairness
=============================================================================
