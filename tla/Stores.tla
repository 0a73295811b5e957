------------------------------- MODULE Stores -------------------------------
(* The stores beside the turn that several writers share: the tables of the *)
(* server and its exporter, and the documents and relations of the wiki.    *)
(* What each promises is stated in its own module; together they are what   *)
(* Components checks and the proofs show of their specifications.           *)
EXTENDS DurableTasks, Budgets, Telemetry, WikiBundle, WikiRelations

\* The tables and the exporter: a client that pages through tasks misses none,
\* budgets are charged what ended, and spans are written once or counted as
\* dropped.
TablesAreTrue == PagesMissNothing /\ BudgetsBalance /\ SpansAccounted

\* What the wiki's writers leave behind, whatever steps of theirs come between
\* those of others (wikiTools.ts, build.ts, fill.ts); each part says what it
\* does not promise.
WikiWritesStand == PrivateClosure /\ IndexComplete /\ SavesStand /\ GateAgreesWithLint
=============================================================================
