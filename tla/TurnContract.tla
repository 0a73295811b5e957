---------------------------- MODULE TurnContract ----------------------------
(***************************************************************************)
(* What the executor relies on when it awaits runSyndicateTurn: the turn    *)
(* spends model calls while it runs and none afterwards, returns or throws  *)
(* once, completes only if nobody had cut it short by then, and is canceled *)
(* only if somebody had.  Executor's ModelCall, TurnReturns and TurnThrows  *)
(* are these steps; SyndicateTurn implements them.                          *)
(***************************************************************************)
EXTENDS Naturals

VARIABLES
    turn,   \* "running", the status returned, or "threw"
    spent,  \* model calls
    cut     \* the caller aborted the turn's signal

contractVars == <<turn, spent, cut>>

Init ==
    /\ turn = "running"
    /\ spent = 0
    /\ cut \in BOOLEAN

Spend ==
    /\ turn = "running"
    /\ spent' = spent + 1
    /\ UNCHANGED <<turn, cut>>

Return(s) ==
    /\ turn = "running"
    /\ s = "completed" => ~cut
    /\ s = "canceled" => cut
    /\ turn' = s
    /\ UNCHANGED <<spent, cut>>

Cut ==
    /\ cut' = TRUE
    /\ UNCHANGED <<turn, spent>>

Next ==
    \/ Spend
    \/ \E s \in {"completed", "failed", "canceled", "threw"} : Return(s)
    \/ Cut

Spec == Init /\ [][Next]_contractVars
=============================================================================
