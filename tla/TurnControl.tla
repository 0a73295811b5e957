---------------------------- MODULE TurnControl ----------------------------
(***************************************************************************)
(* The controls one turn runs under (lib/runtime/turnControl.ts): one stop  *)
(* reason and one count of model calls, shared by every agent of the turn   *)
(* through an AsyncLocalStorage.  SyndicateTurn composes them with the      *)
(* agents; traceLlmGeneration is where each model call meets them.          *)
(***************************************************************************)
EXTENDS Naturals

CONSTANT MaxLlmCalls   \* the turn's ceiling: max_steps, or the caller's

ASSUME TurnControlAssumption == MaxLlmCalls \in Nat \ {0}

VARIABLES
    stopReason,  \* why the turn was stopped, "none" while it was not
    llmCalls,    \* model calls charged so far
    tokens       \* calls whose tokens were charged so far

controlVars == <<stopReason, llmCalls, tokens>>

TurnStopReason == {"canceled", "deadline", "step_limit"}

\* createTurnControl, with an outer signal that may have fired already.
ControlInit(aborted) ==
    /\ stopReason = IF aborted THEN "canceled" ELSE "none"
    /\ llmCalls = 0
    /\ tokens = 0

(* Plausible bug: the last reason wins. *)
StopLast(reason) == stopReason' = reason

\* The first reason wins.
Stop(reason) == stopReason' = IF stopReason = "none" THEN reason ELSE stopReason

StopCode == [r \in TurnStopReason |->
                CASE r = "step_limit" -> "STEP_LIMIT"
                  [] r = "deadline"   -> "DEADLINE_EXCEEDED"
                  [] r = "canceled"   -> "CANCELED"]

(* Plausible bugs: a stopped turn goes on; one call too many. *)
MayCallStopped == llmCalls < MaxLlmCalls
MayCallOneMore == stopReason = "none" /\ llmCalls <= MaxLlmCalls

MayCall == stopReason = "none" /\ llmCalls < MaxLlmCalls

\* chargeLlmCall: the call goes ahead, or is refused and stops the turn.
ChargeLlmCall ==
    /\ MayCall
    /\ llmCalls' = llmCalls + 1
    /\ UNCHANGED <<stopReason, tokens>>

RefuseLlmCall ==
    /\ ~MayCall
    /\ Stop("step_limit")
    /\ UNCHANGED <<llmCalls, tokens>>

\* chargeTokens, as a call that reported its usage finishes.
ChargeTokens(n) == tokens' = tokens + n
=============================================================================
