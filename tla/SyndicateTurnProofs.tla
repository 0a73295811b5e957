------------------------ MODULE SyndicateTurnProofs ------------------------
(***************************************************************************)
(* The safety of a turn for any set of subagents, any ceiling on its model  *)
(* calls and any number of guards, and that it is the turn the executor     *)
(* relies on.                                                               *)
(*                                                                          *)
(* Two facts carry the rest.  A subagent works only while the lead waits    *)
(* for it, unless the turn was stopped (Attended), so nothing charges a     *)
(* call after an unstopped turn returned.  And until it ends, a turn that   *)
(* its caller aborted has a stop reason (Heard).                            *)
(***************************************************************************)
EXTENDS SyndicateTurn, TLAPS

Stage == {"session", "classify", "routed", "dispatch", "remote",
          "delegate", "guards", "returned", "threw"}

Phase == {"off", "ready", "calling", "waiting", "remote"}

Result == [status : {"none", "completed", "failed", "canceled"},
           error : {"none", "provider", "STEP_LIMIT", "DEADLINE_EXCEEDED", "CANCELED"},
           failedStage : {"none", "classify", "delegate", "dispatch"},
           text : Text, llmCalls : Nat, tokens : Nat]

Typed == TypeOK /\ result \in Result

\* The lead runs in the stages that drain an agent, and only there.
LeadPlaced ==
    /\ phase["lead"] # "off" => stage \in {"classify", "dispatch", "delegate"}
    /\ phase["lead"] # "remote"

Attended ==
    stopReason = "none" /\ phase["lead"] # "waiting" => \A b \in Sub : phase[b] = "off"

Heard ==
    /\ stage \notin Ended /\ outer => stopReason # "none"
    /\ stopReason = "canceled" => outer

\* A result that was read just now: it tells of the stop and of the usage.
Told ==
    /\ result \in Result
    /\ stopReason = "none" => /\ result.status \in {"completed", "failed"}
                              /\ result.error \in {"none", "provider"}
    /\ stopReason = "canceled" => result.status = "canceled" /\ result.error = "CANCELED"
    /\ stopReason \notin {"none", "canceled"}
         => result.status = "failed" /\ result.error = StopCode[stopReason]
    /\ result.llmCalls = llmCalls
    /\ stopReason = "none" => result.tokens = tokens

GuardsLeft == stage = "guards" => guards > 0

Base == Typed /\ LeadPlaced /\ Attended /\ Heard /\ GuardsLeft /\ StepLimitExact

IInv == Base /\ (stage = "returned" => Told)

(***************************************************************************)
(* finish() and the end of a run.                                           *)
(***************************************************************************)
LEMMA FinishTells ==
  ASSUME NEW status \in {"completed", "failed"},
         NEW failedStage \in {"none", "classify", "delegate", "dispatch"},
         NEW text \in Text,
         stopReason' \in TurnStopReason \cup {"none"}, llmCalls' \in Nat, tokens' \in Nat,
         Finish(status, failedStage, text)
  PROVE  /\ stage' = "returned" /\ Told'
         /\ result'.status = "completed" => stopReason' = "none"
         /\ result'.status = "canceled" => stopReason' = "canceled"
<1>1. stopReason' \in {"none", "canceled", "deadline", "step_limit"}
  BY DEF TurnStopReason
<1>2. /\ StopCode["step_limit"] = "STEP_LIMIT"
      /\ StopCode["deadline"] = "DEADLINE_EXCEEDED"
      /\ StopCode["canceled"] = "CANCELED"
  BY DEF StopCode, TurnStopReason
<1>3. CASE stopReason' = "none"
  BY <1>3 DEF Finish, Told, Result
<1>4. CASE stopReason' = "canceled"
  BY <1>2, <1>4 DEF Finish, Told, Result
<1>5. CASE stopReason' \in {"deadline", "step_limit"}
  BY <1>2, <1>5 DEF Finish, Told, Result
<1> QED BY <1>1, <1>3, <1>4, <1>5

LEMMA RunEndsTells ==
  ASSUME Typed, NEW error \in BOOLEAN, RunEnds(error),
         stopReason' \in TurnStopReason \cup {"none"}, llmCalls' \in Nat, tokens' \in Nat,
         draft' \in Text
  PROVE  /\ stage' \in {"routed", "guards", "returned"}
         /\ route' \in Sub \cup {"none"}
         /\ result' \in Result
         /\ stage' = "returned" =>
              /\ Told'
              /\ result'.status = "completed" => stopReason' = "none"
              /\ result'.status = "canceled" => stopReason' = "canceled"
         /\ stage = "classify" /\ stage' = "returned" => stopReason' # "none"
         /\ stage' = "guards" => guards > 0
<1> USE DEF Typed, TypeOK
<1>1. AnswerText \in Text
  BY DEF AnswerText, Text
<1>2. "none" \in Text
  BY DEF Text
<1>3. CASE stage = "classify" /\ stopReason' # "none"
  <2>1. Finish("failed", "none", "none") /\ UNCHANGED route
    BY <1>3 DEF RunEnds, Classified
  <2> QED BY <1>2, <1>3, <2>1, FinishTells DEF Told
<1>4. CASE stage = "classify" /\ stopReason' = "none"
  BY <1>4, SyndicateTurnAssumption DEF RunEnds, Classified
<1>5. CASE stage # "classify"
  <2> DEFINE failedAt == IF stage = "delegate" THEN "delegate" ELSE "dispatch"
  <2>1. UNCHANGED route
    BY <1>5 DEF RunEnds, Answered
  <2>2. CASE error \/ stopReason' # "none"
    <3>1. Finish("failed", failedAt, "none")
      BY <1>5, <2>2 DEF RunEnds, Answered
    <3>2. failedAt \in {"none", "classify", "delegate", "dispatch"}
      OBVIOUS
    <3> HIDE DEF failedAt
    <3> QED BY <1>2, <1>5, <2>1, <3>1, <3>2, FinishTells DEF Told
  <2>3. CASE ~(error \/ stopReason' # "none") /\ AnswerText # "none" /\ guards > 0
    <3>1. stage' = "guards" /\ result' = [result EXCEPT !.text = AnswerText]
      BY <1>5, <2>3 DEF RunEnds, Answered
    <3>2. result' \in Result
      BY <1>1, <3>1 DEF Result
    <3> QED BY <1>5, <2>1, <2>3, <3>1, <3>2
  <2>4. CASE ~(error \/ stopReason' # "none") /\ ~(AnswerText # "none" /\ guards > 0)
    <3>1. Finish("completed", "none", AnswerText)
      BY <1>5, <2>4 DEF RunEnds, Answered
    <3> QED BY <1>1, <1>5, <2>1, <3>1, FinishTells DEF Told
  <2> QED BY <2>2, <2>3, <2>4
<1> QED BY <1>3, <1>4, <1>5

(***************************************************************************)
(* The invariant.                                                           *)
(***************************************************************************)
LEMMA InitInv == Init => IInv
<1> SUFFICES ASSUME Init PROVE IInv
  OBVIOUS
<1>1. stopReason \in {"none", "canceled"} /\ (outer <=> stopReason = "canceled")
  BY DEF Init, ControlInit
<1>2. Typed
  <2>1. NoResult \in Result /\ "none" \in Text
    BY DEF NoResult, Result, Text
  <2>2. guards \in Nat
    BY SyndicateTurnAssumption DEF Init
  <2>3. phase \in [Agent -> Phase]
    BY DEF Init, Phase
  <2> QED BY <1>1, <2>1, <2>2, <2>3
          DEF Init, ControlInit, Typed, TypeOK, TurnStopReason, NoResult, Phase
<1>3. LeadPlaced /\ Attended
  BY DEF Init, LeadPlaced, Attended, Agent
<1>4. Heard /\ StepLimitExact
  BY <1>1, TurnControlAssumption DEF Init, ControlInit, Heard, StepLimitExact, Ended
<1>5. stage # "returned" /\ GuardsLeft
  BY DEF Init, GuardsLeft
<1> QED BY <1>2, <1>3, <1>4, <1>5 DEF IInv, Base

\* What every end of a run has in common.
LEMMA LeadEnds ==
  ASSUME Base, stage \notin Ended, NEW error \in BOOLEAN, RunEnds(error),
         UNCHANGED <<dispatch, outer, guards, llmCalls>>,
         stopReason' \in TurnStopReason \cup {"none"}, StepLimitExact',
         stopReason # "none" => stopReason' = stopReason,
         stopReason' = "canceled" => stopReason = "canceled",
         stopReason' = "none" => \A b \in Sub : phase[b] = "off",
         phase' \in [Agent -> Phase], phase'["lead"] = "off",
         \A b \in Sub : phase'[b] = phase[b],
         tokens' \in Nat, draft' \in Text, last' \in Text,
         tools' \in {"unused", "used", "text"}
  PROVE  IInv'
<1>1. /\ stage' \in {"routed", "guards", "returned"}
      /\ route' \in Sub \cup {"none"}
      /\ result' \in Result
      /\ stage' = "returned" => Told'
      /\ stage' = "guards" => guards > 0
  BY RunEndsTells DEF Base, Typed, TypeOK
<1>2. Typed'
  BY <1>1 DEF Base, Typed, TypeOK, Phase, Result
<1>3. LeadPlaced' /\ Attended' /\ Heard' /\ GuardsLeft'
  BY <1>1 DEF Base, LeadPlaced, Attended, Heard, GuardsLeft, Ended
<1> QED BY <1>1, <1>2, <1>3 DEF IInv, Base

\* Steps that leave the lead where it runs and the result alone.
LEMMA SessionKeeps == IInv /\ (SessionReady \/ StartRoute \/ TurnThrows) => IInv'
<1> SUFFICES ASSUME IInv, SessionReady \/ StartRoute \/ TurnThrows PROVE IInv'
  OBVIOUS
<1> USE DEF IInv, Base
<1>1. /\ stage \in {"session", "routed"}
      /\ UNCHANGED <<controlVars, dispatch, outer, guards, result>>
  BY DEF SessionReady, StartRoute, TurnThrows
<1>2. /\ stage' \in {"classify", "routed", "dispatch", "remote", "delegate", "threw"}
      /\ route' \in Sub \cup {"none"}
      /\ \/ UNCHANGED <<phase, runVars>>
         \/ StartRun(stage')
  BY DEF SessionReady, StartRoute, TurnThrows, StartRun, Typed, TypeOK
<1>3. phase["lead"] = "off" /\ "lead" \in Agent /\ \A b \in Sub : b # "lead" /\ b \in Agent
  BY <1>1, SyndicateTurnAssumption DEF LeadPlaced, Agent
<1>4. stage' # "returned" /\ StepLimitExact' /\ Heard' /\ GuardsLeft'
  BY <1>1, <1>2 DEF StepLimitExact, Heard, GuardsLeft, controlVars, Ended
<1>5. CASE UNCHANGED <<phase, runVars>>
  BY <1>1, <1>2, <1>3, <1>4, <1>5
  DEF Typed, TypeOK, LeadPlaced, Attended, controlVars, runVars
<1>6. CASE StartRun(stage')
  <2>1. /\ phase' \in [Agent -> Phase]
        /\ \A b \in Sub : phase'[b] = phase[b]
        /\ phase'["lead"] = IF stage' = "remote" THEN "off" ELSE "ready"
        /\ draft' = "none" /\ last' = "none" /\ tools' = "unused"
    BY <1>3, <1>6 DEF StartRun, Typed, TypeOK, Phase
  <2>2. stage' \in {"classify", "dispatch", "remote", "delegate"}
    BY <1>1, <1>3, <1>6 DEF SessionReady, StartRoute, TurnThrows, StartRun, Typed, TypeOK
  <2> QED BY <1>1, <1>2, <1>3, <1>4, <2>1, <2>2
          DEF Typed, TypeOK, Phase, LeadPlaced, Attended, controlVars, Text
<1> QED BY <1>2, <1>5, <1>6

LEMMA LlmCallKeeps == ASSUME IInv, NEW a \in Agent, LlmCall(a) PROVE IInv'
<1> USE DEF IInv, Base
<1>1. /\ stopReason = "none" /\ llmCalls < MaxLlmCalls /\ llmCalls' = llmCalls + 1
      /\ UNCHANGED <<stopReason, tokens, dispatch, outer, stage, route, runVars, guards, result>>
      /\ phase[a] = "ready" /\ phase' = [phase EXCEPT ![a] = "calling"]
  BY DEF LlmCall, ChargeLlmCall, MayCall
<1>2. /\ "lead" \in Agent /\ \A b \in Sub : b # "lead" /\ b \in Agent
      /\ a \in Sub \/ a = "lead"
  BY SyndicateTurnAssumption DEF Agent
<1>3. phase["lead"] # "off"
  BY <1>1, <1>2 DEF Attended
<1>4. stage \notin Ended
  BY <1>3 DEF LeadPlaced, Ended
<1>5. Typed'
  BY <1>1 DEF Typed, TypeOK, runVars
<1>6. LeadPlaced' /\ Attended'
  BY <1>1, <1>2, <1>3 DEF LeadPlaced, Attended, Typed, TypeOK
<1>7. Heard' /\ StepLimitExact' /\ GuardsLeft'
  BY <1>1, TurnControlAssumption DEF Heard, StepLimitExact, GuardsLeft, Typed, TypeOK
<1> QED BY <1>1, <1>4, <1>5, <1>6, <1>7 DEF Ended

\* A subagent that is done: the lead waits on, or goes on alone.
LEMMA SubEndsFacts ==
  ASSUME Base, NEW a \in Sub, phase[a] # "off", SubEnds(a)
  PROVE  /\ phase' \in [Agent -> Phase]
         /\ phase'["lead"] = "off" <=> phase["lead"] = "off"
         /\ phase'["lead"] # "remote"
         /\ stopReason = "none" => phase["lead"] = "waiting"
         /\ stopReason = "none" /\ phase'["lead"] # "waiting" => \A b \in Sub : phase'[b] = "off"
<1> USE DEF Base
<1>1. "lead" \in Agent /\ \A b \in Sub : b # "lead" /\ b \in Agent
  BY SyndicateTurnAssumption DEF Agent
<1>2. stopReason = "none" => phase["lead"] = "waiting"
  BY DEF Attended
<1>3. phase \in [Agent -> Phase]
  BY DEF Typed, TypeOK, Phase
<1>4. /\ phase' \in [Agent -> Phase]
      /\ phase'[a] = "off"
      /\ \A b \in Sub \ {a} : phase'[b] = phase[b]
      /\ phase'["lead"] = IF phase["lead"] = "waiting" /\ \A b \in Sub \ {a} : phase[b] = "off"
                          THEN "ready" ELSE phase["lead"]
  BY <1>1, <1>3 DEF SubEnds, Phase
<1> QED BY <1>2, <1>4 DEF LeadPlaced

\* A step of a subagent, a tool or a stop that leaves the stage alone.
LEMMA StageStays ==
  ASSUME IInv, Typed', Heard', StepLimitExact',
         UNCHANGED <<stage, llmCalls, guards, result>>,
         phase'["lead"] = "off" <=> phase["lead"] = "off", phase'["lead"] # "remote",
         Attended',
         stage = "returned" => stopReason' = stopReason /\ (stopReason = "none" => tokens' = tokens)
  PROVE  IInv'
<1>1. LeadPlaced' /\ GuardsLeft'
  BY DEF IInv, Base, LeadPlaced, GuardsLeft
<1>2. stage = "returned" => Told'
  BY DEF IInv, Told
<1> QED BY <1>1, <1>2 DEF IInv, Base

LEMMA LlmRefusedKeeps == ASSUME IInv, NEW a \in Agent, LlmRefused(a) PROVE IInv'
<1> USE DEF IInv, Base
<1>1. /\ phase[a] = "ready" /\ ~MayCall /\ Stop("step_limit")
      /\ UNCHANGED <<llmCalls, tokens, dispatch, outer, guards>>
  BY DEF LlmRefused, RefuseLlmCall
<1>2. /\ "lead" \in Agent /\ \A b \in Sub : b # "lead" /\ b \in Agent
      /\ a \in Sub \/ a = "lead"
  BY SyndicateTurnAssumption DEF Agent
<1>3. /\ stopReason' \in TurnStopReason
      /\ stopReason # "none" => stopReason' = stopReason
      /\ stopReason = "none" => stopReason' = "step_limit"
  BY <1>1 DEF Stop, Typed, TypeOK, TurnStopReason
<1>4. stopReason' # "none"
  BY <1>3 DEF TurnStopReason
<1>5. StepLimitExact'
  BY <1>1, <1>3, TurnControlAssumption DEF MayCall, StepLimitExact, Typed, TypeOK
<1>6. Heard'
  BY <1>1, <1>3, <1>4 DEF Heard
<1>7. CASE a = "lead"
  <2>1. /\ phase' = [phase EXCEPT !["lead"] = "off"] /\ UNCHANGED runVars /\ RunEnds(TRUE)
    BY <1>7 DEF LlmRefused
  <2>2. stage \notin Ended
    BY <1>1, <1>7 DEF LeadPlaced, Ended
  <2>3. /\ phase' \in [Agent -> Phase] /\ phase'["lead"] = "off"
        /\ \A b \in Sub : phase'[b] = phase[b]
    BY <1>2, <2>1 DEF Typed, TypeOK, Phase
  <2>4. /\ tokens' \in Nat /\ draft' \in Text /\ last' \in Text
        /\ tools' \in {"unused", "used", "text"}
    BY <1>1, <2>1 DEF Typed, TypeOK, runVars
  <2>5. stopReason' = "canceled" => stopReason = "canceled"
    BY <1>3
  <2> QED BY <1>1, <1>3, <1>4, <1>5, <2>1, <2>2, <2>3, <2>4, <2>5, LeadEnds
<1>8. CASE a \in Sub
  <2>1. SubEnds(a) /\ UNCHANGED <<stage, route, runVars, result>>
    BY <1>2, <1>8 DEF LlmRefused
  <2>2. /\ phase' \in [Agent -> Phase]
        /\ phase'["lead"] = "off" <=> phase["lead"] = "off"
        /\ phase'["lead"] # "remote"
        /\ stopReason = "none" => phase["lead"] = "waiting"
    BY <1>1, <1>8, <2>1, SubEndsFacts
  <2>3. Typed'
    BY <1>1, <1>3, <2>1, <2>2 DEF Typed, TypeOK, Phase, runVars
  <2>4. Attended'
    BY <1>4 DEF Attended
  <2>5. stage = "returned" => stopReason' = stopReason
    BY <1>3, <2>2 DEF LeadPlaced
  <2> QED BY <1>1, <1>5, <1>6, <2>1, <2>2, <2>3, <2>4, <2>5, StageStays
<1> QED BY <1>2, <1>7, <1>8

\* The lead's last reply, an error, an abort.
LEMMA LeadReturnsKeeps ==
  ASSUME IInv, (\E t \in {"none", "echo", "answer"} : LeadAnswers(t)) \/ LeadErrs \/ RunAborted
  PROVE  IInv'
<1> USE DEF IInv, Base
<1>1. /\ UNCHANGED <<stopReason, llmCalls, dispatch, outer, guards>>
      /\ phase' = [phase EXCEPT !["lead"] = "off"]
      /\ \E error \in BOOLEAN : RunEnds(error)
      /\ phase["lead"] \in {"calling", "waiting"}
      /\ stopReason = "none" => phase["lead"] = "calling"
  BY DEF LeadAnswers, LeadErrs, RunAborted, controlVars
<1>2. "lead" \in Agent /\ \A b \in Sub : b # "lead" /\ b \in Agent
  BY SyndicateTurnAssumption DEF Agent
<1>3. /\ tokens' \in Nat /\ draft' \in Text /\ last' \in Text
      /\ tools' \in {"unused", "used", "text"}
  <2> USE DEF Typed, TypeOK
  <2>1. ASSUME NEW t \in {"none", "echo", "answer"}, LeadAnswers(t)
        PROVE  /\ tokens' \in Nat /\ draft' \in Text /\ last' \in Text
               /\ tools' \in {"unused", "used", "text"}
    <3>1. t \in Text
      BY DEF Text
    <3> QED BY <2>1, <3>1 DEF LeadAnswers, ChargeTokens
  <2>2. CASE LeadErrs \/ RunAborted
    BY <2>2 DEF LeadErrs, RunAborted, controlVars, runVars
  <2> QED BY <2>1, <2>2
<1>4. stage \notin Ended
  BY <1>1 DEF LeadPlaced, Ended
<1>5. /\ phase' \in [Agent -> Phase] /\ phase'["lead"] = "off"
      /\ \A b \in Sub : phase'[b] = phase[b]
  BY <1>1, <1>2 DEF Typed, TypeOK, Phase
<1>6. stopReason' = "none" => \A b \in Sub : phase[b] = "off"
  BY <1>1 DEF Attended
<1>7. StepLimitExact' /\ stopReason' \in TurnStopReason \cup {"none"}
  BY <1>1 DEF StepLimitExact, Typed, TypeOK
<1> QED BY <1>1, <1>3, <1>4, <1>5, <1>6, <1>7, LeadEnds

LEMMA DelegateKeeps == ASSUME IInv, NEW D \in SUBSET Sub, Delegate(D) PROVE IInv'
<1> USE DEF IInv, Base
<1>1. /\ phase["lead"] = "calling" /\ stage = "delegate" /\ tokens' = tokens + 1
      /\ UNCHANGED <<stopReason, llmCalls, dispatch, outer, stage, route, guards, result>>
      /\ draft' \in {draft, "narration"} /\ last' \in {last, "narration"}
      /\ tools' \in {"used", "text"}
  BY DEF Delegate, ChargeTokens
<1>2. "lead" \in Agent /\ \A b \in Sub : b # "lead" /\ b \in Agent
  BY SyndicateTurnAssumption DEF Agent
<1>3. phase' \in [Agent -> Phase] /\ phase'["lead"] = "waiting"
  <2>1. /\ phase \in [Agent -> Phase]
        /\ phase' = [a \in Agent |->
                       CASE a = "lead"   -> "waiting"
                         [] a \in D \cap Remote -> "remote"
                         [] a \in D \ Remote    -> "ready"
                         [] OTHER        -> phase[a]]
    BY DEF Delegate, Typed, TypeOK, Phase
  <2>2. \A a \in Agent :
          (CASE a = "lead"   -> "waiting"
             [] a \in D \cap Remote -> "remote"
             [] a \in D \ Remote    -> "ready"
             [] OTHER        -> phase[a]) \in Phase
    BY <1>2, <2>1 DEF Phase
  <2>3. phase'["lead"] = "waiting"
    BY <1>2, <2>1
  <2> QED BY <2>1, <2>2, <2>3
<1>4. Typed'
  BY <1>1, <1>3 DEF Typed, TypeOK, Phase, Text
<1>5. Heard' /\ StepLimitExact' /\ Attended'
  BY <1>1, <1>3 DEF Heard, StepLimitExact, Attended
<1> QED BY <1>1, <1>3, <1>4, <1>5, StageStays

LEMMA ToolCallKeeps == ASSUME IInv, NEW a \in Agent, ToolCall(a) PROVE IInv'
<1> USE DEF IInv, Base
<1>1. /\ phase[a] = "calling" /\ tokens' = tokens + 1
      /\ phase' = [phase EXCEPT ![a] = "ready"]
      /\ UNCHANGED <<stopReason, llmCalls, dispatch, outer, stage, route, guards, result>>
      /\ draft' \in {draft, "narration"} /\ last' \in {last, "narration"}
      /\ tools' \in {"unused", "used", "text"}
  BY DEF ToolCall, ChargeTokens, runVars, Typed, TypeOK
<1>2. /\ "lead" \in Agent /\ \A b \in Sub : b # "lead" /\ b \in Agent
      /\ a \in Sub \/ a = "lead"
  BY SyndicateTurnAssumption DEF Agent
<1>3. /\ phase' \in [Agent -> Phase]
      /\ phase'["lead"] = "off" <=> phase["lead"] = "off"
      /\ phase'["lead"] # "remote"
  BY <1>1, <1>2 DEF Typed, TypeOK, Phase, LeadPlaced
<1>4. Attended'
  BY <1>1, <1>2 DEF Attended, Typed, TypeOK
<1>5. Typed'
  BY <1>1, <1>3 DEF Typed, TypeOK, Phase, Text
<1>6. Heard' /\ StepLimitExact'
  BY <1>1 DEF Heard, StepLimitExact
<1>7. stage = "returned" => stopReason # "none"
  BY <1>1, <1>2 DEF Attended, LeadPlaced
<1> QED BY <1>1, <1>3, <1>4, <1>5, <1>6, <1>7, StageStays

LEMMA SubReturnsKeeps ==
  ASSUME IInv, NEW a \in Sub,
         (\E hasText \in BOOLEAN : SubAnswers(a, hasText)) \/ RemoteToolAnswers(a)
  PROVE  IInv'
<1> USE DEF IInv, Base
<1>1. /\ phase[a] # "off" /\ SubEnds(a) /\ tokens' \in Nat
      /\ UNCHANGED <<stopReason, llmCalls, dispatch, outer, stage, route, guards, result>>
      /\ draft' = draft /\ last' = last /\ tools' \in {tools, "text"}
  BY DEF SubAnswers, RemoteToolAnswers, ChargeTokens, ToolResult, controlVars, Typed, TypeOK
<1>2. /\ phase' \in [Agent -> Phase]
      /\ phase'["lead"] = "off" <=> phase["lead"] = "off"
      /\ phase'["lead"] # "remote"
      /\ stopReason = "none" => phase["lead"] = "waiting"
      /\ stopReason = "none" /\ phase'["lead"] # "waiting" => \A b \in Sub : phase'[b] = "off"
  BY <1>1, SubEndsFacts
<1>3. Typed'
  BY <1>1, <1>2 DEF Typed, TypeOK, Phase
<1>4. Heard' /\ StepLimitExact' /\ Attended'
  BY <1>1, <1>2 DEF Heard, StepLimitExact, Attended
<1>5. stage = "returned" => stopReason # "none"
  BY <1>2 DEF LeadPlaced
<1> QED BY <1>1, <1>2, <1>3, <1>4, <1>5, StageStays

LEMMA RunThrowsKeeps == IInv /\ RunThrows => IInv'
<1> SUFFICES ASSUME IInv, RunThrows PROVE IInv'
  OBVIOUS
<1> USE DEF IInv, Base
<1>1. /\ stage' = "threw" /\ phase' = [phase EXCEPT !["lead"] = "off"]
      /\ stopReason = "none" /\ phase["lead"] # "waiting"
      /\ UNCHANGED <<controlVars, dispatch, outer, route, runVars, guards, result>>
  BY DEF RunThrows
<1>2. "lead" \in Agent /\ \A b \in Sub : b # "lead" /\ b \in Agent
  BY SyndicateTurnAssumption DEF Agent
<1>3. Typed'
  BY <1>1 DEF Typed, TypeOK, controlVars, runVars
<1>4. LeadPlaced' /\ Attended'
  BY <1>1, <1>2 DEF LeadPlaced, Attended, Typed, TypeOK, controlVars
<1>5. Heard' /\ StepLimitExact' /\ GuardsLeft'
  BY <1>1 DEF Heard, StepLimitExact, GuardsLeft, controlVars, Ended
<1> QED BY <1>1, <1>3, <1>4, <1>5

LEMMA RemoteAnswersKeeps ==
  ASSUME IInv, NEW error \in BOOLEAN, NEW t \in {"none", "answer"}, RemoteAnswers(error, t)
  PROVE  IInv'
<1> USE DEF IInv, Base
<1>1. /\ stage = "remote" /\ UNCHANGED <<controlVars, tools, phase, dispatch, outer, guards>>
      /\ draft' = t /\ last' = t /\ RunEnds(error)
  BY DEF RemoteAnswers
<1>2. phase["lead"] = "off" /\ stage \notin Ended
  BY <1>1 DEF LeadPlaced, Ended
<1>3. t \in Text
  BY DEF Text
<1>4. StepLimitExact' /\ stopReason' \in TurnStopReason \cup {"none"}
  BY <1>1 DEF StepLimitExact, controlVars, Typed, TypeOK
<1>5. stopReason' = "none" => \A b \in Sub : phase[b] = "off"
  BY <1>1, <1>2 DEF Attended, controlVars
<1>6. /\ phase' \in [Agent -> Phase] /\ tokens' \in Nat /\ tools' \in {"unused", "used", "text"}
  BY <1>1 DEF Typed, TypeOK, Phase, controlVars
<1> QED BY <1>1, <1>2, <1>3, <1>4, <1>5, <1>6, LeadEnds DEF controlVars

LEMMA GuardKeeps == IInv /\ Guard => IInv'
<1> SUFFICES ASSUME IInv, Guard PROVE IInv'
  OBVIOUS
<1> USE DEF IInv, Base
<1>1. /\ stage = "guards" /\ guards' = guards - 1
      /\ UNCHANGED <<controlVars, dispatch, outer, route, phase, runVars>>
  BY DEF Guard
<1>2. phase["lead"] = "off"
  BY <1>1 DEF LeadPlaced
<1>3. StepLimitExact' /\ Attended' /\ Heard'
  BY <1>1 DEF StepLimitExact, Attended, Heard, controlVars, Ended
<1>4. /\ stopReason' \in TurnStopReason \cup {"none"} /\ llmCalls' \in Nat /\ tokens' \in Nat
      /\ result.text \in Text
  BY <1>1 DEF Typed, TypeOK, controlVars
<1>5. guards' \in Nat /\ (guards # 1 => guards' > 0)
  BY <1>1 DEF GuardsLeft, Typed, TypeOK
<1>6. CASE guards = 1
  <2>1. Finish("completed", "none", result.text)
    BY <1>6 DEF Guard
  <2>2. stage' = "returned" /\ Told'
    BY <1>4, <2>1, FinishTells
  <2>3. Typed' /\ LeadPlaced' /\ GuardsLeft'
    BY <1>1, <1>2, <1>5, <2>2
    DEF Typed, TypeOK, LeadPlaced, GuardsLeft, Told, Result, controlVars, runVars
  <2> QED BY <1>3, <2>2, <2>3
<1>7. CASE guards # 1
  <2>1. UNCHANGED <<stage, result>>
    BY <1>7 DEF Guard
  <2>2. Typed' /\ LeadPlaced' /\ GuardsLeft'
    BY <1>1, <1>2, <1>5, <1>7, <2>1
    DEF Typed, TypeOK, LeadPlaced, GuardsLeft, controlVars, runVars
  <2> QED BY <1>1, <1>3, <2>1, <2>2
<1> QED BY <1>6, <1>7

LEMMA StopKeeps == IInv /\ (Cancel \/ Deadline) => IInv'
<1> SUFFICES ASSUME IInv, Cancel \/ Deadline PROVE IInv'
  OBVIOUS
<1> USE DEF IInv, Base
<1>1. UNCHANGED <<llmCalls, tokens, dispatch, stage, route, phase, runVars, guards, result>>
  BY DEF Cancel, Deadline, turnVars
<1>2. \/ /\ outer' = TRUE
         /\ stopReason' = IF stopReason = "none" /\ stage \notin Ended THEN "canceled" ELSE stopReason
      \/ /\ outer' = outer /\ stage \notin Ended
         /\ stopReason = "none" /\ stopReason' = "deadline"
  BY DEF Cancel, Deadline, Stop, turnVars
<1>3. Typed'
  <2>1. stopReason' \in TurnStopReason \cup {"none"} /\ outer' \in BOOLEAN
    BY <1>2 DEF Typed, TypeOK, TurnStopReason
  <2> QED BY <1>1, <2>1 DEF Typed, TypeOK, runVars
<1>4. Heard' /\ StepLimitExact' /\ Attended'
  BY <1>1, <1>2 DEF Heard, StepLimitExact, Attended
<1>5. stage = "returned" => stopReason' = stopReason
  BY <1>2 DEF Ended
<1>6. phase' = phase /\ phase["lead"] # "remote"
  BY <1>1 DEF LeadPlaced
<1> QED BY <1>1, <1>3, <1>4, <1>5, <1>6, StageStays

LEMMA StepInv == IInv /\ [Next]_vars => IInv'
<1> SUFFICES ASSUME IInv, [Next]_vars PROVE IInv'
  OBVIOUS
<1>1. CASE UNCHANGED vars
  BY <1>1 DEF vars, controlVars, turnVars, runVars, IInv, Base, Typed, TypeOK, LeadPlaced,
              Attended, Heard, GuardsLeft, StepLimitExact, Told
<1>2. ASSUME NEW a \in Agent, CallReturns(a) \/ RemoteToolAnswers(a) PROVE IInv'
  <2>1. CASE ToolCall(a)
    BY <2>1, ToolCallKeeps
  <2>2. CASE a = "lead" /\ (LeadErrs \/ \E t \in {"none", "echo", "answer"} : LeadAnswers(t))
    BY <2>2, LeadReturnsKeeps
  <2>3. CASE \E D \in SUBSET Sub \ {{}} : Delegate(D)
    BY <2>3, DelegateKeeps
  <2>4. CASE a \in Sub /\ \E hasText \in BOOLEAN : SubAnswers(a, hasText)
    BY <2>4, SubReturnsKeeps
  <2>5. CASE RemoteToolAnswers(a)
    <3>1. a \in Sub
      BY <2>5 DEF RemoteToolAnswers, IInv, Base, LeadPlaced, Agent
    <3> QED BY <2>5, <3>1, SubReturnsKeeps
  <2> QED BY <1>2, <2>1, <2>2, <2>3, <2>4, <2>5 DEF CallReturns
<1>3. ASSUME NEW a \in Agent, LlmCall(a) \/ LlmRefused(a) PROVE IInv'
  BY <1>3, LlmCallKeeps, LlmRefusedKeeps
<1>4. CASE RunAborted
  BY <1>4, LeadReturnsKeeps
<1>5. CASE RemoteReturns
  BY <1>5, RemoteAnswersKeeps DEF RemoteReturns
<1> QED
  BY <1>1, <1>2, <1>3, <1>4, <1>5, SessionKeeps, RunThrowsKeeps, GuardKeeps, StopKeeps DEF Next

(***************************************************************************)
(* The properties.                                                          *)
(***************************************************************************)

\* The type invariant, for every syndicate.
THEOREM TypeCorrect == Spec => []TypeOK
<1>1. IInv => TypeOK
  BY DEF IInv, Base, Typed
<1> QED BY <1>1, InitInv, StepInv, PTL DEF Spec

\* max_steps caps the model calls of all agents together, and exactly.
THEOREM StepLimit == Spec => []StepLimitExact
<1>1. IInv => StepLimitExact
  BY DEF IInv, Base
<1> QED BY <1>1, InitInv, StepInv, PTL DEF Spec

\* The result tells of the first stop, for good.
THEOREM StopIsTold == Spec => []ResultTellsStop
<1>1. ASSUME IInv PROVE ResultTellsStop
  <2>1. stopReason \in {"none", "canceled", "deadline", "step_limit"}
    BY <1>1 DEF IInv, Base, Typed, TypeOK, TurnStopReason
  <2> QED BY <1>1, <2>1 DEF IInv, Base, Heard, Told, ResultTellsStop
<1> QED BY <1>1, InitInv, StepInv, PTL DEF Spec

\* Nothing is charged to a turn after its usage was read.
THEOREM UsageWasFinal == Spec => []UsageIsFinal
<1>1. IInv => UsageIsFinal
  BY DEF IInv, Told, UsageIsFinal
<1> QED BY <1>1, InitInv, StepInv, PTL DEF Spec

(***************************************************************************)
(* The turn as its caller sees it.                                          *)
(***************************************************************************)

\* A call or an answer of an agent that changes neither stage nor result.
Inside == UNCHANGED <<stage, result, outer, llmCalls>>

LEMMA RunEndsSeen ==
  ASSUME IInv, NEW error \in BOOLEAN, RunEnds(error),
         phase["lead"] # "off" \/ stage = "remote",
         stopReason' \in TurnStopReason \cup {"none"}, llmCalls' = llmCalls,
         tokens' \in Nat, draft' \in Text
  PROVE  /\ stage \notin Ended
         /\ stage' \in {"routed", "guards", "returned"}
         /\ stage = "classify" /\ stage' = "returned" => stopReason' # "none"
<1>1. stage \notin Ended
  BY DEF IInv, Base, LeadPlaced, Ended
<1>2. Typed /\ llmCalls' \in Nat
  BY DEF IInv, Base, Typed, TypeOK
<1> QED BY <1>1, <1>2, RunEndsTells

\* A step calls a model, is the caller's abort, goes on inside the turn, or
\* takes the turn to another stage; after the end only the abort remains.
Seen ==
    /\ \/ stage \notin Ended /\ llmCalls' = llmCalls + 1 /\ UNCHANGED <<stage, result, outer>>
       \/ outer' = TRUE /\ UNCHANGED <<stage, result, llmCalls>>
       \/ Inside
       \/ stage \notin Ended /\ UNCHANGED <<outer, llmCalls>>
    /\ stopReason' = "none" => stopReason = "none"
    /\ stage = "classify" /\ stage' = "returned" => stopReason' # "none"

LEMMA StepSeen == ASSUME IInv, [Next]_vars PROVE Seen
<1> USE DEF Seen, Inside
<1>0. /\ stopReason \in TurnStopReason \cup {"none"} /\ tokens \in Nat /\ draft \in Text
      /\ stage = "classify" => stage \notin Ended /\ stage # "returned"
      /\ "none" \notin TurnStopReason
  BY DEF IInv, Base, Typed, TypeOK, Ended, TurnStopReason
<1>1. CASE UNCHANGED vars
  BY <1>0, <1>1 DEF vars, controlVars, turnVars
<1>2. CASE SessionReady \/ StartRoute \/ TurnThrows
  <2>1. UNCHANGED <<controlVars, outer>> /\ stage \in {"session", "routed"}
    BY <1>2 DEF SessionReady, StartRoute, TurnThrows
  <2> QED BY <2>1 DEF controlVars, Ended
<1>3. ASSUME NEW a \in Agent, LlmCall(a) PROVE Seen
  <2>1. /\ stopReason = "none" /\ llmCalls' = llmCalls + 1 /\ UNCHANGED <<stopReason, stage, result, outer>>
        /\ phase[a] = "ready"
    BY <1>3 DEF LlmCall, ChargeLlmCall, MayCall
  <2>2. phase["lead"] # "off"
    BY <2>1 DEF IInv, Base, Attended, Agent
  <2> QED BY <1>0, <2>1, <2>2 DEF IInv, Base, LeadPlaced, Ended
<1>4. ASSUME NEW a \in Agent, LlmRefused(a) PROVE Seen
  <2>1. /\ UNCHANGED <<llmCalls, tokens, outer>> /\ phase[a] = "ready"
        /\ stopReason' = IF stopReason = "none" THEN "step_limit" ELSE stopReason
    BY <1>4 DEF LlmRefused, RefuseLlmCall, Stop
  <2>2. stopReason' \in TurnStopReason
    BY <1>0, <2>1 DEF TurnStopReason
  <2>3. CASE a = "lead"
    <3>1. RunEnds(TRUE) /\ UNCHANGED runVars
      BY <1>4, <2>3 DEF LlmRefused
    <3> QED BY <1>0, <2>1, <2>2, <2>3, <3>1, RunEndsSeen DEF runVars
  <2>4. CASE a # "lead"
    BY <1>0, <1>4, <2>1, <2>2, <2>4 DEF LlmRefused
  <2> QED BY <2>3, <2>4
<1>5. ASSUME NEW t \in {"none", "echo", "answer"}, LeadAnswers(t) PROVE Seen
  <2>1. /\ UNCHANGED <<stopReason, llmCalls, outer>> /\ RunEnds(FALSE) /\ phase["lead"] # "off"
        /\ tokens' = tokens + 1 /\ draft' \in {draft, t} /\ t \in Text
    BY <1>5 DEF LeadAnswers, ChargeTokens, Text
  <2>2. stopReason' \in TurnStopReason \cup {"none"} /\ tokens' \in Nat /\ draft' \in Text
    BY <1>0, <2>1
  <2>3. /\ stage \notin Ended
        /\ stage = "classify" /\ stage' = "returned" => stopReason' # "none"
    BY <2>1, <2>2, RunEndsSeen
  <2> QED BY <2>1, <2>3
<1>6. CASE LeadErrs \/ RunAborted
  <2>1. /\ UNCHANGED <<controlVars, runVars, outer>> /\ RunEnds(TRUE) /\ phase["lead"] # "off"
    BY <1>6 DEF LeadErrs, RunAborted
  <2> QED BY <1>0, <2>1, RunEndsSeen DEF controlVars, runVars
<1>7. ASSUME NEW error \in BOOLEAN, NEW t \in {"none", "answer"}, RemoteAnswers(error, t)
      PROVE  Seen
  <2>1. /\ UNCHANGED <<controlVars, outer>> /\ RunEnds(error) /\ stage = "remote"
        /\ draft' = t /\ t \in Text
    BY <1>7 DEF RemoteAnswers, Text
  <2> QED BY <1>0, <2>1, RunEndsSeen DEF controlVars
<1>8. ASSUME NEW a \in Agent,
             ToolCall(a) \/ RemoteToolAnswers(a)
               \/ (\E D \in SUBSET Sub : Delegate(D)) \/ (\E h \in BOOLEAN : SubAnswers(a, h))
      PROVE  Seen
  <2>1. UNCHANGED <<stopReason, llmCalls, outer, stage, result>>
    BY <1>8 DEF ToolCall, RemoteToolAnswers, Delegate, SubAnswers, controlVars
  <2> QED BY <1>0, <2>1
<1>9. CASE RunThrows
  BY <1>9 DEF RunThrows, IInv, Base, LeadPlaced, Ended, controlVars
<1>10. CASE Guard
  BY <1>10 DEF Guard, controlVars, Ended
<1>11. CASE Cancel \/ Deadline
  BY <1>0, <1>11 DEF Cancel, Deadline, Stop, turnVars
<1>12. ASSUME NEW a \in Agent, CallReturns(a) PROVE Seen
  BY <1>5, <1>6, <1>8, <1>12 DEF CallReturns
<1>13. CASE RemoteReturns
  BY <1>7, <1>13 DEF RemoteReturns
<1> QED
  BY <1>1, <1>2, <1>3, <1>4, <1>6, <1>8, <1>9, <1>10, <1>11, <1>12, <1>13 DEF Next

\* A dead classifier never ends the turn; only a stop does.
THEOREM ClassifierIsOptional == Spec => ClassifierNeverFatal
<1>1. IInv /\ [Next]_vars
        => [stage = "classify" /\ stage' = "returned" => stopReason' # "none"]_vars
  BY StepSeen DEF Seen
<1> QED BY <1>1, InitInv, StepInv, PTL DEF Spec, ClassifierNeverFatal

LEMMA ContractInit == Init => Contract!Init
  BY DEF Init, ControlInit, Contract!Init

LEMMA ContractStep ==
  ASSUME IInv, [Next]_vars
  PROVE  [Contract!Next]_(Contract!contractVars)
<1> DEFINE turn == CASE stage = "returned" -> result.status
                     [] stage = "threw"    -> "threw"
                     [] OTHER              -> "running"
<1>1. IInv' /\ Seen
  BY StepInv, StepSeen
<1>2. CASE stage \notin Ended /\ llmCalls' = llmCalls + 1 /\ UNCHANGED <<stage, result, outer>>
  BY <1>2 DEF Contract!Next, Contract!Spend, Ended
<1>3. CASE outer' = TRUE /\ UNCHANGED <<stage, result, llmCalls>>
  BY <1>3 DEF Contract!Next, Contract!Cut
<1>4. CASE Inside
  BY <1>4 DEF Inside, Contract!contractVars
<1>5. CASE stage \notin Ended /\ UNCHANGED <<outer, llmCalls>>
  <2>1. turn = "running"
    BY <1>5 DEF Ended
  <2>2. CASE stage' \notin Ended
    BY <1>5, <2>2 DEF Ended, Contract!contractVars
  <2>3. CASE stage' = "threw"
    BY <1>5, <2>3 DEF Ended, Contract!Next, Contract!Return
  <2>4. CASE stage' = "returned"
    <3>1. Told' /\ Heard' /\ stopReason' \in {"none", "canceled", "deadline", "step_limit"}
      BY <1>1, <2>4 DEF IInv, Base, Typed, TypeOK, TurnStopReason
    <3>2. result'.status = "completed" => ~outer
      BY <1>1, <1>5, <3>1 DEF Told, Seen, IInv, Base, Heard
    <3>3. result'.status = "canceled" => outer
      BY <1>5, <3>1 DEF Told, Heard
    <3>4. result'.status \in {"completed", "failed", "canceled"}
      BY <3>1 DEF Told
    <3> QED BY <1>5, <2>4, <3>2, <3>3, <3>4 DEF Ended, Contract!Next, Contract!Return
  <2> QED BY <2>2, <2>3, <2>4 DEF Ended
<1> QED BY <1>1, <1>2, <1>3, <1>4, <1>5 DEF Seen

\* Every turn is one the executor may rely on.
THEOREM TurnKeepsContract == Spec => ImplementsContract
<1>1. Init => Contract!Init
  BY ContractInit
<1>2. IInv /\ [Next]_vars => [Contract!Next]_(Contract!contractVars)
  BY ContractStep
<1> QED BY <1>1, <1>2, InitInv, StepInv, PTL DEF Spec, ImplementsContract, Contract!Spec
=============================================================================
