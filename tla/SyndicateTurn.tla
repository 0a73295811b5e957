--------------------------- MODULE SyndicateTurn ---------------------------
(***************************************************************************)
(* One turn of a syndicate (lib/runtime/syndicateTurn.ts).                  *)
(*                                                                          *)
(* DELEGATE: the orchestrator runs with its subagents as tools, several of  *)
(* which may work at once.  PLAN-DISPATCH: a classifier names a route, and  *)
(* the route's agent, local or remote, answers.  Then the guards rewrite    *)
(* the answer.  All the while a cancel, a deadline or the step limit may    *)
(* stop the turn.                                                           *)
(*                                                                          *)
(* "lead" is whichever agent runAgent is draining.  Texts are told apart by *)
(* their origin only.  The runner itself is the ADK's: it calls a model,    *)
(* runs the tools the reply names, and calls again until a reply names      *)
(* none; it runs the tool calls of one reply together and waits for all of  *)
(* them, unless the turn's signal aborts it.                                *)
(***************************************************************************)
EXTENDS TurnControl, FiniteSets

CONSTANTS
    Sub,          \* the syndicate's subagents
    DefaultRoute, \* dispatch.default_route
    Remote,       \* subagents with an a2a_agent_url
    HasDeadline,  \* the surface sets deadlineMs
    MaxGuards     \* bound on the syndicate's guards

ASSUME SyndicateTurnAssumption ==
    /\ IsFiniteSet(Sub)
    /\ DefaultRoute \in Sub
    /\ Remote \subseteq Sub
    /\ "lead" \notin Sub
    /\ HasDeadline \in BOOLEAN
    /\ MaxGuards \in Nat

VARIABLES
    dispatch,  \* the configuration has a dispatch block
    outer,     \* the caller's signal has fired
    stage,     \* where runTurnInner is
    route,     \* the route decided, in plan-dispatch
    phase,     \* what each agent is doing
    draft,     \* the drained run's text: the last event's that had any
    last,      \* history: the text of the lead's last event
    tools,     \* tools of the drained run: "unused", "used", or one gave "text"
    guards,    \* guards still to run
    result     \* what the turn returns

runVars == <<draft, last, tools>>
turnVars == <<dispatch, outer, stage, route, phase, runVars, guards, result>>
vars == <<controlVars, turnVars>>

Agent == Sub \cup {"lead"}
Ended == {"returned", "threw"}
Text == {"none", "narration", "echo", "answer", "relay", "notice"}

\* SyndicateTurnResult before finish().
NoResult ==
    [status |-> "none", error |-> "none", failedStage |-> "none",
     text |-> "none", llmCalls |-> 0, tokens |-> 0]

Init ==
    /\ outer \in BOOLEAN
    /\ ControlInit(outer)
    /\ dispatch \in BOOLEAN
    /\ guards \in 0..MaxGuards
    /\ stage = "session"
    /\ route = "none"
    /\ phase = [a \in Agent |-> "off"]
    /\ draft = "none"
    /\ last = "none"
    /\ tools = "unused"
    /\ result = NoResult

(***************************************************************************)
(* finish(), runAgent() and what follows an agent's run.                    *)
(***************************************************************************)

(* Plausible bugs: the task tools' spelling of the status; the stop reason is
   not looked at any more once there is an answer. *)
FinishMisspelt(status, failedStage, text) ==
    /\ stage' = "returned"
    /\ result' = [status |-> IF stopReason' = "canceled" THEN "cancelled" ELSE status,
                  error |-> IF status = "failed" THEN "provider" ELSE "none",
                  failedStage |-> failedStage, text |-> text,
                  llmCalls |-> llmCalls', tokens |-> tokens']

FinishIgnoresStop(status, failedStage, text) ==
    /\ stage' = "returned"
    /\ result' = [status |-> status,
                  error |-> IF status = "failed" THEN "provider" ELSE "none",
                  failedStage |-> failedStage, text |-> text,
                  llmCalls |-> llmCalls', tokens |-> tokens']

\* A stop decides status and error, whatever the answer was.
Finish(status, failedStage, text) ==
    /\ stage' = "returned"
    /\ result' =
         [status |-> CASE stopReason' = "none"     -> status
                       [] stopReason' = "canceled" -> "canceled"
                       [] OTHER                    -> "failed",
          error |-> IF stopReason' # "none" THEN StopCode[stopReason']
                    ELSE IF status = "failed" THEN "provider" ELSE "none",
          failedStage |-> failedStage,
          text |-> text,
          llmCalls |-> llmCalls',
          tokens |-> tokens']

\* runAgent starts draining an agent.
StartRun(place) ==
    /\ stage' = place
    /\ phase' = [phase EXCEPT !["lead"] = IF place = "remote" THEN "off" ELSE "ready"]
    /\ draft' = "none"
    /\ last' = "none"
    /\ tools' = "unused"

\* What an answering run without error ships: a route that said nothing is
\* named, a relay that failed is replaced by the last tool result.
AnswerText ==
    CASE stage # "delegate" /\ draft' = "none" -> "notice"
      [] stage = "delegate" /\ draft' \in {"none", "echo"} /\ tools' = "text" -> "relay"
      [] OTHER -> draft'

(* Plausible bug: a classifier that failed fails the turn. *)
ClassifiedOrFailed(error) ==
    IF error \/ stopReason' # "none"
    THEN Finish("failed", "classify", "none") /\ UNCHANGED route
    ELSE /\ route' \in Sub
         /\ stage' = "routed"
         /\ UNCHANGED result

\* The classifier is done.  Its failure costs a good route, never the answer;
\* its text may name no route, which falls back to the default as well.
Classified(error) ==
    IF stopReason' # "none"
    THEN Finish("failed", "none", "none") /\ UNCHANGED route
    ELSE /\ route' \in IF error THEN {DefaultRoute} ELSE Sub
         /\ stage' = "routed"
         /\ UNCHANGED result

\* The answering agent is done.
Answered(error) ==
    /\ IF error \/ stopReason' # "none"
       THEN Finish("failed", IF stage = "delegate" THEN "delegate" ELSE "dispatch", "none")
       ELSE IF AnswerText # "none" /\ guards > 0
       THEN stage' = "guards" /\ result' = [result EXCEPT !.text = AnswerText]
       ELSE Finish("completed", "none", AnswerText)
    /\ UNCHANGED route

RunEnds(error) == IF stage = "classify" THEN Classified(error) ELSE Answered(error)

(***************************************************************************)
(* Session and route.                                                       *)
(***************************************************************************)

\* getSession and createSession answer; the agents are compiled.  An override
\* in the message or a route forced by the caller needs no classifier.
SessionReady ==
    /\ stage = "session"
    /\ IF ~dispatch
       THEN StartRun("delegate") /\ UNCHANGED route
       ELSE \/ StartRun("classify") /\ UNCHANGED route
            \/ /\ stage' = "routed"
               /\ route' \in Sub
               /\ UNCHANGED <<phase, runVars>>
    /\ UNCHANGED <<controlVars, dispatch, outer, guards, result>>

\* The route's agent is compiled, or called over A2A.
StartRoute ==
    /\ stage = "routed"
    /\ StartRun(IF route \in Remote THEN "remote" ELSE "dispatch")
    /\ UNCHANGED <<controlVars, dispatch, outer, route, guards, result>>

\* A session store that rejects, a route or a tool that cannot be compiled.
TurnThrows ==
    /\ stage \in {"session", "routed"}
    /\ stage' = "threw"
    /\ UNCHANGED <<controlVars, dispatch, outer, route, phase, runVars, guards, result>>

(***************************************************************************)
(* The agents.  An agent that is "ready" calls its model next; the stop     *)
(* and the budget are looked at there and nowhere else.  Agents of a run    *)
(* that was aborted may outlive it.                                         *)
(***************************************************************************)
LlmCall(a) ==
    /\ phase[a] = "ready"
    /\ ChargeLlmCall
    /\ phase' = [phase EXCEPT ![a] = "calling"]
    /\ UNCHANGED <<dispatch, outer, stage, route, runVars, guards, result>>

\* A subagent is done; the lead goes on when it was the last of its batch.
SubEnds(a) ==
    phase' = [phase EXCEPT
        ![a] = "off",
        !["lead"] = IF @ = "waiting" /\ \A b \in Sub \ {a} : phase[b] = "off"
                    THEN "ready" ELSE @]

(* Plausible bug: a refused call is not an error, so the agent tries again. *)
LlmRefusedRetries(a) ==
    /\ phase[a] = "ready"
    /\ RefuseLlmCall
    /\ UNCHANGED <<phase, dispatch, outer, stage, route, runVars, guards, result>>

\* A refused call yields an error response in place of the model's.
LlmRefused(a) ==
    /\ phase[a] = "ready"
    /\ RefuseLlmCall
    /\ IF a = "lead"
       THEN /\ phase' = [phase EXCEPT !["lead"] = "off"]
            /\ UNCHANGED runVars
            /\ RunEnds(TRUE)
       ELSE SubEnds(a) /\ UNCHANGED <<stage, route, runVars, result>>
    /\ UNCHANGED <<dispatch, outer, guards>>

\* The lead's final reply.  An event without text leaves the draft alone.
\* It can echo a tool's name only if it called one.
LeadAnswers(t) ==
    /\ phase["lead"] = "calling"
    /\ t = "echo" => tools # "unused"
    /\ ChargeTokens(1)
    /\ UNCHANGED <<stopReason, llmCalls, tools>>
    /\ last' = t
    /\ draft' = IF t = "none" THEN draft ELSE t
    /\ phase' = [phase EXCEPT !["lead"] = "off"]
    /\ RunEnds(FALSE)
    /\ UNCHANGED <<dispatch, outer, guards>>

\* The lead's reply is an error event: the drain breaks off.
LeadErrs ==
    /\ phase["lead"] = "calling"
    /\ UNCHANGED <<controlVars, runVars>>
    /\ phase' = [phase EXCEPT !["lead"] = "off"]
    /\ RunEnds(TRUE)
    /\ UNCHANGED <<dispatch, outer, guards>>

\* A reply that calls ordinary tools, perhaps with a narration beside it.
ToolCall(a) ==
    /\ phase[a] = "calling"
    /\ a = "lead" => stage # "classify"
    /\ ChargeTokens(1)
    /\ UNCHANGED <<stopReason, llmCalls>>
    /\ phase' = [phase EXCEPT ![a] = "ready"]
    /\ IF a = "lead"
       THEN /\ draft' \in {draft, "narration"}
            /\ last' = IF draft' = "narration" THEN "narration" ELSE last
            /\ tools' \in {IF tools = "text" THEN "text" ELSE "used", "text"}
       ELSE UNCHANGED runVars
    /\ UNCHANGED <<dispatch, outer, stage, route, guards, result>>

\* A reply that calls subagents.  A remote one makes no model call here.
Delegate(D) ==
    /\ phase["lead"] = "calling"
    /\ stage = "delegate"
    /\ ChargeTokens(1)
    /\ UNCHANGED <<stopReason, llmCalls>>
    /\ phase' = [a \in Agent |->
                    CASE a = "lead"   -> "waiting"
                      [] a \in D \cap Remote -> "remote"
                      [] a \in D \ Remote    -> "ready"
                      [] OTHER        -> phase[a]]
    /\ draft' \in {draft, "narration"}
    /\ last' = IF draft' = "narration" THEN "narration" ELSE last
    /\ tools' = IF tools = "text" THEN "text" ELSE "used"
    /\ UNCHANGED <<dispatch, outer, stage, route, guards, result>>

\* A tool's plain text reaches the run that is being drained, if it still is.
ToolResult(hasText) ==
    /\ tools' = IF hasText /\ phase["lead"] = "waiting" THEN "text" ELSE tools
    /\ UNCHANGED <<draft, last>>

\* A subagent's run is over: its model's last reply, an error, an abort.
SubAnswers(a, hasText) ==
    /\ phase[a] = "calling"
    /\ ChargeTokens(IF hasText THEN 1 ELSE 0)
    /\ SubEnds(a)
    /\ ToolResult(hasText)
    /\ UNCHANGED <<stopReason, llmCalls, dispatch, outer, stage, route, guards, result>>

\* remoteAgentTool always comes back with a text, if only to say it failed.
RemoteToolAnswers(a) ==
    /\ phase[a] = "remote"
    /\ SubEnds(a)
    /\ ToolResult(TRUE)
    /\ UNCHANGED <<controlVars, dispatch, outer, stage, route, guards, result>>

\* The abort makes the stream throw: a stop, not a crash.  Subagents of the
\* run may still be on their way out.
RunAborted ==
    /\ stopReason # "none"
    /\ phase["lead"] \in {"calling", "waiting"}
    /\ UNCHANGED <<controlVars, runVars>>
    /\ phase' = [phase EXCEPT !["lead"] = "off"]
    /\ RunEnds(TRUE)
    /\ UNCHANGED <<dispatch, outer, guards>>

\* The session store rejects an event of the run and nothing had stopped it.
RunThrows ==
    /\ stopReason = "none"
    /\ phase["lead"] \in {"ready", "calling"}
    /\ stage # "classify"
    /\ stage' = "threw"
    /\ phase' = [phase EXCEPT !["lead"] = "off"]
    /\ UNCHANGED <<controlVars, dispatch, outer, route, runVars, guards, result>>

\* runRemoteRoute: an answer, another final state, or no answer at all.
RemoteAnswers(error, t) ==
    /\ stage = "remote"
    /\ error => t = "none"
    /\ UNCHANGED controlVars
    /\ draft' = t
    /\ last' = t
    /\ UNCHANGED <<tools, phase>>
    /\ RunEnds(error)
    /\ UNCHANGED <<dispatch, outer, guards>>

\* One guard: its text ships, or it throws and the answer ships without it.
\* The loop does not look at the stop; finish does.
Guard ==
    /\ stage = "guards"
    /\ guards' = guards - 1
    /\ UNCHANGED controlVars
    /\ IF guards = 1
       THEN Finish("completed", "none", result.text)
       ELSE UNCHANGED <<stage, result>>
    /\ UNCHANGED <<dispatch, outer, route, phase, runVars>>

(***************************************************************************)
(* The stops.  dispose() removes the listener and the timer at the end.     *)
(***************************************************************************)
Cancel ==
    /\ ~outer
    /\ outer' = TRUE
    /\ IF stage \in Ended THEN UNCHANGED stopReason ELSE Stop("canceled")
    /\ UNCHANGED <<llmCalls, tokens, dispatch, stage, route, phase, runVars, guards, result>>

Deadline ==
    /\ HasDeadline
    /\ stage \notin Ended
    /\ stopReason = "none"
    /\ Stop("deadline")
    /\ UNCHANGED <<llmCalls, tokens, turnVars>>

\* A provider call in flight comes back.
CallReturns(a) ==
    \/ a = "lead" /\ \E t \in {"none", "echo", "answer"} : LeadAnswers(t)
    \/ a = "lead" /\ LeadErrs
    \/ a = "lead" /\ \E D \in SUBSET Sub \ {{}} : Delegate(D)
    \/ ToolCall(a)
    \/ a \in Sub /\ \E hasText \in BOOLEAN : SubAnswers(a, hasText)

RemoteReturns == \E error \in BOOLEAN, t \in {"none", "answer"} : RemoteAnswers(error, t)

Next ==
    \/ SessionReady
    \/ StartRoute
    \/ TurnThrows
    \/ \E a \in Agent : LlmCall(a) \/ LlmRefused(a) \/ CallReturns(a) \/ RemoteToolAnswers(a)
    \/ RunAborted
    \/ RunThrows
    \/ RemoteReturns
    \/ Guard
    \/ Cancel
    \/ Deadline

(***************************************************************************)
(* Fairness.  The event loop goes on, stores, tools and guards answer (each *)
(* has its own timeout), and a timer fires.  A provider call or a remote    *)
(* agent is only trusted to come back once its signal is aborted.           *)
(***************************************************************************)
Fairness ==
    /\ WF_vars(SessionReady)
    /\ WF_vars(StartRoute)
    /\ \A a \in Agent :
         /\ WF_vars(LlmCall(a) \/ LlmRefused(a))
         /\ WF_vars(stopReason # "none" /\ CallReturns(a))
         /\ WF_vars(stopReason # "none" /\ RemoteToolAnswers(a))
    /\ WF_vars(stopReason # "none" /\ RemoteReturns)
    /\ WF_vars(Guard)
    /\ WF_vars(Deadline)

Spec == Init /\ [][Next]_vars

FairSpec == Spec /\ Fairness
-----------------------------------------------------------------------------
(***************************************************************************)
(* Properties.                                                              *)
(***************************************************************************)
TypeOK ==
    /\ stopReason \in TurnStopReason \cup {"none"}
    /\ llmCalls \in Nat
    /\ tokens \in Nat
    /\ dispatch \in BOOLEAN
    /\ outer \in BOOLEAN
    /\ stage \in {"session", "classify", "routed", "dispatch", "remote",
                  "delegate", "guards", "returned", "threw"}
    /\ route \in Sub \cup {"none"}
    /\ phase \in [Agent -> {"off", "ready", "calling", "waiting", "remote"}]
    /\ draft \in Text /\ last \in Text
    /\ tools \in {"unused", "used", "text"}
    /\ guards \in Nat
    /\ result.status \in {"none", "completed", "failed", "canceled"}
    /\ result.text \in Text

\* "max_steps caps model calls across the whole turn, subagents included":
\* however many agents call at once, the ceiling holds, and it is given as the
\* reason only when every call of it was made.
StepLimitExact ==
    /\ llmCalls <= MaxLlmCalls
    /\ stopReason = "step_limit" => llmCalls = MaxLlmCalls

\* The result tells of the stop, and of the first one: a stop that reaches the
\* turn before it returns, during the guards too, decides status and error,
\* and nothing changes the reason later.
ResultTellsStop ==
    stage = "returned" =>
        CASE stopReason = "none"     -> result.status \in {"completed", "failed"}
                                        /\ result.error \in {"none", "provider"}
          [] stopReason = "canceled" -> result.status = "canceled"
                                        /\ result.error = "CANCELED" /\ outer
          [] OTHER                   -> result.status = "failed"
                                        /\ result.error = StopCode[stopReason]

\* "What the turn spent, across every agent": no call is charged after the
\* result was read, and no tokens unless the turn was stopped under way.
UsageIsFinal ==
    stage = "returned" =>
        /\ result.llmCalls = llmCalls
        /\ stopReason = "none" => result.tokens = tokens

\* "A dead classifier costs the user a good route, never their answer": only
\* a stop ends the turn at the classifier.
ClassifierNeverFatal ==
    [][stage = "classify" /\ stage' = "returned" => stopReason' # "none"]_vars

\* The turn the executor relies on.
Contract == INSTANCE TurnContract WITH
    turn <- CASE stage = "returned" -> result.status
              [] stage = "threw"    -> "threw"
              [] OTHER              -> "running",
    spent <- llmCalls,
    cut <- outer

ImplementsContract == Contract!Spec

\* A turn that is stopped ends, and so does every turn that has a deadline,
\* although a provider or a remote agent may never answer.
StopEndsTheTurn == (stopReason # "none" \/ HasDeadline) ~> stage \in Ended

\* The relay fallback: an orchestrator that stops with no text, or with the
\* name of a tool, does not cost the user the tool result it was to relay.
RelayRecovers ==
    stage = "returned" /\ result.status = "completed" /\ ~dispatch
        /\ last \in {"none", "echo"} /\ tools = "text"
        => result.text = "relay"
=============================================================================
