----------------------------- MODULE ModelCall -----------------------------
(* One logical model call, from the turn's charge to the end of its span,  *)
(* through each of the four adapters: chat completions (gateways, Ollama), *)
(* Claude, Responses (GPT, Grok) and Gemini. The provider, the network and *)
(* the consumer are the environment. A fragment is named by its place in   *)
(* the provider's stream, so the same fragment twice is text shown twice.  *)
EXTENDS Integers, Sequences, FiniteSets

(* The one retry policy for transient provider failures: what a failed     *)
(* attempt says about trying again, and how long to wait before the next   *)
(* one. A wait is a set of delays: empty to stop, a range when it is       *)
(* jittered.                                                               *)
None == -1

RETRYABLE_STATUSES == {408, 409, 425, 429, 500, 502, 503, 504}

RETRYABLE_NETWORK_CODES == {"ECONNRESET", "ETIMEDOUT", "EPIPE", "ECONNABORTED",
                            "EAI_AGAIN", "UND_ERR_SOCKET", "UND_ERR_CONNECT_TIMEOUT"}

DEFAULT_RETRY_POLICY == [maxAttempts |-> 3, baseDelayMs |-> 500,
                         maxDelayMs |-> 8000, maxRetryAfterMs |-> 60000]

LesserOf(a, b) == IF a < b THEN a ELSE b
GreaterOf(a, b) == IF a < b THEN b ELSE a

(* fromEnv is MODEL_RETRY_MAX_ATTEMPTS as a number, None when it is not    *)
(* one; overrides is a record of some of the policy's fields.              *)
retryPolicy(fromEnv, overrides) ==
  [f \in DOMAIN DEFAULT_RETRY_POLICY |->
     CASE f \in DOMAIN overrides -> overrides[f]
       [] f \notin DOMAIN overrides /\ f = "maxAttempts" /\ fromEnv # None ->
            LesserOf(10, GreaterOf(1, fromEnv))
       [] OTHER -> DEFAULT_RETRY_POLICY[f]]

(* The codes of an error and its causes, "" for a cause without one: the   *)
(* first code among the first five, "" when there is none.                 *)
networkErrorCode(codes) ==
  LET coded == {i \in 1 .. LesserOf(5, Len(codes)) : codes[i] # ""}
  IN  IF coded = {} THEN "" ELSE codes[CHOOSE i \in coded : \A j \in coded : i <= j]

errorStatus(status) == IF status \in 100 .. 599 THEN status ELSE None

(* The Retry-After header as sent: absent, empty, seconds (in thousandths  *)
(* here), a date this many milliseconds from now, or something else.       *)
parseRetryAfter(header) ==
  CASE header.form = "seconds" -> header.ms
    [] header.form = "date" -> GreaterOf(0, header.ms)
    [] OTHER -> None

(* retry-after-ms, None when absent or not a number, comes before the      *)
(* standard header.                                                        *)
retryAfterFromHeaders(afterMs, header) ==
  IF afterMs >= 0 THEN afterMs ELSE parseRetryAfter(header)

classifyResponse(status, afterMs, header) ==
  [retryable |-> status \in RETRYABLE_STATUSES,
   retryAfterMs |-> retryAfterFromHeaders(afterMs, header)]

(* A thrown error: by its status when it has one (with Google's            *)
(* retryDelay, None when the message has none), else by its network code.  *)
classifyError(status, codes, retryDelayMs) ==
  IF errorStatus(status) # None
  THEN [retryable |-> status \in RETRYABLE_STATUSES, retryAfterMs |-> retryDelayMs]
  ELSE [retryable |-> networkErrorCode(codes) \in RETRYABLE_NETWORK_CODES,
        retryAfterMs |-> None]

(* Full jitter: floor(random * ceiling), random in [0, 1).                 *)
backoffDelayMs(attempt, policy) ==
  LET doubled == policy.baseDelayMs * 2 ^ GreaterOf(0, attempt - 1)
  IN  {0} \cup 0 .. (LesserOf(policy.maxDelayMs, doubled) - 1)

nextRetryDelay(attempt, decision, policy, aborted) ==
  IF \/ aborted
     \/ ~decision.retryable
     \/ attempt >= policy.maxAttempts
     \/ decision.retryAfterMs > policy.maxRetryAfterMs
  THEN {}
  ELSE IF decision.retryAfterMs # None
       THEN {decision.retryAfterMs}
       ELSE backoffDelayMs(attempt, policy)
-----------------------------------------------------------------------------
CONSTANTS MaxAttempts,   \* the policy's maxAttempts
          MaxFragments   \* bound: fragments one streamed answer has

ASSUME CallAssumption == MaxAttempts \in 1 .. 10 /\ MaxFragments \in Nat

VARIABLE call

Adapters == {"chat", "claude", "responses", "gemini"}
Outcomes == {"none", "refused", "error", "thrown", "final", "abandoned"}
Fragment == [n : 1 .. MaxFragments, thought : BOOLEAN]

CallType ==
  [phase : {"idle", "asking", "waiting", "body", "done"}, adapter : Adapters,
   stream : BOOLEAN, reasoning : BOOLEAN, aborted : BOOLEAN,
   attempt : 1 .. MaxAttempts,
   sent : Nat,                \* requests handed to the provider
   arrived : 0 .. MaxFragments, \* fragments of this attempt's stream so far
   held : Seq(Fragment),      \* a possible half of a think tag, not yet shown
   shown : Seq(Fragment),     \* what the consumer was given, in order
   final : Seq(Fragment),     \* the text of the final response
   charged : Nat,             \* times chargeTokens ran for this call
   outcome : Outcomes]

policyOfRun == retryPolicy(MaxAttempts, <<>>)
CallInit == call = [phase |-> "idle", adapter |-> "chat", stream |-> FALSE,
                    reasoning |-> FALSE, aborted |-> FALSE, attempt |-> 1,
                    sent |-> 0, arrived |-> 0, held |-> <<>>, shown |-> <<>>,
                    final |-> <<>>, charged |-> 0, outcome |-> "none"]

TextOf(fragments) == SelectSeq(fragments, LAMBDA f : ~f.thought)

(* Every way out of the wrapper runs its finally: tokens charged, span     *)
(* ended.                                                                  *)
CallFinished(c, outcome) ==
  [c EXCEPT !.phase = "done", !.outcome = outcome, !.held = <<>>, !.charged = @ + 1]
Failed(c) == CallFinished(c, IF c.adapter = "gemini" THEN "thrown" ELSE "error")

(* chargeLlmCall refuses (the turn is stopped or out of steps) and the     *)
(* adapter's generator is closed unused; or the span opens, and then a     *)
(* missing key or SDK, or the request.                                     *)
Charge(a, stream, reasoning) ==
  LET opened == [call EXCEPT !.phase = "asking", !.adapter = a, !.stream = stream,
                             !.reasoning = reasoning /\ a = "responses"]
  IN  /\ call.phase = "idle"
      /\ \/ call' = [opened EXCEPT !.phase = "done", !.outcome = "refused"]
         \/ a # "gemini" /\ call' = CallFinished(opened, "error")
         \/ call' = [opened EXCEPT !.sent = 1]

(* The turn is cancelled or its deadline passes; the signal stays up.      *)
Abort == /\ call.phase \in {"asking", "waiting", "body"}
         /\ call' = [call EXCEPT !.aborted = TRUE]

ReasoningRefused(status) == call.reasoning /\ status = 400
RetriesItself == call.adapter \in {"chat", "gemini"}

(* Plausible bug: a generator that has shown text starts again. *)
MayRetryShown == RetriesItself
MayRetry == RetriesItself /\ call.shown = <<>>

(* A failure before or, for Gemini's generator, in the answer: wait and    *)
(* try again, or let it through.                                           *)
AfterFailure(decision) ==
  LET delays == nextRetryDelay(call.attempt, decision, policyOfRun, call.aborted)
  IN  call' = IF MayRetry /\ delays # {}
              THEN [call EXCEPT !.phase = "waiting", !.arrived = 0, !.held = <<>>]
              ELSE Failed(call)

Answered == /\ call.phase = "asking" /\ ~call.aborted
            /\ call' = [call EXCEPT !.phase = "body"]

(* The vendor SDKs make their own retries below this step.                 *)
Refused(status, header) ==
  /\ call.phase = "asking"
  /\ IF ReasoningRefused(status) /\ ~call.aborted
     THEN call' = [call EXCEPT !.reasoning = FALSE, !.sent = @ + 1]
     ELSE AfterFailure(classifyResponse(status, None, header))

Unreachable(code) ==
  /\ call.phase = "asking"
  /\ AfterFailure(classifyError(None, <<"", code>>, None))

(* fetch rejects at once when its signal is aborted.                       *)
RequestAborted ==
  /\ call.phase = "asking" /\ call.aborted
  /\ AfterFailure(classifyError(None, <<"">>, None))

(* Plausible bugs: the loop does not look at the signal after the sleep; an *)
(* abort clears the sleep's timer and resolves nothing.                    *)
WaitBlind ==
  /\ call.phase = "waiting"
  /\ call' = [call EXCEPT !.phase = "asking", !.attempt = @ + 1, !.sent = @ + 1]
WaitForGood ==
  /\ call.phase = "waiting" /\ ~call.aborted
  /\ call' = [call EXCEPT !.phase = "asking", !.attempt = @ + 1, !.sent = @ + 1]

(* sleepUnlessAborted: the whole wait, or cut short.                       *)
WaitOver ==
  /\ call.phase = "waiting"
  /\ call' = IF call.aborted
             THEN Failed(call)
             ELSE [call EXCEPT !.phase = "asking", !.attempt = @ + 1, !.sent = @ + 1]

(* The text that may begin a think tag is held back by the chat adapter.   *)
Receive(thought, holds) ==
  LET f == [n |-> call.arrived + 1, thought |-> thought]
      held == IF holds THEN <<f>> ELSE <<>>
  IN  /\ call.phase = "body" /\ call.stream /\ ~call.aborted
      /\ call.arrived < MaxFragments
      /\ holds => call.adapter = "chat" /\ ~thought
      /\ call' = [call EXCEPT !.arrived = @ + 1, !.held = held,
                              !.shown = @ \o call.held \o IF holds THEN <<>> ELSE <<f>>]

(* Plausible bug: what the splitter still holds is not flushed. *)
FlushNothing == call.shown
Flush == call.shown \o call.held

(* The stream ends: the splitter is flushed and the final response repeats *)
(* the whole text. A chat body that ends early looks the same; a Responses *)
(* stream without a completed event answers from its own buffer.           *)
StreamEnds ==
  /\ call.phase = "body" /\ call.stream /\ ~call.aborted
  /\ call' = CallFinished([call EXCEPT !.shown = Flush, !.final = TextOf(Flush)],
                       "final")

(* Not streamed: the thoughts as one partial, then the whole answer.       *)
WholeBody(thought) ==
  /\ call.phase = "body" /\ ~call.stream /\ ~call.aborted
  /\ call' = CallFinished([call EXCEPT !.shown =
                          IF thought THEN <<[n |-> 1, thought |-> TRUE]>> ELSE <<>>],
                       "final")

(* Reading the body fails: only Gemini's generator, and only before its    *)
(* first yield, starts over. A Responses stream may also report a failure. *)
BodyFails(code) ==
  /\ call.phase = "body"
  /\ IF call.adapter = "gemini"
     THEN AfterFailure(classifyError(None, <<code>>, None))
     ELSE call' = Failed(call)

(* The consumer stops iterating at something it was given.                 *)
Abandon == /\ call.phase = "body" /\ call.shown # <<>>
           /\ call' = CallFinished(call, "abandoned")

Headers == {[form |-> "none", ms |-> 0], [form |-> "seconds", ms |-> 61000],
            [form |-> "date", ms |-> -1000]}

CallEnds ==
  \/ \E status \in {400, 404, 503}, h \in Headers : Refused(status, h)
  \/ \E code \in {"ECONNRESET", "ECONNREFUSED"} : Unreachable(code)
  \/ RequestAborted
  \/ WaitOver
  \/ \E code \in {"ECONNRESET", "UND_ERR_BODY_TIMEOUT"} : BodyFails(code)
  \/ StreamEnds
  \/ \E thought \in BOOLEAN : WholeBody(thought)

CallNext ==
  \/ \E a \in Adapters, stream, reasoning \in BOOLEAN : Charge(a, stream, reasoning)
  \/ Abort
  \/ Answered
  \/ \E thought, holds \in BOOLEAN : Receive(thought, holds)
  \/ Abandon
  \/ CallEnds

(* A request, a wait or a stream under an aborted signal settles. A        *)
(* provider that stalls under a signal that is not up may stall forever.   *)
CallFairness == WF_call(call.aborted /\ CallEnds)
CallSpec == CallInit /\ [][CallNext]_call /\ CallFairness

(* No fragment is shown twice, whatever was retried.                       *)
NothingTwice ==
  \A i, j \in 1 .. Len(call.shown) : call.shown[i] = call.shown[j] => i = j

(* A streamed call that ends well repeats in its final response exactly    *)
(* the text it streamed, in order and with nothing left in the splitter.   *)
FinalIsWhole ==
  call.outcome = "final" /\ call.stream =>
     /\ call.final = TextOf(call.shown)
     /\ Len(call.shown) = call.arrived

(* Both: what the consumer is given is the provider's stream, once.        *)
CallIsExact == NothingTwice /\ FinalIsWhole

(* No request goes out under an aborted signal, nor after anything was     *)
(* shown; a call makes at most the policy's attempts and one more, without *)
(* the reasoning parameter.                                                *)
SendsAreDue ==
  [][call'.sent > call.sent =>
        ~call.aborted /\ call.shown = <<>> /\ call.sent <= MaxAttempts]_call

(* An aborted call ends.                                                   *)
AbortEndsCall == call.aborted ~> call.phase = "done"
=============================================================================
