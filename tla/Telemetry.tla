------------------------------ MODULE Telemetry ------------------------------
(* Spans from their start to the telemetry tables: who the calls belong    *)
(* to, what a turn's row sums up, and which payloads are kept. A payload   *)
(* is kept or not by its turn's root span, which ends after it: payloads   *)
(* wait for that decision, capped and for a while. Spans end in any order  *)
(* that their nesting allows or, after an abort, in any order at all.      *)
EXTENDS Integers, Sequences, FiniteSets, SequencesExt

CONSTANTS Spans,       \* the spans of the process: id -> [trace, kind, parent]
          PENDING_CAP, SPAN_LINEAGE_CAP,
          PENDING_TTL, DECISION_TTL, \* in ticks
          MaxNow       \* bound: ticks

(* A span starts below one of its own trace, or below none (0).            *)
ASSUME TelemetryAssumption ==
  /\ IsFiniteSet(DOMAIN Spans) /\ 0 \notin DOMAIN Spans
  /\ \A s \in DOMAIN Spans : Spans[s].parent # 0 =>
       Spans[s].parent \in DOMAIN Spans /\ Spans[Spans[s].parent].trace = Spans[s].trace
  /\ PENDING_CAP \in Nat /\ SPAN_LINEAGE_CAP \in Nat /\ MaxNow \in Nat

VARIABLES
  policy,     \* the payload mode, "unset" before initializeTracing
  spanLineage,\* open spans in start order, the oldest evicted at the cap
  span,       \* id -> [state, agent, failed, turn]; turn: a root's row
  traceStats, \* trace -> model calls ended so far, 0 also for no entry
  queue,      \* ended spans the batch processor holds
  exporter,   \* [pending, decisions, pendingCount, dropped, rows]
  now

telemetryVars == <<policy, spanLineage, span, traceStats, queue, exporter, now>>

SpanIds == DOMAIN Spans
Traces == {Spans[s].trace : s \in SpanIds}
NoAgent == 0
NoTurn == [calls |-> 0, error |-> FALSE, fallback |-> FALSE]

TelemetryInit ==
  /\ policy = [mode |-> "unset", sampled |-> {}]
  /\ spanLineage = <<>>
  /\ span = [s \in SpanIds |-> [state |-> "new", agent |-> NoAgent, failed |-> FALSE, turn |-> NoTurn]]
  /\ traceStats = [t \in Traces |-> 0]
  /\ queue = <<>>
  /\ exporter = [pending |-> [t \in Traces |-> [at |-> 0, spans |-> <<>>]],
                 decisions |-> [t \in Traces |-> [at |-> 0, reason |-> "undecided"]],
                 pendingCount |-> 0, dropped |-> 0, rows |-> <<>>]
  /\ now = 0

(* TELEMETRY_PAYLOADS; anything else is "sample".                          *)
PayloadModes == {"off", "errors", "sample", "all"}

(* initializeTracing with the sink on; the sample is by trace id, from none *)
(* (rate 0) to all of them.                                                *)
initializeTracing(mode, sampled) ==
  /\ policy.mode = "unset" /\ (sampled # {} => mode = "sample")
  /\ policy' = [mode |-> mode, sampled |-> sampled]
  /\ UNCHANGED <<spanLineage, span, traceStats, queue, exporter, now>>

(* The nearest agent from a span upwards, as long as the lineage holds     *)
(* every span on the way; at most twelve spans.                            *)
NextUp(x, lineage) ==
  IF x \notin Range(lineage) THEN 0 ELSE IF Spans[x].kind = "agent" THEN x ELSE Spans[x].parent
agentForSpan(s, lineage) ==
  LET walk[depth \in 0 .. 11] == IF depth = 0 THEN s ELSE NextUp(walk[depth - 1], lineage)
      found == walk[11]
  IN  IF found \in Range(lineage) /\ Spans[found].kind = "agent" THEN found ELSE NoAgent

Evicted(lineage) == IF Len(lineage) > SPAN_LINEAGE_CAP THEN Tail(lineage) ELSE lineage

(* A model call asks for its agent before the lineage is cut to its cap,   *)
(* its request after.                                                      *)
StartSpan(s) ==
  LET entered == Append(spanLineage, s) IN
  /\ policy.mode # "unset" /\ span[s].state = "new"
  /\ Spans[s].parent # 0 => span[Spans[s].parent].state = "open"
  /\ span' = [span EXCEPT ![s].state = "open",
                ![s].agent = CASE Spans[s].kind = "call_llm" -> agentForSpan(Spans[s].parent, entered)
                               [] Spans[s].kind = "request" -> agentForSpan(s, Evicted(entered))
                               [] OTHER -> NoAgent]
  /\ spanLineage' = Evicted(entered)
  /\ UNCHANGED <<policy, traceStats, queue, exporter, now>>

(* A call, a tool or an agent ends; the statistics of its trace go on even *)
(* when the turn has taken them already.                                   *)
EndSpan(s, failed) ==
  /\ span[s].state = "open" /\ Spans[s].kind # "root"
  /\ failed => Spans[s].kind = "request"
  /\ span' = [span EXCEPT ![s].state = "ended", ![s].failed = failed]
  /\ spanLineage' = RemoveFirst(spanLineage, s)
  /\ traceStats' = IF Spans[s].kind = "request"
                   THEN [traceStats EXCEPT ![Spans[s].trace] = @ + 1] ELSE traceStats
  /\ queue' = Append(queue, s)
  /\ UNCHANGED <<policy, exporter, now>>

(* traceAgentRun's finally: the row of the turn, with the statistics taken *)
(* out of the map.                                                         *)
EndTurn(s, error, fallback) ==
  LET t == Spans[s].trace IN
  /\ span[s].state = "open" /\ Spans[s].kind = "root"
  /\ span' = [span EXCEPT ![s].state = "ended",
                ![s].turn = [calls |-> traceStats[t], error |-> error, fallback |-> fallback]]
  /\ traceStats' = [traceStats EXCEPT ![t] = 0]
  /\ spanLineage' = RemoveFirst(spanLineage, s)
  /\ queue' = Append(queue, s)
  /\ UNCHANGED <<policy, exporter, now>>

payloadDecision(t, facts) ==
  CASE policy.mode = "off" -> "none"
    [] policy.mode # "off" /\ facts.error -> "error"
    [] policy.mode # "off" /\ ~facts.error /\ facts.fallback -> "fallback"
    [] OTHER -> CASE policy.mode = "errors" -> "none"
                  [] policy.mode = "all" -> "all"
                  [] OTHER -> IF t \in policy.sampled THEN "sample" ELSE "none"

(* Our own request span carries a payload only when it failed.             *)
isPayloadSpan(s) == Spans[s].kind = "call_llm" \/ (Spans[s].kind = "request" /\ span[s].failed)

PayloadRow(s, reason) == [table |-> "payloads", span |-> s, reason |-> reason]
Forgotten(e, t) == [e EXCEPT !.pending[t].spans = <<>>, !.pendingCount = @ - Len(e.pending[t].spans)]

ExportRoot(e, s) ==
  LET t == Spans[s].trace
      reason == payloadDecision(t, span[s].turn)
      waiting == e.pending[t].spans
      decided == [Forgotten(e, t) EXCEPT !.decisions[t] = [at |-> now, reason |-> reason]]
  IN  IF reason # "none"
      THEN [decided EXCEPT !.rows = @ \o [i \in 1 .. Len(waiting) |-> PayloadRow(waiting[i], reason)]]
      ELSE [decided EXCEPT !.dropped = @ + Len(waiting)]

ExportPayload(e, s) ==
  LET t == Spans[s].trace
      reason == e.decisions[t].reason
  IN  CASE reason \notin {"undecided", "none"} -> [e EXCEPT !.rows = Append(@, PayloadRow(s, reason))]
        [] reason = "none" -> [e EXCEPT !.dropped = @ + 1]
        [] reason = "undecided" /\ e.pendingCount < PENDING_CAP ->
             [e EXCEPT !.pending[t] = [at |-> IF @.spans = <<>> THEN now ELSE @.at,
                                       spans |-> Append(@.spans, s)],
                       !.pendingCount = @ + 1]
        [] OTHER -> [e EXCEPT !.dropped = @ + 1]

ExportSpan(e, s) ==
  CASE Spans[s].kind = "root" -> ExportRoot(e, s)
    [] Spans[s].kind # "root" /\ policy.mode # "off" /\ isPayloadSpan(s) -> ExportPayload(e, s)
    [] OTHER -> e

(* Plausible bug: an expired entry leaves the map but stays in the count.  *)
PrunedButCounted(e) ==
  [e EXCEPT !.pending = [t \in Traces |->
     IF now - @[t].at > PENDING_TTL THEN [@[t] EXCEPT !.spans = <<>>] ELSE @[t]]]

Total(e, traces) == Cardinality({w \in traces \X SpanIds : w[2] \in Range(e.pending[w[1]].spans)})

pruneBuffers(e) ==
  LET expired == {t \in Traces : e.pending[t].spans # <<>> /\ now - e.pending[t].at > PENDING_TTL}
      old == Total(e, expired)
  IN  [e EXCEPT !.pending = [t \in Traces |-> IF t \in expired THEN [@[t] EXCEPT !.spans = <<>>] ELSE @[t]],
                !.pendingCount = @ - old, !.dropped = @ + old,
                !.decisions = [t \in Traces |->
                   IF now - @[t].at > DECISION_TTL THEN [@[t] EXCEPT !.reason = "undecided"] ELSE @[t]]]

(* One export call, over the first n spans of the queue. The rows go out   *)
(* in inserts nobody waits for but forceFlush; one that fails is spooled.  *)
AllExported(n) ==
  LET after[i \in 0 .. n] == IF i = 0 THEN exporter ELSE ExportSpan(after[i - 1], queue[i]) IN after[n]
Export(n) ==
  /\ n \in 1 .. Len(queue)
  /\ queue' = SubSeq(queue, n + 1, Len(queue))
  /\ exporter' = pruneBuffers(AllExported(n))
  /\ UNCHANGED <<policy, spanLineage, span, traceStats, now>>

Tick == now < MaxNow /\ now' = now + 1
        /\ UNCHANGED <<policy, spanLineage, span, traceStats, queue, exporter>>

TelemetryNext ==
  \/ \E mode \in PayloadModes, sampled \in SUBSET Traces :
        initializeTracing(mode, sampled)
  \/ \E s \in SpanIds : StartSpan(s)
  \/ \E s \in SpanIds, failed \in BOOLEAN : EndSpan(s, failed)
  \/ \E s \in SpanIds, error, fallback \in BOOLEAN : EndTurn(s, error, fallback)
  \/ \E n \in 1 .. Cardinality(SpanIds) : Export(n)
  \/ Tick

TelemetrySpec == TelemetryInit /\ [][TelemetryNext]_telemetryVars

Exported(s) == span[s].state = "ended" /\ s \notin Range(queue)
Waiting == Total(exporter, Traces)

(* Every payload that came out of the processor is one of three: written   *)
(* once, waiting for its turn, or counted as dropped; the count that caps  *)
(* the waiting ones is the number of them; and what is written is written  *)
(* for the reason its turn gives.                                          *)
PayloadsBalance ==
  /\ exporter.pendingCount = Waiting /\ Waiting <= PENDING_CAP
  /\ Len(exporter.rows) + Waiting + exporter.dropped =
       IF policy.mode \in {"off", "unset"} THEN 0
       ELSE Cardinality({s \in SpanIds : Exported(s) /\ isPayloadSpan(s)})
  /\ \A i, j \in DOMAIN exporter.rows : exporter.rows[i].span = exporter.rows[j].span => i = j
  /\ \A i \in DOMAIN exporter.rows :
       LET t == Spans[exporter.rows[i].span].trace IN
       \E s \in SpanIds : /\ Spans[s].kind = "root" /\ Spans[s].trace = t /\ Exported(s)
                      /\ exporter.rows[i].reason = payloadDecision(t, span[s].turn)

(* A model call is credited to the nearest agent above it or to none: an   *)
(* evicted or ended span in between loses the name, it never gives another *)
(* one, and never one of another trace.                                    *)
Credited(s, agent) ==
  LET up[d \in 0 .. 12] == IF d = 0 THEN s ELSE IF up[d - 1] = 0 THEN 0 ELSE Spans[up[d - 1]].parent
  IN  /\ agent \in SpanIds /\ Spans[agent].trace = Spans[s].trace
      /\ \E d \in 1 .. 12 : /\ up[d] = agent /\ Spans[up[d]].kind = "agent"
                            /\ \A e \in 1 .. d - 1 : Spans[up[e]].kind # "agent"
CreditIsTrue == \A s \in SpanIds : span[s].agent # NoAgent => Credited(s, span[s].agent)

SpansAccounted == PayloadsBalance /\ CreditIsTrue
-----------------------------------------------------------------------------
(* The row a turn leaves in the telemetry tables, summed up from the       *)
(* events its root span saw go by: the partial ones of a streamed answer,  *)
(* the final ones that repeat it, tool calls and server-side tool calls.   *)

Absent == "none"

(* One model call of the turn as its adapter delivers it: streamed or not, *)
(* a thought, an answer or a tool call, a search on the provider's side    *)
(* with or without sources, or an error; input is its context size.        *)
ModelCalls ==
  {c \in [streamed : BOOLEAN, thought : BOOLEAN, said : {Absent, "a", "b"}, tool : BOOLEAN,
          search : {Absent, "bare", "sources"}, input : 1 .. 2, error : {Absent, "STOP", "5xx"}] :
     /\ c.error = "5xx" => ~c.streamed /\ ~c.thought /\ c.said = Absent /\ ~c.tool /\ c.search = Absent
     /\ c.said = Absent <=> c.tool \/ c.error = "5xx"
     /\ c.tool => c.search = Absent}

Text(t) == [kind |-> "text", text |-> t]
CallEvent(partial, parts, c) ==
  [partial |-> partial, parts |-> parts, author |-> "agent",
   usage |-> IF partial \/ c.error = "5xx" THEN <<>> ELSE <<c.input, 1>>,
   error |-> IF partial THEN Absent ELSE c.error,
   search |-> IF partial THEN Absent ELSE c.search]

(* A thought is only ever in a partial event; a streamed text is in the    *)
(* partial events and again, whole, in the final one; a tool call is in    *)
(* the final one and its response in an event of the runner's.             *)
EventsOf(c) ==
  (IF c.thought THEN <<CallEvent(TRUE, <<[kind |-> "thought", text |-> "hm"]>>, c)>> ELSE <<>>)
  \o (IF c.streamed /\ c.said # Absent THEN <<CallEvent(TRUE, <<Text(c.said)>>, c)>> ELSE <<>>)
  \o <<CallEvent(FALSE, IF c.tool THEN <<[kind |-> "functionCall", text |-> "t"]>>
                    ELSE IF c.said # Absent THEN <<Text(c.said)>> ELSE <<>>, c)>>
  \o (IF c.tool THEN <<[CallEvent(TRUE, <<[kind |-> "functionResponse", text |-> "t"]>>, c)
                          EXCEPT !.partial = FALSE, !.author = "runner"]>> ELSE <<>>)

(* What the provider's own tools did: a call each, and the sources it      *)
(* returned as a response.                                                 *)
serverToolEvents(e) ==
  IF e.partial \/ e.search = Absent THEN <<>>
  ELSE <<"ToolCall">> \o IF e.search = "sources" THEN <<"ToolResponse">> ELSE <<>>

(* Plausible bug: the answer is collected from every event that has text.  *)
AnswerOfEvery(e, p) == p.kind = "text"
AnswerOf(e, p) == p.kind = "text" /\ ~e.partial

ToolEvents(e) ==
  LET own == SelectSeq(e.parts, LAMBDA p : p.kind \in {"functionCall", "functionResponse"})
  IN  [i \in 1 .. Len(own) |-> IF own[i].kind = "functionCall" THEN "ToolCall" ELSE "ToolResponse"]
      \o serverToolEvents(e)

Watch(row, e) ==
  LET answer == SelectSeq(e.parts, LAMBDA p : AnswerOf(e, p)) IN
  [error |-> IF e.error \notin {Absent, "STOP"} THEN e.error ELSE row.error,
   input |-> IF e.usage # <<>> /\ e.usage[1] > row.input THEN e.usage[1] ELSE row.input,
   output |-> row.output + IF e.usage # <<>> THEN e.usage[2] ELSE 0,
   text |-> row.text \o [i \in 1 .. Len(answer) |-> answer[i].text],
   agent |-> IF answer # <<>> THEN e.author ELSE row.agent,
   tools |-> row.tools \o ToolEvents(e)]

(* traceAgentRun: every event seen, in order, then the attributes.         *)
traceAgentRun(events) ==
  FoldLeft(Watch, [error |-> Absent, input |-> 0, output |-> 0, text |-> <<>>,
                   agent |-> Absent, tools |-> <<>>], events)

(* The row: an empty answer is "", an absent code or agent null.           *)
toTurnRow(events) ==
  LET seen == traceAgentRun(events) IN
  [seen |-> seen, tool_calls |-> Len(SelectSeq(seen.tools, LAMBDA t : t = "ToolCall"))]

\* A turn's last call, alone or after one other.
TurnAsks == ModelCalls
TurnsEnding(last) == {<<last>>} \cup {<<first, last>> : first \in ModelCalls}
EventsOfTurn(calls) == FlattenSeq([i \in 1 .. Len(calls) |-> EventsOf(calls[i])])
Count(calls, P(_)) == Cardinality({i \in DOMAIN calls : P(calls[i])})

(* The row of a turn is what its calls said, once each and in order,       *)
(* however each was delivered; it has a tool call for each call of a tool  *)
(* here or at the provider, and the tokens of every call once.             *)
RowSaysOnce(last) == \A calls \in TurnsEnding(last) :
  LET row == toTurnRow(EventsOfTurn(calls))
      said == SelectSeq(calls, LAMBDA c : c.said # Absent)
  IN  /\ row.seen.text = [i \in 1 .. Len(said) |-> said[i].said]
      /\ row.tool_calls = Count(calls, LAMBDA c : c.tool) + Count(calls, LAMBDA c : c.search # Absent)
      /\ row.seen.output = Count(calls, LAMBDA c : c.error # "5xx")
      /\ row.seen.error = Absent <=> \A i \in DOMAIN calls : calls[i].error # "5xx"
=============================================================================
