----------------------------- MODULE CallProofs -----------------------------
(* A model call shows its provider's stream once and sends no request it    *)
(* must not, for every retry policy and every length of an answer; and a    *)
(* remote task is not left behind silently, for every number of polls.      *)
(*                                                                          *)
(* What a model call showed is numbered from one (Numbered), nothing is     *)
(* shown before a request is answered (Before), and what was shown and what *)
(* the splitter holds are together all that arrived (Streamed); a request   *)
(* sent is an attempt, but for the one without the reasoning parameter      *)
(* (Counted).                                                               *)
EXTENDS ModelCall, RemoteCall, SequenceTheorems, TLAPS

Frag == [n : Nat, thought : BOOLEAN]
Text == Seq(Frag)
Count == Nat
Texts == {<<>>} \cup {TextOf(s) : s \in Seq(Frag)}
Phases == {"idle", "asking", "waiting", "body", "done"}

CallRecord ==
  [phase : Phases, adapter : Adapters, stream : BOOLEAN, reasoning : BOOLEAN,
   aborted : BOOLEAN, attempt : Count, sent : Count, arrived : Count,
   held : Text, shown : Text, final : Texts, charged : Count, outcome : Outcomes]

Numbered(c) == \A i \in 1 .. Len(c.shown) : c.shown[i].n = i

Before(c) ==
  c.phase \in {"idle", "asking", "waiting"} =>
    c.shown = <<>> /\ c.held = <<>> /\ c.arrived = 0

(* n fragments arrived: shown, or all but the last one shown, which is held. *)
Stands(shown, held, n) ==
  \/ held = <<>> /\ Len(shown) = n
  \/ Len(held) = 1 /\ held[1].n = n /\ n = Len(shown) + 1

Streamed(c) ==
  c.phase = "body" =>
    /\ Stands(c.shown, c.held, c.arrived)
    /\ ~c.stream => c.shown = <<>> /\ c.held = <<>>

Whole(c) ==
  IF c.outcome = "final"
  THEN c.phase = "done" /\ (c.stream => c.final = TextOf(c.shown) /\ Len(c.shown) = c.arrived)
  ELSE c.outcome # "none" => c.phase = "done"

Counted(c) ==
  /\ c.phase = "idle" => ~c.aborted /\ c.sent = 0 /\ c.attempt = 1
  /\ c.attempt <= MaxAttempts
  /\ c.adapter \in {"chat", "gemini"} => c.sent <= c.attempt
  /\ c.phase = "waiting" => c.adapter \in {"chat", "gemini"} /\ c.attempt < MaxAttempts
  /\ c.reasoning /\ c.phase # "idle" => c.adapter = "responses" /\ c.sent <= 1

Sound(c) ==
  c \in CallRecord /\ Numbered(c) /\ Before(c) /\ Streamed(c) /\ Whole(c) /\ Counted(c)
IInv == Sound(call)

(* The policy of a run that states its attempts has those attempts.         *)
LEMMA PolicyAttempts == policyOfRun.maxAttempts = MaxAttempts
<1>1. MaxAttempts \in 1 .. 10 /\ MaxAttempts # None
  BY CallAssumption DEF None
<1>2. LesserOf(10, GreaterOf(1, MaxAttempts)) = MaxAttempts
  BY <1>1 DEF LesserOf, GreaterOf
<1> QED BY <1>1, <1>2 DEF policyOfRun, retryPolicy, DEFAULT_RETRY_POLICY

(* A retry is only granted below the policy's attempts.                     *)
LEMMA RetryIsBounded ==
  ASSUME NEW decision, IInv, nextRetryDelay(call.attempt, decision, policyOfRun, call.aborted) # {}
  PROVE  call.attempt < MaxAttempts /\ ~call.aborted
BY PolicyAttempts, CallAssumption DEF nextRetryDelay, IInv, Sound, CallRecord, Count

(* A call that ends other than well ends in a sound state.                  *)
LEMMA FinishedKeeps ==
  ASSUME IInv, call.phase # "idle",
         NEW outcome \in Outcomes \ {"none", "final"}
  PROVE  Sound(CallFinished(call, outcome))
<1> DEFINE d == CallFinished(call, outcome)
<1>1. <<>> \in Text /\ call.charged \in Count /\ call.charged + 1 \in Count
  BY DEF IInv, Sound, CallRecord, Text, Count
<1>2. d \in CallRecord
  BY <1>1 DEF IInv, Sound, CallRecord, CallFinished, Phases
<1>3. /\ d.phase = "done" /\ d.outcome = outcome /\ d.shown = call.shown
      /\ d.attempt = call.attempt /\ d.adapter = call.adapter /\ d.sent = call.sent
      /\ d.reasoning = call.reasoning
  BY DEF IInv, Sound, CallRecord, CallFinished
<1>4. Numbered(d)
  BY <1>3 DEF IInv, Sound, Numbered
<1>5. Before(d) /\ Streamed(d) /\ Whole(d)
  BY <1>3 DEF Before, Streamed, Whole
<1>6. Counted(d)
  BY <1>3 DEF IInv, Sound, Counted
<1> QED BY <1>2, <1>4, <1>5, <1>6 DEF Sound

(* A failure retried or let through.                                        *)
LEMMA FailureKeeps ==
  ASSUME IInv, call.phase \in {"asking", "body"}, NEW decision, AfterFailure(decision)
  PROVE  IInv'
<1> DEFINE delays == nextRetryDelay(call.attempt, decision, policyOfRun, call.aborted)
<1>1. CASE MayRetry /\ delays # {}
  <2>1. call' = [call EXCEPT !.phase = "waiting", !.arrived = 0, !.held = <<>>]
    BY <1>1 DEF AfterFailure
  <2>2. call.attempt < MaxAttempts
    BY <1>1, RetryIsBounded
  <2>3. call.shown = <<>> /\ call.adapter \in {"chat", "gemini"}
    BY <1>1 DEF MayRetry, RetriesItself
  <2>4. 0 \in Count /\ <<>> \in Text
    BY DEF Count, Text
  <2>5. call' \in CallRecord
    BY <2>1, <2>4 DEF IInv, Sound, CallRecord, Phases
  <2>6. /\ call'.phase = "waiting" /\ call'.arrived = 0 /\ call'.held = <<>>
        /\ call'.shown = call.shown /\ call'.outcome = call.outcome
        /\ call'.attempt = call.attempt /\ call'.adapter = call.adapter
        /\ call'.sent = call.sent /\ call'.reasoning = call.reasoning
    BY <2>1 DEF IInv, Sound, CallRecord
  <2>7. Numbered(call') /\ Before(call') /\ Streamed(call') /\ Whole(call')
    BY <2>3, <2>6 DEF IInv, Sound, Numbered, Before, Streamed, Whole
  <2>8. Counted(call')
    BY <2>2, <2>3, <2>6 DEF IInv, Sound, Counted
  <2> QED BY <2>5, <2>7, <2>8 DEF IInv, Sound
<1>2. CASE ~(MayRetry /\ delays # {})
  <2>1. call' = Failed(call)
    BY <1>2 DEF AfterFailure
  <2>2. PICK o \in Outcomes \ {"none", "final"} : call' = CallFinished(call, o)
    BY <2>1 DEF Failed, Outcomes
  <2>3. Sound(CallFinished(call, o))
    BY FinishedKeeps
  <2> QED BY <2>2, <2>3 DEF IInv
<1> QED BY <1>1, <1>2
(* The charge, the span and the first request.                              *)
LEMMA ChargeKeeps ==
  ASSUME IInv, NEW a \in Adapters, NEW stream \in BOOLEAN, NEW reasoning \in BOOLEAN,
         Charge(a, stream, reasoning)
  PROVE  IInv'
<1>1. PICK opened \in CallRecord :
        /\ opened.phase = "asking" /\ opened.outcome = "none"
        /\ opened.shown = <<>> /\ opened.held = <<>> /\ opened.arrived = 0
        /\ opened.attempt = 1 /\ opened.sent = 0
        /\ opened.reasoning => opened.adapter = "responses"
        /\ \/ call' = [opened EXCEPT !.phase = "done", !.outcome = "refused"]
           \/ call' = CallFinished(opened, "error")
           \/ call' = [opened EXCEPT !.sent = 1]
  <2> DEFINE o == [call EXCEPT !.phase = "asking", !.adapter = a, !.stream = stream,
                               !.reasoning = reasoning /\ a = "responses"]
  <2>1. call.phase = "idle" /\ o \in CallRecord
    BY DEF Charge, IInv, Sound, CallRecord, Phases
  <2>2. /\ o.phase = "asking" /\ o.adapter = a
        /\ o.reasoning = (reasoning /\ a = "responses")
        /\ o.outcome = call.outcome /\ o.shown = call.shown /\ o.held = call.held
        /\ o.arrived = call.arrived /\ o.attempt = call.attempt /\ o.sent = call.sent
    BY DEF IInv, Sound, CallRecord
  <2>3. /\ call.outcome = "none" /\ call.shown = <<>> /\ call.held = <<>>
        /\ call.arrived = 0 /\ call.attempt = 1 /\ call.sent = 0
    BY <2>1 DEF IInv, Sound, Before, Whole, Counted
  <2>4. \/ call' = [o EXCEPT !.phase = "done", !.outcome = "refused"]
        \/ call' = CallFinished(o, "error")
        \/ call' = [o EXCEPT !.sent = 1]
    BY DEF Charge
  <2> HIDE DEF o
  <2> QED BY <2>1, <2>2, <2>3, <2>4
<1>2. /\ opened.charged + 1 \in Count /\ 1 \in Count /\ <<>> \in Text
      /\ "refused" \in Outcomes /\ "error" \in Outcomes
  BY DEF CallRecord, Count, Text, Outcomes
<1>3. call' \in CallRecord
  BY <1>1, <1>2, ZenonT(60) DEF CallRecord, CallFinished, Phases
<1>4. /\ \/ call'.phase = "done" /\ call'.outcome \in {"refused", "error"}
         \/ call'.phase = "asking" /\ call'.outcome = "none"
      /\ call'.shown = <<>> /\ call'.held = <<>> /\ call'.arrived = 0
      /\ call'.attempt = 1 /\ call'.sent \in {0, 1}
      /\ call'.reasoning => call'.adapter = "responses"
  BY <1>1 DEF CallRecord, CallFinished
<1>5. 1 <= MaxAttempts
  BY CallAssumption
<1> QED BY <1>3, <1>4, <1>5 DEF IInv, Sound, Numbered, Before, Streamed, Whole, Counted

(* The request leaves again: another attempt, or without its reasoning     *)
(* parameter.                                                               *)
LEMMA SendKeeps ==
  ASSUME IInv, NEW attempt \in Nat,
         call.phase \in {"asking", "waiting"}, attempt <= MaxAttempts,
         call' = [call EXCEPT !.phase = "asking", !.reasoning = FALSE,
                              !.attempt = attempt, !.sent = @ + 1],
         call.adapter \in {"chat", "gemini"} => attempt = call.attempt + 1
  PROVE  IInv'
<1>1. attempt \in Count /\ call.sent + 1 \in Count
  BY DEF IInv, Sound, CallRecord, Count
<1>2. call' \in CallRecord
  BY <1>1 DEF IInv, Sound, CallRecord, Phases
<1>3. /\ call'.phase = "asking" /\ call'.attempt = attempt /\ call'.sent = call.sent + 1
      /\ ~call'.reasoning /\ call'.adapter = call.adapter
      /\ call'.shown = call.shown /\ call'.held = call.held
      /\ call'.arrived = call.arrived /\ call'.outcome = call.outcome
  BY DEF IInv, Sound, CallRecord
<1>4. Numbered(call') /\ Before(call') /\ Streamed(call') /\ Whole(call')
  BY <1>3 DEF IInv, Sound, Numbered, Before, Streamed, Whole
<1>5. Counted(call')
  BY <1>3 DEF IInv, Sound, CallRecord, Count, Counted
<1> QED BY <1>2, <1>4, <1>5 DEF IInv, Sound

LEMMA RefusedKeeps ==
  ASSUME IInv, NEW status, NEW header, Refused(status, header)
  PROVE  IInv'
<1>1. CASE ReasoningRefused(status) /\ ~call.aborted
  <2>1. call.reasoning /\ call.phase = "asking" /\ call \in CallRecord
    BY <1>1 DEF ReasoningRefused, Refused, IInv, Sound
  <2>2. call.adapter = "responses" /\ call.attempt \in Nat /\ call.attempt <= MaxAttempts
    BY <2>1 DEF IInv, Sound, Counted, CallRecord, Count
  <2>3. call' = [call EXCEPT !.reasoning = FALSE, !.sent = @ + 1]
    BY <1>1 DEF Refused
  <2>4. call' = [call EXCEPT !.phase = "asking", !.reasoning = FALSE,
                             !.attempt = call.attempt, !.sent = @ + 1]
    BY <2>1, <2>3 DEF CallRecord
  <2> QED BY <2>1, <2>2, <2>4, SendKeeps
<1>2. CASE ~(ReasoningRefused(status) /\ ~call.aborted)
  BY <1>2, FailureKeeps DEF Refused
<1> QED BY <1>1, <1>2

LEMMA WaitOverKeeps ==
  ASSUME IInv, WaitOver
  PROVE  IInv'
<1>1. CASE call.aborted
  <2>1. PICK o \in Outcomes \ {"none", "final"} : call' = CallFinished(call, o)
    BY <1>1 DEF WaitOver, Failed, Outcomes
  <2> QED BY <2>1, FinishedKeeps DEF WaitOver, IInv
<1>2. CASE ~call.aborted
  <2>1. /\ call.phase = "waiting" /\ call \in CallRecord /\ ~call.reasoning
        /\ call.attempt < MaxAttempts /\ call.attempt \in Nat
    BY DEF WaitOver, IInv, Sound, Counted, CallRecord, Count
  <2>2. call' = [call EXCEPT !.phase = "asking", !.attempt = @ + 1, !.sent = @ + 1]
    BY <1>2 DEF WaitOver
  <2>3. call' = [call EXCEPT !.phase = "asking", !.reasoning = FALSE,
                             !.attempt = call.attempt + 1, !.sent = @ + 1]
    BY <2>1, <2>2 DEF CallRecord
  <2>4. call.attempt + 1 \in Nat /\ call.attempt + 1 <= MaxAttempts
    BY <2>1, CallAssumption
  <2> QED BY <2>1, <2>3, <2>4, SendKeeps
<1> QED BY <1>1, <1>2

(* What was shown and what is held, end to end, are all that arrived.       *)
LEMMA AllThatArrived ==
  ASSUME NEW s \in Seq(Frag), NEW h \in Seq(Frag), NEW n \in Nat,
         \A i \in 1 .. Len(s) : s[i].n = i,
         Stands(s, h, n)
  PROVE  /\ s \o h \in Seq(Frag) /\ Len(s \o h) = n
         /\ \A i \in 1 .. n : (s \o h)[i].n = i
<1>1. s \o h \in Seq(Frag) /\ Len(s \o h) = Len(s) + Len(h)
  BY ConcatProperties
<1>2. CASE h = <<>> /\ Len(s) = n
  BY <1>1, <1>2, ConcatEmptySeq
<1>3. CASE Len(h) = 1 /\ h[1].n = n /\ n = Len(s) + 1
  <2>1. \A i \in 1 .. Len(s) + Len(h) : (s \o h)[i] = IF i <= Len(s) THEN s[i] ELSE h[i - Len(s)]
    BY ConcatProperties
  <2>2. Len(s) \in Nat
    BY LenProperties
  <2>3. ASSUME NEW i \in 1 .. n PROVE (s \o h)[i].n = i
    <3>1. CASE i <= Len(s)
      BY <2>1, <2>2, <3>1
    <3>2. CASE i = n
      <4>1. i - Len(s) = 1 /\ ~(i <= Len(s)) /\ i \in 1 .. Len(s) + Len(h)
        BY <1>3, <2>2, <3>2
      <4>2. (s \o h)[i] = h[1]
        BY <2>1, <4>1
      <4> QED BY <1>3, <3>2, <4>2
    <3>3. i <= Len(s) \/ i = n
      BY <1>3, <2>2
    <3> QED BY <3>1, <3>2, <3>3
  <2> QED BY <1>1, <1>3, <2>2, <2>3
<1> QED BY <1>2, <1>3 DEF Stands

(* One fragment: what was held goes out, the new one goes out or is held.   *)
LEMMA ReceiveKeeps ==
  ASSUME IInv, NEW thought \in BOOLEAN, NEW holds \in BOOLEAN, Receive(thought, holds)
  PROVE  IInv'
<1> DEFINE before == call.shown \o call.held
<1>1. /\ call \in CallRecord /\ call.phase = "body" /\ call.stream
      /\ call.shown \in Seq(Frag) /\ call.held \in Seq(Frag) /\ call.arrived \in Nat
  BY DEF Receive, IInv, Sound, CallRecord, Text, Count
<1>2. PICK f \in Frag :
        /\ f.n = call.arrived + 1
        /\ call' = [call EXCEPT !.arrived = @ + 1, !.held = IF holds THEN <<f>> ELSE <<>>,
                                !.shown = before \o IF holds THEN <<>> ELSE <<f>>]
  <2>1. [n |-> call.arrived + 1, thought |-> thought] \in Frag
    BY <1>1 DEF Frag
  <2> QED BY <2>1 DEF Receive
<1>3. /\ Stands(call.shown, call.held, call.arrived)
      /\ \A i \in 1 .. Len(call.shown) : call.shown[i].n = i
  BY <1>1 DEF IInv, Sound, Streamed, Numbered
<1>4. /\ before \in Seq(Frag) /\ Len(before) = call.arrived
      /\ \A i \in 1 .. call.arrived : before[i].n = i
  BY <1>1, <1>3, AllThatArrived
<1>5. <<f>> \in Seq(Frag) /\ Len(<<f>>) = 1 /\ <<f>>[1] = f
  BY <1>2
<1>6. \E s \in Seq(Frag), h \in Seq(Frag) :
        /\ call' = [call EXCEPT !.arrived = @ + 1, !.held = h, !.shown = s]
        /\ \A i \in 1 .. Len(s) : s[i].n = i
        /\ Stands(s, h, call.arrived + 1)
  <2>1. CASE holds
    <3>1. before \o <<>> = before
      BY <1>4, ConcatEmptySeq
    <3>2. call' = [call EXCEPT !.arrived = @ + 1, !.held = <<f>>, !.shown = before]
      BY <1>2, <2>1, <3>1
    <3> HIDE DEF before
    <3>3. Stands(before, <<f>>, call.arrived + 1)
      BY <1>1, <1>2, <1>4, <1>5 DEF Stands
    <3> QED BY <1>4, <1>5, <3>2, <3>3
  <2>2. CASE ~holds
    <3>1. call.arrived + 1 \in Nat
      BY <1>1
    <3> DEFINE after == before \o <<f>>
    <3>2. call' = [call EXCEPT !.arrived = @ + 1, !.held = <<>>, !.shown = after]
      BY <1>2, <2>2
    <3> HIDE DEF before
    <3>3. /\ after \in Seq(Frag) /\ Len(after) = call.arrived + 1
          /\ \A i \in 1 .. call.arrived + 1 : after[i].n = i
      <4>1. Stands(before, <<f>>, call.arrived + 1)
        BY <1>1, <1>2, <1>4, <1>5 DEF Stands
      <4> QED BY <1>4, <1>5, <3>1, <4>1, AllThatArrived
    <3> HIDE DEF after
    <3>4. <<>> \in Seq(Frag) /\ Stands(after, <<>>, call.arrived + 1)
      BY <3>3 DEF Stands
    <3> QED BY <3>2, <3>3, <3>4
  <2> QED BY <2>1, <2>2
<1>7. PICK s \in Seq(Frag), h \in Seq(Frag) :
        /\ call' = [call EXCEPT !.arrived = @ + 1, !.held = h, !.shown = s]
        /\ \A i \in 1 .. Len(s) : s[i].n = i
        /\ Stands(s, h, call.arrived + 1)
  BY <1>6
<1>8. s \in Text /\ h \in Text /\ call.arrived + 1 \in Count
  BY <1>1 DEF Text, Count
<1>9. call' \in CallRecord
  BY <1>1, <1>7, <1>8 DEF CallRecord
<1>10. /\ call'.phase = "body" /\ call'.stream /\ call'.arrived = call.arrived + 1
       /\ call'.shown = s /\ call'.held = h /\ call'.outcome = call.outcome
       /\ call'.attempt = call.attempt /\ call'.adapter = call.adapter
       /\ call'.sent = call.sent /\ call'.reasoning = call.reasoning
  BY <1>1, <1>7 DEF CallRecord
<1>11. Numbered(call') /\ Before(call') /\ Streamed(call')
  <2>1. Numbered(call')
    BY <1>7, <1>10 DEF Numbered
  <2>2. Before(call')
    BY <1>10 DEF Before
  <2>3. Streamed(call')
    BY <1>1, <1>7, <1>10 DEF Streamed
  <2> QED BY <2>1, <2>2, <2>3
<1>12. Whole(call') /\ Counted(call')
  BY <1>1, <1>10 DEF IInv, Sound, Whole, Counted
<1> QED BY <1>9, <1>11, <1>12 DEF IInv, Sound

(* A good end, with what was shown in full.                                 *)
LEMMA FinalKeeps ==
  ASSUME IInv, call.phase = "body", NEW s \in Seq(Frag), NEW t \in Texts,
         \A i \in 1 .. Len(s) : s[i].n = i,
         call.stream => t = TextOf(s) /\ Len(s) = call.arrived,
         call' = CallFinished([call EXCEPT !.shown = s, !.final = t], "final")
  PROVE  IInv'
<1>1. s \in Text /\ <<>> \in Text /\ call.charged + 1 \in Count /\ "final" \in Outcomes
  BY DEF IInv, Sound, CallRecord, Count, Text, Outcomes
<1>2. call' \in CallRecord
  BY <1>1 DEF IInv, Sound, CallRecord, CallFinished, Phases
<1>3. /\ call'.phase = "done" /\ call'.outcome = "final" /\ call'.shown = s
      /\ call'.final = t /\ call'.stream = call.stream /\ call'.arrived = call.arrived
      /\ call'.attempt = call.attempt /\ call'.adapter = call.adapter
      /\ call'.sent = call.sent /\ call'.reasoning = call.reasoning
  BY DEF IInv, Sound, CallRecord, CallFinished
<1>4. Numbered(call') /\ Before(call') /\ Streamed(call') /\ Whole(call')
  BY <1>3 DEF Numbered, Before, Streamed, Whole
<1>5. Counted(call')
  BY <1>3 DEF IInv, Sound, Counted
<1> QED BY <1>2, <1>4, <1>5 DEF IInv, Sound

LEMMA StreamEndsKeeps ==
  ASSUME IInv, StreamEnds
  PROVE  IInv'
<1>1. /\ call.phase = "body" /\ call.stream /\ call.arrived \in Nat
      /\ call.shown \in Seq(Frag) /\ call.held \in Seq(Frag)
  BY DEF StreamEnds, IInv, Sound, CallRecord, Text, Count
<1>2. /\ Stands(call.shown, call.held, call.arrived)
      /\ \A i \in 1 .. Len(call.shown) : call.shown[i].n = i
  BY <1>1 DEF IInv, Sound, Streamed, Numbered
<1>3. /\ Flush \in Seq(Frag) /\ Len(Flush) = call.arrived
      /\ \A i \in 1 .. Len(Flush) : Flush[i].n = i
  BY <1>1, <1>2, AllThatArrived DEF Flush
<1>5. TextOf(Flush) \in Texts
  BY <1>3 DEF Texts
<1>6. call' = CallFinished([call EXCEPT !.shown = Flush, !.final = TextOf(Flush)], "final")
  BY DEF StreamEnds
<1> QED BY <1>1, <1>3, <1>5, <1>6, FinalKeeps

LEMMA WholeBodyKeeps ==
  ASSUME IInv, NEW thought \in BOOLEAN, WholeBody(thought)
  PROVE  IInv'
<1> DEFINE s == IF thought THEN <<[n |-> 1, thought |-> TRUE]>> ELSE <<>>
<1>1. call.phase = "body" /\ ~call.stream /\ call.final \in Texts
  BY DEF WholeBody, IInv, Sound, CallRecord
<1>2. s \in Seq(Frag) /\ \A i \in 1 .. Len(s) : s[i].n = i
  <2>1. CASE thought
    <3>1. PICK f \in Frag : s = <<f>> /\ f.n = 1
      <4>1. [n |-> 1, thought |-> TRUE] \in Frag
        BY DEF Frag
      <4> QED BY <2>1, <4>1
    <3> HIDE DEF s
    <3> QED BY <3>1
  <2>2. CASE ~thought
    <3>1. s = <<>>
      BY <2>2
    <3> HIDE DEF s
    <3> QED BY <3>1
  <2> QED BY <2>1, <2>2
<1>3. call' = CallFinished([call EXCEPT !.shown = s], "final")
  BY DEF WholeBody
<1>4. [call EXCEPT !.shown = s] = [call EXCEPT !.shown = s, !.final = call.final]
  <2>1. call \in CallRecord
    BY DEF IInv, Sound
  <2> HIDE DEF s
  <2> QED BY <2>1 DEF CallRecord
<1> HIDE DEF s
<1> QED BY <1>1, <1>2, <1>3, <1>4, FinalKeeps

LEMMA CallStart == CallInit => IInv
<1> SUFFICES ASSUME CallInit PROVE IInv
  OBVIOUS
<1>1. 0 \in Count /\ 1 \in Count /\ <<>> \in Text /\ <<>> \in Texts
  BY DEF Count, Text, Texts
<1>2. call \in CallRecord
  BY <1>1 DEF CallInit, CallRecord, Phases, Adapters, Outcomes
<1>3. 1 <= MaxAttempts
  BY CallAssumption
<1> QED BY <1>2, <1>3
        DEF CallInit, IInv, Sound, Numbered, Before, Streamed, Whole, Counted

LEMMA CallKeeps == IInv /\ [CallNext]_call => IInv'
<1> SUFFICES ASSUME IInv, [CallNext]_call PROVE IInv'
  OBVIOUS
<1>1. ASSUME Abort PROVE IInv'
  <2>1. call.phase # "idle" /\ call' = [call EXCEPT !.aborted = TRUE]
    BY <1>1 DEF Abort
  <2>2. call' \in CallRecord
    BY <2>1 DEF IInv, Sound, CallRecord
  <2>3. \A field \in (DOMAIN call) \ {"aborted"} : call'[field] = call[field]
    BY <2>1 DEF IInv, Sound, CallRecord
  <2> QED BY <2>1, <2>2, <2>3
          DEF IInv, Sound, CallRecord, Numbered, Before, Streamed, Whole, Counted
<1>2. ASSUME Answered PROVE IInv'
  <2>1. call.phase = "asking" /\ call' = [call EXCEPT !.phase = "body"]
    BY <1>2 DEF Answered
  <2>2. call' \in CallRecord
    BY <2>1 DEF IInv, Sound, CallRecord, Phases
  <2>3. /\ call'.phase = "body" /\ call'.shown = call.shown /\ call'.held = call.held
        /\ call'.arrived = call.arrived /\ call'.outcome = call.outcome
        /\ call'.attempt = call.attempt /\ call'.adapter = call.adapter
        /\ call'.sent = call.sent /\ call'.reasoning = call.reasoning
    BY <2>1 DEF IInv, Sound, CallRecord
  <2>4. Numbered(call') /\ Before(call') /\ Whole(call') /\ Counted(call')
    BY <2>1, <2>3 DEF IInv, Sound, Numbered, Before, Whole, Counted
  <2>5. Streamed(call')
    <3>1. call'.shown = <<>> /\ call'.held = <<>> /\ call'.arrived = 0
      BY <2>1, <2>3 DEF IInv, Sound, Before
    <3>2. Stands(call'.shown, call'.held, call'.arrived)
      BY <3>1 DEF Stands
    <3> QED BY <3>1, <3>2 DEF Streamed
  <2> QED BY <2>2, <2>4, <2>5 DEF IInv, Sound
<1>3. ASSUME Abandon PROVE IInv'
  <2>1. "abandoned" \in Outcomes \ {"none", "final"}
    BY DEF Outcomes
  <2> QED BY <1>3, <2>1, FinishedKeeps DEF Abandon, IInv
<1>4. ASSUME NEW code, BodyFails(code) PROVE IInv'
  <2>1. CASE call.adapter = "gemini"
    BY <1>4, <2>1, FailureKeeps DEF BodyFails
  <2>2. CASE call.adapter # "gemini"
    <3>1. PICK o \in Outcomes \ {"none", "final"} : call' = CallFinished(call, o)
      BY <1>4, <2>2 DEF BodyFails, Failed, Outcomes
    <3> QED BY <1>4, <3>1, FinishedKeeps DEF BodyFails, IInv
  <2> QED BY <2>1, <2>2
<1>5. ASSUME CallEnds PROVE IInv'
  <2>1. ASSUME NEW code, Unreachable(code) PROVE IInv'
    BY <2>1, FailureKeeps DEF Unreachable
  <2>2. ASSUME RequestAborted PROVE IInv'
    BY <2>2, FailureKeeps DEF RequestAborted
  <2> QED BY <1>4, <1>5, <2>1, <2>2, RefusedKeeps, WaitOverKeeps, StreamEndsKeeps,
             WholeBodyKeeps DEF CallEnds
<1>6. CASE UNCHANGED call
  BY <1>6 DEF IInv
<1> QED BY <1>1, <1>2, <1>3, <1>5, <1>6, ChargeKeeps, ReceiveKeeps DEF CallNext

LEMMA IInvHolds == CallSpec => []IInv
BY CallStart, CallKeeps, PTL DEF CallSpec

(* retry.ts, the adapters: whatever is retried, held back or cut off, what  *)
(* the consumer is given is the provider's stream, once, and a final        *)
(* response repeats it whole.                                               *)
THEOREM CallsAreExact == CallSpec => []CallIsExact
<1>1. IInv => CallIsExact
  <2> SUFFICES ASSUME IInv PROVE CallIsExact
    OBVIOUS
  <2>1. NothingTwice
    BY DEF NothingTwice, IInv, Sound, Numbered
  <2>2. FinalIsWhole
    BY DEF FinalIsWhole, IInv, Sound, Whole
  <2> QED BY <2>1, <2>2 DEF CallIsExact
<1> QED BY <1>1, IInvHolds, PTL

(* What a step sends, by the step that sends it.                            *)
LEMMA SendIsDue ==
  ASSUME IInv, [CallNext]_call, call'.sent > call.sent
  PROVE  ~call.aborted /\ call.shown = <<>> /\ call.sent <= MaxAttempts
<1>1. call \in CallRecord /\ call.sent \in Nat /\ call'.sent # call.sent
  BY DEF IInv, Sound, CallRecord, Count
<1>2. \A o : CallFinished(call, o).sent = call.sent
  BY <1>1 DEF CallFinished, CallRecord
<1>3. call' # Failed(call) /\ \A decision : ~AfterFailure(decision)
  <2>1. [call EXCEPT !.phase = "waiting", !.arrived = 0, !.held = <<>>].sent = call.sent
    BY <1>1 DEF CallRecord
  <2>2. Failed(call).sent = call.sent
    BY <1>2 DEF Failed
  <2>3. ASSUME NEW decision, AfterFailure(decision) PROVE FALSE
    <3>1. \/ call' = [call EXCEPT !.phase = "waiting", !.arrived = 0, !.held = <<>>]
          \/ call' = Failed(call)
      BY <2>3 DEF AfterFailure
    <3> QED BY <1>1, <2>1, <2>2, <3>1
  <2> QED BY <1>1, <2>2, <2>3
<1>4. CASE \E a \in Adapters, stream, reasoning \in BOOLEAN : Charge(a, stream, reasoning)
  <2>1. call.phase = "idle"
    BY <1>4 DEF Charge
  <2> QED BY <2>1, CallAssumption DEF IInv, Sound, Counted, Before
<1>5. CASE Abort \/ Answered \/ Abandon \/ UNCHANGED call
  BY <1>1, <1>2, <1>5 DEF Abort, Answered, Abandon, CallRecord
<1>6. CASE \E thought, holds \in BOOLEAN : Receive(thought, holds)
  <2>1. \A h, s : [call EXCEPT !.arrived = @ + 1, !.held = h, !.shown = s].sent = call.sent
    BY <1>1 DEF CallRecord
  <2> QED BY <1>1, <1>6, <2>1 DEF Receive
<1>7. CASE \E status, header : Refused(status, header)
  <2>1. call.phase = "asking" /\ call.reasoning /\ ~call.aborted
    BY <1>3, <1>7 DEF Refused, ReasoningRefused
  <2>2. call.sent <= 1
    BY <2>1 DEF IInv, Sound, Counted
  <2> QED BY <1>1, <2>1, <2>2, CallAssumption DEF IInv, Sound, Before
<1>8. CASE WaitOver
  <2>1. call.phase = "waiting" /\ ~call.aborted
    BY <1>3, <1>8 DEF WaitOver
  <2>2. call.sent <= call.attempt /\ call.attempt < MaxAttempts /\ call.attempt \in Nat
    BY <1>1, <2>1 DEF IInv, Sound, Counted, CallRecord, Count
  <2> QED BY <1>1, <2>1, <2>2, CallAssumption DEF IInv, Sound, Before
<1>9. CASE StreamEnds \/ \E thought \in BOOLEAN : WholeBody(thought)
  <2>1. ASSUME NEW s, NEW t PROVE call' # CallFinished([call EXCEPT !.shown = s, !.final = t], "final")
    BY <1>1 DEF CallFinished, CallRecord
  <2>2. ASSUME NEW s PROVE call' # CallFinished([call EXCEPT !.shown = s], "final")
    BY <1>1 DEF CallFinished, CallRecord
  <2>3. ~StreamEnds
    BY <2>1 DEF StreamEnds
  <2>4. \A thought \in BOOLEAN : ~WholeBody(thought)
    BY <2>2 DEF WholeBody
  <2> QED BY <1>9, <2>3, <2>4
<1>10. CASE RequestAborted \/ (\E code : Unreachable(code) \/ BodyFails(code))
  BY <1>3, <1>10 DEF RequestAborted, Unreachable, BodyFails
<1> QED BY <1>4, <1>5, <1>6, <1>7, <1>8, <1>9, <1>10 DEF CallNext, CallEnds

(* retry.ts:300-360: no request goes out under an aborted signal, nor after *)
(* anything was shown, and there are no more than the policy's attempts and *)
(* one without the reasoning parameter.                                     *)
THEOREM EverySendIsDue == CallSpec => SendsAreDue
<1>1. IInv /\ [CallNext]_call =>
        [call'.sent > call.sent =>
           ~call.aborted /\ call.shown = <<>> /\ call.sent <= MaxAttempts]_call
  BY SendIsDue
<1> QED BY <1>1, IInvHolds, PTL DEF CallSpec, SendsAreDue

(* The call of a remote agent. What the caller last saw settled does not    *)
(* move (SeenSettled), and a call that gives up on a task asks to cancel it *)
(* before it does anything else (AskedFirst).                               *)
RemotePhases == {"idle", "resolving", "sending", "deciding", "sleeping", "fetching", "cancelling", "done"}
RemoteOutcomes == {"none", "no request", "unreachable", "deadline", "canceled", "answer", "needs input", "ended badly"}

RemoteTyped ==
  /\ remoteCall \in [phase : RemotePhases, cached : BOOLEAN, seen : RemoteStates \cup {"none"},
                     polls : Nat, aborted : BOOLEAN, late : BOOLEAN, cutShort : BOOLEAN,
                     askedToCancel : BOOLEAN, outcome : RemoteOutcomes]
  /\ remoteTask \in RemoteStates \cup {"none"}

(* Nothing runs at the other side before the message is sent.              *)
NotYetSent == remoteCall.phase \in {"idle", "resolving", "sending"} => remoteTask = "none"
(* A settled task does not move: what was seen of it is what it is.        *)
SeenSettled == remoteCall.phase = "deciding" /\ Settled(remoteCall.seen) => remoteTask = remoteCall.seen
AskedFirst == remoteCall.phase = "cancelling" => remoteCall.askedToCancel

RemoteInv == RemoteTyped /\ NotYetSent /\ SeenSettled /\ AskedFirst /\ NoTaskForgotten

LEMMA OneMore == \A n \in Nat : n + 1 \in Nat
OBVIOUS

LEMMA RemoteStep == RemoteInv /\ [RemoteNext]_remoteVars => RemoteInv'
<1> SUFFICES ASSUME RemoteInv, [RemoteNext]_remoteVars PROVE RemoteInv'
  OBVIOUS
<1> USE DEF RemoteInv, RemoteTyped, NotYetSent, SeenSettled, AskedFirst, NoTaskForgotten, SetCall, CallOver,
            RemotePhases, RemoteOutcomes, RemoteStates, TERMINAL, NEEDS_INPUT, RemoteRunning, Settled
<1>1. ASSUME NEW empty \in BOOLEAN, CallAgent(empty) PROVE RemoteInv'
  BY <1>1, ZenonT(60) DEF CallAgent
<1>2. CASE AbortTurn
  BY <1>2, ZenonT(60) DEF AbortTurn
<1>3. CASE DeadlinePasses
  BY <1>3, ZenonT(60) DEF DeadlinePasses
<1>4. ASSUME NEW safe \in BOOLEAN, Resolve(safe) PROVE RemoteInv'
  BY <1>4, ZenonT(60) DEF Resolve
<1>5. ASSUME NEW taken \in BOOLEAN, SendFails(taken) PROVE RemoteInv'
  BY <1>5, ZenonT(60) DEF SendFails
<1>6. CASE LoopTest
  BY <1>6, ZenonT(60) DEF LoopTest, remoteToolOutput
<1>7. CASE WakeUp
  BY <1>7 DEF WakeUp
<1>8. CASE Fetched
  <2>1. remoteCall' = [remoteCall EXCEPT !.phase = "deciding", !.seen = remoteTask, !.polls = @ + 1]
        /\ remoteTask' = remoteTask
    BY <1>8 DEF Fetched
  <2>2. RemoteTyped'
    <3>1. "deciding" \in RemotePhases /\ remoteCall.polls \in Nat
      OBVIOUS
    <3>2. PICK n \in Nat : n = remoteCall.polls + 1
      BY <3>1, OneMore, Zenon
    <3>3. remoteCall' = [remoteCall EXCEPT !.phase = "deciding", !.seen = remoteTask, !.polls = n]
      BY <2>1, <3>2, Zenon
    <3> HIDE DEF RemoteStates, RemoteOutcomes, RemotePhases
    <3> QED BY <2>1, <3>1, <3>3
  <2>3. remoteCall'.phase = "deciding" /\ remoteCall'.seen = remoteTask
    BY <2>1
  <2> QED BY <2>1, <2>2, <2>3
<1>9. CASE FetchFails
  BY <1>9 DEF FetchFails
<1>10. ASSUME NEW done \in BOOLEAN, CancelAnswered(done) PROVE RemoteInv'
  BY <1>10 DEF CancelAnswered
<1>11. ASSUME NEW state \in RemoteStates, SendAnswered(state) PROVE RemoteInv'
  BY <1>11 DEF SendAnswered
<1>12. ASSUME NEW state \in RemoteStates, RemoteMoves(state) PROVE RemoteInv'
  <2>1. /\ remoteTask \in RemoteRunning /\ remoteTask' = state /\ remoteCall' = remoteCall
        /\ remoteTask # "none" /\ ~Settled(remoteTask)
    BY <1>12 DEF RemoteMoves
  <2>2. RemoteTyped' /\ NotYetSent' /\ AskedFirst'
    <3> HIDE DEF RemoteStates, RemotePhases, RemoteOutcomes
    <3> QED BY <2>1
  <2>3. SeenSettled'
    BY <2>1
  <2>4. NoTaskForgotten'
    BY <2>1
  <2> QED BY <2>2, <2>3, <2>4
<1>13. CASE UNCHANGED remoteVars
  <2>1. remoteCall' = remoteCall /\ remoteTask' = remoteTask
    BY <1>13 DEF remoteVars
  <2> HIDE DEF RemoteStates, RemotePhases, RemoteOutcomes, TERMINAL, NEEDS_INPUT, RemoteRunning
  <2> QED BY <2>1, ZenonT(60) DEF remoteToolOutput
<1> QED BY <1>1, <1>2, <1>3, <1>4, <1>5, <1>6, <1>7, <1>8, <1>9, <1>10, <1>11, <1>12, <1>13 DEF RemoteNext, CallMoves

(* The model is told of a remote task what it came to, and none that runs  *)
(* on is left without one of the three reasons, however polls, deadline,   *)
(* cancellation and failed requests fall (remoteAgent.ts).                 *)
THEOREM NoRemoteTaskForgotten == RemoteSpec => []NoTaskForgotten
<1>1. RemoteInit => RemoteInv
  BY DEF RemoteInit, RemoteInv, RemoteTyped, NotYetSent, SeenSettled, AskedFirst, NoTaskForgotten, RemotePhases, RemoteOutcomes,
         RemoteStates, TERMINAL, NEEDS_INPUT, RemoteRunning, Settled
<1>2. RemoteInv => NoTaskForgotten
  BY DEF RemoteInv
<1> QED BY <1>1, <1>2, RemoteStep, PTL DEF RemoteSpec
=============================================================================
