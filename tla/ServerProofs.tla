---------------------------- MODULE ServerProofs ----------------------------
(* The server's stores: every agent is built once, a client that pages      *)
(* through the tasks misses none, the budgets are charged what ended, and   *)
(* every span is written once or counted as dropped, for any number of      *)
(* agents, loads, rows, pages, saves, tasks, scopes, days and spans; the    *)
(* last three are TablesAreTrue of Stores.                                  *)
EXTENDS AgentDirectory, Stores, FiniteSetTheorems, WellFoundedInduction, TLAPS

(* Telemetry. Spans are written once or counted as dropped, their payloads  *)
(* are kept for the reason the policy gives, and a model call's tokens are  *)
(* credited to the agent above it, for every tree of spans, every cap of    *)
(* the pending payloads and of the lineage, and every time to live.  The    *)
(* rows, the pending payloads and the dropped ones are together all that    *)
(* was handed over (Sound, by counting them), a span's lineage is its real  *)
(* one (Lined), and from it follows who is credited (CreditIsTrue).         *)

Reasons == {"undecided", "none", "error", "fallback", "all", "sample"}
PayloadRows == [table : {"payloads"}, span : SpanIds, reason : Reasons]
Payloads(out) == IF policy.mode \in {"off", "unset"} THEN {} ELSE {s \in out : isPayloadSpan(s)}
WaitingIn(pending, some) == {w \in some \X SpanIds : w[2] \in Range(pending[w[1]].spans)}
WaitingOf(pending) == WaitingIn(pending, Traces)
Emptied(pending, t) == [pending EXCEPT ![t].spans = <<>>]
RowsOf(waiting, reason) == [i \in 1 .. Len(waiting) |-> PayloadRow(waiting[i], reason)]
Joined(pending, t, at, s) == [pending EXCEPT ![t] = [at |-> at, spans |-> Append(pending[t].spans, s)]]
Places(t, q) == {<<t, q[i]>> : i \in 1 .. Len(q)}

Reasoned(t, reason, out) ==
  \E s \in out : Spans[s].kind = "root" /\ Spans[s].trace = t /\ reason = payloadDecision(t, span[s].turn)

Queueing(pending, out) ==
  /\ pending \in [Traces -> [at : Nat, spans : Seq(SpanIds)]]
  /\ \A t \in Traces : \A i \in 1 .. Len(pending[t].spans) :
       /\ Spans[pending[t].spans[i]].trace = t /\ pending[t].spans[i] \in Payloads(out)
       /\ \A j \in 1 .. Len(pending[t].spans) : pending[t].spans[i] = pending[t].spans[j] => i = j
Written(table, pending, out) ==
  /\ table \in Seq(PayloadRows)
  /\ \A i \in 1 .. Len(table) :
       /\ table[i].span \in Payloads(out)
       /\ \A t \in Traces : \A j \in 1 .. Len(pending[t].spans) : table[i].span # pending[t].spans[j]
       /\ \A j \in 1 .. Len(table) : table[i].span = table[j].span => i = j
       /\ Reasoned(Spans[table[i].span].trace, table[i].reason, out)
Decided(decisions, out) ==
  /\ decisions \in [Traces -> [at : Nat, reason : Reasons]]
  /\ \A t \in Traces : decisions[t].reason \notin {"undecided", "none"} => Reasoned(t, decisions[t].reason, out)
Balanced(pending, table, count, dropped, out) ==
  /\ count = Cardinality(WaitingOf(pending)) /\ count <= PENDING_CAP
  /\ dropped \in Nat
  /\ Len(table) + count + dropped = Cardinality(Payloads(out))

Sound(e, out) ==
  /\ DOMAIN e = {"pending", "decisions", "pendingCount", "dropped", "rows"}
  /\ Queueing(e.pending, out) /\ Written(e.rows, e.pending, out) /\ Decided(e.decisions, out)
  /\ Balanced(e.pending, e.rows, e.pendingCount, e.dropped, out)

\* Where a payload is counted: among the rows, those that wait, the dropped.
LEMMA Tallied ==
  ASSUME NEW table \in Nat, NEW waits \in Nat, NEW lost \in Nat, NEW total \in Nat, table + waits + lost = total, NEW k \in Nat
  PROVE  /\ (table + k) + waits + lost = total + k /\ table + waits + (lost + k) = total + k /\ table + (waits + k) + lost = total + k
         /\ (table + k) + (waits - k) + lost = total /\ table + (waits - k) + (lost + k) = total
OBVIOUS

LEMMA TracesFinite == IsFiniteSet(SpanIds) /\ IsFiniteSet(Traces) /\ IsFiniteSet(Traces \X SpanIds)
<1>1. IsFiniteSet(SpanIds)
  BY TelemetryAssumption DEF SpanIds
<1>2. IsFiniteSet(Traces)
  <2> DEFINE f == [s \in SpanIds |-> Spans[s].trace]
  <2>1. f \in Surjection(SpanIds, Traces)
    BY DEF Surjection, Traces
  <2> QED BY <1>1, <2>1, FS_Surjection
<1> QED BY <1>1, <1>2, FS_Product

LEMMA WaitingFinite ==
  ASSUME NEW pending
  PROVE  IsFiniteSet(WaitingOf(pending)) /\ Cardinality(WaitingOf(pending)) \in Nat
<1>1. WaitingOf(pending) \in SUBSET (Traces \X SpanIds)
  BY DEF WaitingOf, WaitingIn
<1> QED BY <1>1, TracesFinite, FS_Subset, FS_CardinalityType

\* Of a sequence without repetition there are as many elements as places.
LEMMA Lengthwise ==
  ASSUME NEW t, NEW q \in Seq(SpanIds), \A i, j \in 1 .. Len(q) : q[i] = q[j] => i = j
  PROVE  IsFiniteSet(Places(t, q)) /\ Cardinality(Places(t, q)) = Len(q)
<1> DEFINE f == [i \in 1 .. Len(q) |-> <<t, q[i]>>]
<1>1. f \in Bijection(1 .. Len(q), Places(t, q))
  <2>1. f \in [1 .. Len(q) -> Places(t, q)] /\ \A p \in Places(t, q) : \E i \in 1 .. Len(q) : f[i] = p
    BY DEF Places
  <2>2. \A i, j \in 1 .. Len(q) : f[i] = f[j] => i = j
    OBVIOUS
  <2> QED BY <2>1, <2>2 DEF Bijection, Injection, Surjection, IsInjective
<1> HIDE DEF f
<1>2. Len(q) \in Nat
  OBVIOUS
<1>3. ExistsBijection(1 .. Len(q), Places(t, q))
  BY <1>1 DEF ExistsBijection
<1>4. IsFiniteSet(1 .. Len(q))
  BY <1>2, FS_Interval
<1> QED BY <1>2, <1>3, <1>4, FS_CountingElements, FS_Bijection

\* Forgetting what waits takes as many off the count.
LEMMA Removing ==
  ASSUME NEW pending, NEW left, NEW gone,
         gone \subseteq WaitingOf(pending), WaitingOf(left) = WaitingOf(pending) \ gone
  PROVE  /\ Cardinality(gone) \in Nat
         /\ Cardinality(WaitingOf(left)) = Cardinality(WaitingOf(pending)) - Cardinality(gone)
<1>1. WaitingOf(pending) \cap gone = gone /\ IsFiniteSet(WaitingOf(pending))
  BY WaitingFinite
<1>2. IsFiniteSet(gone)
  BY <1>1, FS_Subset
<1> QED BY <1>1, <1>2, FS_Difference, FS_CardinalityType

LEMMA MoreOut ==
  ASSUME NEW out, NEW s \in SpanIds, NEW t, NEW reason, Reasoned(t, reason, out)
  PROVE  Reasoned(t, reason, out \cup {s})
BY DEF Reasoned

\* The payloads waiting of the traces in some set are forgotten: the rest
\* still waits as it did.
LEMMA Forgetting ==
  ASSUME NEW pending, NEW out, Queueing(pending, out), NEW some \in SUBSET Traces, NEW left,
         left \in [Traces -> [at : Nat, spans : Seq(SpanIds)]],
         \A t \in some : left[t].spans = <<>>,
         \A t \in Traces \ some : left[t].spans = pending[t].spans
  PROVE  /\ Queueing(left, out)
         /\ \A table : Written(table, pending, out) => Written(table, left, out)
         /\ Cardinality(WaitingIn(pending, some)) \in Nat
         /\ Cardinality(WaitingOf(left)) = Cardinality(WaitingOf(pending)) - Cardinality(WaitingIn(pending, some))
<1>1. \A t \in Traces : Len(left[t].spans) = 0 \/ left[t].spans = pending[t].spans
  OBVIOUS
<1>2. Queueing(left, out)
  BY <1>1 DEF Queueing
<1>3. ASSUME NEW table, Written(table, pending, out) PROVE Written(table, left, out)
  BY <1>1, <1>3 DEF Written
<1>4. WaitingIn(pending, some) \subseteq WaitingOf(pending)
  BY DEF WaitingOf, WaitingIn
<1>5. WaitingOf(left) = WaitingOf(pending) \ WaitingIn(pending, some)
  <2>1. \A t \in some : Range(left[t].spans) = {}
    BY DEF Range
  <2>2. \A w \in Traces \X SpanIds : w[2] \in Range(left[w[1]].spans) <=>
           w[2] \in Range(pending[w[1]].spans) /\ w[1] \notin some
    <3> TAKE w \in Traces \X SpanIds
    <3>1. CASE w[1] \in some
      BY <2>1, <3>1
    <3>2. CASE w[1] \notin some
      <4>1. left[w[1]].spans = pending[w[1]].spans
        BY <3>2
      <4> QED BY <3>2, <4>1
    <3> QED BY <3>1, <3>2
  <2> QED BY <2>2 DEF WaitingOf, WaitingIn
<1>6. /\ Cardinality(WaitingIn(pending, some)) \in Nat
      /\ Cardinality(WaitingOf(left)) = Cardinality(WaitingOf(pending)) - Cardinality(WaitingIn(pending, some))
  BY <1>4, <1>5, Removing
<1> QED BY <1>2, <1>3, <1>6

LEMMA DecisionIsReason ==
  ASSUME NEW t, NEW facts
  PROVE  payloadDecision(t, facts) \in Reasons
BY Zenon DEF payloadDecision, Reasons

\* One sequence after another.
LEMMA Concatenated ==
  ASSUME NEW S, NEW a \in Seq(S), NEW b \in Seq(S)
  PROVE  /\ a \o b \in Seq(S) /\ Len(a) \in Nat /\ Len(b) \in Nat /\ Len(a \o b) = Len(a) + Len(b)
         /\ \A i \in 1 .. Len(a \o b) : i \in 1 .. Len(a) \/ \E j \in 1 .. Len(b) : i = Len(a) + j
         /\ \A i \in 1 .. Len(a) : (a \o b)[i] = a[i]
         /\ \A j \in 1 .. Len(b) : (a \o b)[Len(a) + j] = b[j]
<1>1. /\ a \o b \in Seq(S) /\ Len(a) \in Nat /\ Len(b) \in Nat /\ Len(a \o b) = Len(a) + Len(b)
      /\ \A i \in 1 .. Len(a) : (a \o b)[i] = a[i]
      /\ \A j \in 1 .. Len(b) : (a \o b)[Len(a) + j] = b[j]
  OBVIOUS
<1>2. ASSUME NEW i \in 1 .. Len(a \o b), i \notin 1 .. Len(a) PROVE \E j \in 1 .. Len(b) : i = Len(a) + j
  <2>1. i - Len(a) \in 1 .. Len(b) /\ i = Len(a) + (i - Len(a))
    BY <1>1, <1>2
  <2> QED BY <2>1
<1> QED BY <1>1, <1>2

\* A trace whose payloads are forgotten, and the others.
LEMMA OneEmptied ==
  ASSUME NEW pending \in [Traces -> [at : Nat, spans : Seq(SpanIds)]], NEW t \in Traces
  PROVE  /\ Emptied(pending, t) \in [Traces -> [at : Nat, spans : Seq(SpanIds)]]
         /\ Emptied(pending, t)[t].spans = <<>>
         /\ \A r \in Traces \ {t} : Emptied(pending, t)[r].spans = pending[r].spans
<1>1. pending[t] \in [at : Nat, spans : Seq(SpanIds)]
  OBVIOUS
<1>2. <<>> \in Seq(SpanIds)
  OBVIOUS
<1>3. [pending[t] EXCEPT !.spans = <<>>] \in [at : Nat, spans : Seq(SpanIds)]
  BY <1>1, <1>2
<1> QED BY <1>1, <1>3 DEF Emptied

\* An entry of the buffer whose payloads are forgotten.
LEMMA NothingWaits ==
  ASSUME NEW entry \in [at : Nat, spans : Seq(SpanIds)]
  PROVE  /\ [entry EXCEPT !.spans = <<>>] \in [at : Nat, spans : Seq(SpanIds)]
         /\ [entry EXCEPT !.spans = <<>>].spans = <<>>
<1>1. <<>> \in Seq(SpanIds)
  OBVIOUS
<1> QED BY <1>1

\* A trace's payloads leave the buffer: as many as there are places.
LEMMA RootForgets ==
  ASSUME NEW pending, NEW out, Queueing(pending, out), NEW t \in Traces
  PROVE  /\ pending[t].spans \in Seq(SpanIds) /\ Len(pending[t].spans) \in Nat /\ Emptied(pending, t)[t].spans = <<>>
         /\ Queueing(Emptied(pending, t), out)
         /\ \A table : Written(table, pending, out) => Written(table, Emptied(pending, t), out)
         /\ Cardinality(WaitingOf(Emptied(pending, t))) = Cardinality(WaitingOf(pending)) - Len(pending[t].spans)
<1>1. /\ Emptied(pending, t) \in [Traces -> [at : Nat, spans : Seq(SpanIds)]] /\ Emptied(pending, t)[t].spans = <<>>
      /\ \A r \in Traces \ {t} : Emptied(pending, t)[r].spans = pending[r].spans
  BY OneEmptied DEF Queueing
<1>2. /\ pending[t].spans \in Seq(SpanIds)
      /\ \A i, j \in 1 .. Len(pending[t].spans) : pending[t].spans[i] = pending[t].spans[j] => i = j
  BY DEF Queueing
<1>3. WaitingIn(pending, {t}) = Places(t, pending[t].spans)
  <2>1. /\ Range(pending[t].spans) = {pending[t].spans[i] : i \in 1 .. Len(pending[t].spans)}
        /\ Range(pending[t].spans) \subseteq SpanIds
    BY <1>2 DEF Range
  <2>2. WaitingIn(pending, {t}) = {<<t, x>> : x \in Range(pending[t].spans)}
    BY <2>1 DEF WaitingIn
  <2> QED BY <2>1, <2>2 DEF Places
<1>4. Cardinality(WaitingIn(pending, {t})) = Len(pending[t].spans)
  BY <1>2, <1>3, Lengthwise
<1>5. {t} \in SUBSET Traces /\ \A r \in {t} : Emptied(pending, t)[r].spans = <<>>
  BY <1>1
<1>6. /\ Queueing(Emptied(pending, t), out)
      /\ \A table : Written(table, pending, out) => Written(table, Emptied(pending, t), out)
      /\ Cardinality(WaitingIn(pending, {t})) \in Nat
      /\ Cardinality(WaitingOf(Emptied(pending, t))) = Cardinality(WaitingOf(pending)) - Cardinality(WaitingIn(pending, {t}))
  BY <1>1, <1>5, Forgetting, Zenon
<1>7. Len(pending[t].spans) \in Nat
  BY <1>2
<1> QED BY <1>1, <1>2, <1>4, <1>6, <1>7

\* As many rows as there were payloads.
LEMMA RowsInLine ==
  ASSUME NEW table \in Seq(PayloadRows), NEW waiting \in Seq(SpanIds), NEW reason \in Reasons
  PROVE  Len(table) \in Nat /\ Len(table \o RowsOf(waiting, reason)) = Len(table) + Len(waiting)
<1>1. \A i \in 1 .. Len(waiting) : PayloadRow(waiting[i], reason) \in PayloadRows
  BY DEF PayloadRow, PayloadRows
<1>2. RowsOf(waiting, reason) \in Seq(PayloadRows) /\ Len(RowsOf(waiting, reason)) = Len(waiting)
  BY <1>1 DEF RowsOf
<1> QED BY <1>2

\* They are written, for the reason their turn gave.
LEMMA RootWrites ==
  ASSUME NEW out, NEW table, NEW pending, NEW left, NEW t \in Traces, NEW reason \in Reasons,
         Queueing(pending, out), Written(table, pending, out), Written(table, left, out), Queueing(left, out),
         left[t].spans = <<>>, Reasoned(t, reason, out)
  PROVE  Written(table \o RowsOf(pending[t].spans, reason), left, out)
<1> DEFINE waiting == pending[t].spans
           more == RowsOf(waiting, reason)
           new == table \o more
<1>1. waiting \in Seq(SpanIds) /\ \A i \in 1 .. Len(waiting) : waiting[i] \in SpanIds
  BY DEF Queueing
<1>2. /\ \A i \in 1 .. Len(waiting) : Spans[waiting[i]].trace = t /\ waiting[i] \in Payloads(out)
      /\ \A i, j \in 1 .. Len(waiting) : waiting[i] = waiting[j] => i = j
  BY DEF Queueing
<1>3. \A k \in 1 .. Len(table), j \in 1 .. Len(waiting) : table[k].span # waiting[j]
  BY DEF Written
<1>4. table \in Seq(PayloadRows)
  BY DEF Written
<1> HIDE DEF waiting, more, new
<1>5. \A j \in 1 .. Len(waiting) : /\ PayloadRow(waiting[j], reason) \in PayloadRows
                                   /\ PayloadRow(waiting[j], reason).span = waiting[j]
                                   /\ PayloadRow(waiting[j], reason).reason = reason
  BY <1>1 DEF PayloadRow, PayloadRows
<1>6. /\ more \in Seq(PayloadRows) /\ Len(more) = Len(waiting)
      /\ \A j \in 1 .. Len(waiting) : more[j].span = waiting[j] /\ more[j].reason = reason
  BY <1>1, <1>5 DEF more, RowsOf
<1>7. /\ new \in Seq(PayloadRows) /\ Len(table) \in Nat /\ Len(new) = Len(table) + Len(waiting)
      /\ \A i \in 1 .. Len(new) : i \in 1 .. Len(table) \/ \E j \in 1 .. Len(waiting) : i = Len(table) + j
      /\ \A i \in 1 .. Len(table) : new[i] = table[i]
      /\ \A j \in 1 .. Len(waiting) : new[Len(table) + j].span = waiting[j] /\ new[Len(table) + j].reason = reason
  <2>1. more \in Seq(PayloadRows)
    BY <1>6
  <2>2. /\ new \in Seq(PayloadRows) /\ Len(table) \in Nat /\ Len(more) \in Nat /\ Len(new) = Len(table) + Len(more)
        /\ \A i \in 1 .. Len(new) : i \in 1 .. Len(table) \/ \E j \in 1 .. Len(more) : i = Len(table) + j
        /\ \A i \in 1 .. Len(table) : new[i] = table[i]
        /\ \A j \in 1 .. Len(more) : new[Len(table) + j] = more[j]
    <3>1. \A a \in Seq(PayloadRows), b \in Seq(PayloadRows) :
            /\ a \o b \in Seq(PayloadRows) /\ Len(a) \in Nat /\ Len(b) \in Nat /\ Len(a \o b) = Len(a) + Len(b)
            /\ \A i \in 1 .. Len(a \o b) : i \in 1 .. Len(a) \/ \E j \in 1 .. Len(b) : i = Len(a) + j
            /\ \A i \in 1 .. Len(a) : (a \o b)[i] = a[i]
            /\ \A j \in 1 .. Len(b) : (a \o b)[Len(a) + j] = b[j]
      BY Concatenated
    <3>2. new = table \o more
      BY DEF new
    <3>3. /\ table \o more \in Seq(PayloadRows) /\ Len(table) \in Nat /\ Len(more) \in Nat
          /\ Len(table \o more) = Len(table) + Len(more)
          /\ \A i \in 1 .. Len(table \o more) : i \in 1 .. Len(table) \/ \E j \in 1 .. Len(more) : i = Len(table) + j
          /\ \A i \in 1 .. Len(table) : (table \o more)[i] = table[i]
          /\ \A j \in 1 .. Len(more) : (table \o more)[Len(table) + j] = more[j]
      BY <1>4, <2>1, <3>1
    <3> QED BY <3>2, <3>3
  <2> QED BY <1>6, <2>2
<1>8. ASSUME NEW i \in 1 .. Len(new)
      PROVE  /\ new[i].span \in Payloads(out)
             /\ \A r \in Traces : \A j \in 1 .. Len(left[r].spans) : new[i].span # left[r].spans[j]
             /\ \A j \in 1 .. Len(new) : new[i].span = new[j].span => i = j
             /\ Reasoned(Spans[new[i].span].trace, new[i].reason, out)
  <2>1. CASE i \in 1 .. Len(table)
    <3>1. new[i] = table[i]
      BY <1>7, <2>1
    <3>2. ASSUME NEW j \in 1 .. Len(new), new[i].span = new[j].span PROVE i = j
      <4>1. CASE j \in 1 .. Len(table)
        BY <1>7, <2>1, <3>1, <3>2, <4>1 DEF Written
      <4>2. ASSUME NEW k \in 1 .. Len(waiting), j = Len(table) + k PROVE FALSE
        <5>1. new[j].span = waiting[k]
          BY <1>7, <4>2
        <5> QED BY <1>3, <2>1, <3>1, <3>2, <5>1
      <4> QED BY <1>7, <4>1, <4>2
    <3> QED BY <2>1, <3>1, <3>2 DEF Written
  <2>2. ASSUME NEW k \in 1 .. Len(waiting), i = Len(table) + k
        PROVE  /\ new[i].span \in Payloads(out)
               /\ \A r \in Traces : \A j \in 1 .. Len(left[r].spans) : new[i].span # left[r].spans[j]
               /\ \A j \in 1 .. Len(new) : new[i].span = new[j].span => i = j
               /\ Reasoned(Spans[new[i].span].trace, new[i].reason, out)
    <3>1. new[i].span = waiting[k] /\ new[i].reason = reason /\ Spans[waiting[k]].trace = t
      BY <1>2, <1>7, <2>2
    <3>2. ASSUME NEW j \in 1 .. Len(new), new[i].span = new[j].span PROVE i = j
      <4>1. CASE j \in 1 .. Len(table)
        <5>1. new[j] = table[j]
          BY <1>7, <4>1
        <5> QED BY <1>3, <3>1, <3>2, <4>1, <5>1
      <4>2. ASSUME NEW m \in 1 .. Len(waiting), j = Len(table) + m PROVE i = j
        <5>1. new[j].span = waiting[m]
          BY <1>7, <4>2
        <5>2. m = k
          BY <1>2, <3>1, <3>2, <5>1
        <5> QED BY <2>2, <4>2, <5>2
      <4> QED BY <1>7, <4>1, <4>2
    <3>3. ASSUME NEW r \in Traces, NEW j \in 1 .. Len(left[r].spans) PROVE new[i].span # left[r].spans[j]
      <4>1. CASE r = t
        BY <3>3, <4>1
      <4>2. CASE r # t
        <5>1. Spans[left[r].spans[j]].trace = r
          BY <3>3 DEF Queueing
        <5> QED BY <3>1, <4>2, <5>1
      <4> QED BY <4>1, <4>2
    <3> QED BY <1>2, <3>1, <3>2, <3>3
  <2> QED BY <1>7, <2>1, <2>2
<1>9. Written(new, left, out)
  BY <1>7, <1>8 DEF Written
<1> QED BY <1>9 DEF new, more, waiting

\* A root's export decides its trace: what waited is written or dropped.
LEMMA RootKeeps ==
  ASSUME NEW e, NEW out \in SUBSET SpanIds, NEW s \in SpanIds \ out, Spans[s].kind = "root",
         Sound(e, out), now \in Nat
  PROVE  Sound(ExportRoot(e, s), out \cup {s})
<1> DEFINE t == Spans[s].trace
           reason == payloadDecision(t, span[s].turn)
           e2 == ExportRoot(e, s)
           out2 == out \cup {s}
           waiting == e.pending[t].spans
           left == Emptied(e.pending, t)
           more == RowsOf(waiting, reason)
           decisions == [e.decisions EXCEPT ![t] = [at |-> now, reason |-> reason]]
<1>1. /\ t \in Traces /\ Payloads(out2) = Payloads(out)
      /\ reason \in Reasons /\ Reasoned(t, reason, out2)
  BY DecisionIsReason DEF Traces, Payloads, isPayloadSpan, Reasoned
<1>2. /\ DOMAIN e2 = DOMAIN e /\ e2.pending = left /\ e2.pendingCount = e.pendingCount - Len(waiting) /\ e2.decisions = decisions
      /\ IF reason # "none" THEN e2.rows = e.rows \o more /\ e2.dropped = e.dropped
                            ELSE e2.rows = e.rows /\ e2.dropped = e.dropped + Len(waiting)
  BY DEF ExportRoot, Forgotten, Sound, Emptied, RowsOf
<1>3. Queueing(e.pending, out2) /\ Written(e.rows, e.pending, out2)
  BY <1>1, MoreOut DEF Sound, Queueing, Written
<1>4. Decided(decisions, out2)
  <2>1. \A r \in Traces : e.decisions[r].reason \notin {"undecided", "none"} => Reasoned(r, e.decisions[r].reason, out2)
    BY MoreOut DEF Sound, Decided
  <2>2. e.decisions \in [Traces -> [at : Nat, reason : Reasons]]
    BY DEF Sound, Decided
  <2>3. [at |-> now, reason |-> reason] \in [at : Nat, reason : Reasons] /\ [at |-> now, reason |-> reason].reason = reason
    BY <1>1
  <2>4. decisions \in [Traces -> [at : Nat, reason : Reasons]] /\ decisions[t].reason = reason
        /\ \A r \in Traces \ {t} : decisions[r] = e.decisions[r]
    BY <1>1, <2>2, <2>3
  <2> HIDE DEF decisions, reason, out2
  <2> QED BY <1>1, <2>1, <2>4 DEF Decided
<1> HIDE DEF e2, out2, decisions, reason, t
<1>5. /\ waiting \in Seq(SpanIds) /\ Len(waiting) \in Nat /\ left[t].spans = <<>>
      /\ Queueing(left, out2) /\ Written(e.rows, left, out2)
      /\ Cardinality(WaitingOf(left)) = Cardinality(WaitingOf(e.pending)) - Len(waiting)
  BY <1>1, <1>3, RootForgets
<1>6. Written(e.rows \o more, left, out2) /\ Len(e.rows \o more) = Len(e.rows) + Len(waiting) /\ Len(e.rows) \in Nat
  <2> HIDE DEF left
  <2>1. /\ t \in Traces /\ reason \in Reasons /\ Reasoned(t, reason, out2) /\ left[t].spans = <<>>
        /\ Queueing(e.pending, out2) /\ Written(e.rows, e.pending, out2) /\ Written(e.rows, left, out2) /\ Queueing(left, out2)
    BY <1>1, <1>3, <1>5
  <2> HIDE DEF more, waiting
  <2>2. /\ Written(e.rows \o RowsOf(e.pending[t].spans, reason), left, out2) /\ Len(e.rows) \in Nat
        /\ Len(e.rows \o RowsOf(e.pending[t].spans, reason)) = Len(e.rows) + Len(e.pending[t].spans)
    <3>1. Written(e.rows \o RowsOf(e.pending[t].spans, reason), left, out2)
      BY <2>1, RootWrites, Zenon
    <3>2. e.rows \in Seq(PayloadRows) /\ e.pending[t].spans \in Seq(SpanIds)
      BY <2>1 DEF Written, Queueing
    <3>3. Len(e.rows) \in Nat /\ Len(e.rows \o RowsOf(e.pending[t].spans, reason)) = Len(e.rows) + Len(e.pending[t].spans)
      BY <2>1, <3>2, RowsInLine
    <3> QED BY <3>1, <3>3
  <2> QED BY <2>2 DEF more, waiting
<1>7. /\ Cardinality(WaitingOf(left)) \in Nat /\ Cardinality(WaitingOf(e.pending)) \in Nat /\ PENDING_CAP \in Nat
  BY WaitingFinite, TelemetryAssumption
<1> HIDE DEF left, more, waiting
<1>10. /\ Len(waiting) \in Nat /\ Len(e.rows) \in Nat /\ e.pendingCount \in Nat /\ e.dropped \in Nat /\ Cardinality(Payloads(out2)) \in Nat
       /\ e.pendingCount = Cardinality(WaitingOf(e.pending)) /\ e.pendingCount <= PENDING_CAP
       /\ Len(e.rows) + e.pendingCount + e.dropped = Cardinality(Payloads(out2))
  <2>1. Balanced(e.pending, e.rows, e.pendingCount, e.dropped, out2)
    BY <1>1 DEF Sound, Balanced
  <2> QED BY <1>5, <1>6, <1>7, <2>1 DEF Balanced
<1>8. CASE reason # "none"
  <2>1. Balanced(left, e.rows \o more, e.pendingCount - Len(waiting), e.dropped, out2)
    <3>1. (Len(e.rows) + Len(waiting)) + (e.pendingCount - Len(waiting)) + e.dropped = Cardinality(Payloads(out2))
      BY <1>10, Tallied
    <3>2. e.pendingCount - Len(waiting) = Cardinality(WaitingOf(left)) /\ e.pendingCount - Len(waiting) <= PENDING_CAP
      BY <1>5, <1>7, <1>10
    <3>3. e.dropped \in Nat
      BY <1>10
    <3> QED BY <1>6, <3>1, <3>2, <3>3 DEF Balanced
  <2>2. /\ DOMAIN e2 = DOMAIN e /\ e2.pending = left /\ e2.decisions = decisions
        /\ e2.rows = e.rows \o more /\ e2.pendingCount = e.pendingCount - Len(waiting) /\ e2.dropped = e.dropped
    BY <1>2, <1>8
  <2>3. Sound(e2, out2)
    BY <1>4, <1>5, <1>6, <2>1, <2>2 DEF Sound
  <2> QED BY <2>3 DEF e2, out2
<1>9. CASE reason = "none"
  <2>1. Balanced(left, e.rows, e.pendingCount - Len(waiting), e.dropped + Len(waiting), out2)
    <3>1. Len(e.rows) + (e.pendingCount - Len(waiting)) + (e.dropped + Len(waiting)) = Cardinality(Payloads(out2))
      BY <1>10, Tallied
    <3>2. e.pendingCount - Len(waiting) = Cardinality(WaitingOf(left)) /\ e.pendingCount - Len(waiting) <= PENDING_CAP
      BY <1>5, <1>7, <1>10
    <3>3. e.dropped + Len(waiting) \in Nat
      BY <1>10
    <3> QED BY <3>1, <3>2, <3>3 DEF Balanced
  <2>2. /\ DOMAIN e2 = DOMAIN e /\ e2.pending = left /\ e2.decisions = decisions
        /\ e2.rows = e.rows /\ e2.pendingCount = e.pendingCount - Len(waiting) /\ e2.dropped = e.dropped + Len(waiting)
    BY <1>2, <1>9
  <2>3. Sound(e2, out2)
    BY <1>4, <1>5, <2>1, <2>2 DEF Sound
  <2> QED BY <2>3 DEF e2, out2
<1> QED BY <1>8, <1>9

\* A payload at the end of its trace's.
LEMMA OneMore ==
  ASSUME NEW q \in Seq(SpanIds), NEW s \in SpanIds
  PROVE  /\ Append(q, s) \in Seq(SpanIds) /\ Len(q) \in Nat /\ Len(Append(q, s)) = Len(q) + 1 /\ Append(q, s)[Len(q) + 1] = s
         /\ \A i \in 1 .. Len(q) : Append(q, s)[i] = q[i]
         /\ \A i \in 1 .. Len(Append(q, s)) : i \in 1 .. Len(q) \/ i = Len(q) + 1
         /\ Range(Append(q, s)) = Range(q) \cup {s}
<1>1. /\ Append(q, s) \in Seq(SpanIds) /\ Len(q) \in Nat /\ Len(Append(q, s)) = Len(q) + 1 /\ Append(q, s)[Len(q) + 1] = s
      /\ \A i \in 1 .. Len(q) : Append(q, s)[i] = q[i]
  OBVIOUS
<1>2. \A i \in 1 .. Len(Append(q, s)) : i \in 1 .. Len(q) \/ i = Len(q) + 1
  BY <1>1
<1>3. DOMAIN q = 1 .. Len(q) /\ DOMAIN Append(q, s) = 1 .. Len(Append(q, s))
  OBVIOUS
<1>4. Range(Append(q, s)) = Range(q) \cup {s}
  BY <1>1, <1>2, <1>3 DEF Range
<1> QED BY <1>1, <1>2, <1>4

\* A payload that is nowhere yet joins those that wait.
LEMMA JoinKeeps ==
  ASSUME NEW pending, NEW out, Queueing(pending, out), NEW s \in SpanIds, s \in Payloads(out), NEW at \in Nat,
         Spans[s].trace \in Traces,
         \A r \in Traces : \A j \in 1 .. Len(pending[r].spans) : pending[r].spans[j] # s
  PROVE  LET joined == Joined(pending, Spans[s].trace, at, s)
         IN  /\ Queueing(joined, out)
             /\ \A table : Written(table, pending, out) /\ (\A i \in 1 .. Len(table) : table[i].span # s) => Written(table, joined, out)
             /\ Cardinality(WaitingOf(joined)) = Cardinality(WaitingOf(pending)) + 1
<1>0. \A r \in Traces : /\ Joined(pending, r, at, s) \in [Traces -> [at : Nat, spans : Seq(SpanIds)]]
                         /\ Joined(pending, r, at, s)[r].spans = Append(pending[r].spans, s)
                         /\ \A x \in Traces \ {r} : Joined(pending, r, at, s)[x] = pending[x]
  <2> TAKE r \in Traces
  <2>1. pending \in [Traces -> [at : Nat, spans : Seq(SpanIds)]]
    BY DEF Queueing
  <2>2. [at |-> at, spans |-> Append(pending[r].spans, s)] \in [at : Nat, spans : Seq(SpanIds)]
    BY <2>1, OneMore
  <2> QED BY <2>1, <2>2 DEF Joined
<1> DEFINE t == Spans[s].trace
           joined == Joined(pending, t, at, s)
           q == pending[t].spans
           more == Append(q, s)
<1>1. /\ joined \in [Traces -> [at : Nat, spans : Seq(SpanIds)]] /\ joined[t].spans = more
      /\ \A r \in Traces \ {t} : joined[r] = pending[r]
  BY <1>0
<1>2. q \in Seq(SpanIds)
  BY DEF Queueing
<1> HIDE DEF q, joined
<1>3. /\ more \in Seq(SpanIds) /\ Len(q) \in Nat /\ Len(more) = Len(q) + 1 /\ more[Len(q) + 1] = s
      /\ \A i \in 1 .. Len(q) : more[i] = q[i]
      /\ \A i \in 1 .. Len(more) : i \in 1 .. Len(q) \/ i = Len(q) + 1
      /\ Range(more) = Range(q) \cup {s}
  BY <1>2, OneMore
<1> HIDE DEF more
<1>4. /\ \A i \in 1 .. Len(q) : /\ Spans[q[i]].trace = t /\ q[i] \in Payloads(out) /\ q[i] # s
                               /\ \A j \in 1 .. Len(q) : q[i] = q[j] => i = j
  BY DEF Queueing, q
<1>5. ASSUME NEW i \in 1 .. Len(more)
      PROVE  /\ Spans[more[i]].trace = t /\ more[i] \in Payloads(out)
             /\ \A j \in 1 .. Len(more) : more[i] = more[j] => i = j
  BY <1>3, <1>4
<1>6. ASSUME NEW r \in Traces, NEW i \in 1 .. Len(joined[r].spans)
      PROVE  /\ Spans[joined[r].spans[i]].trace = r /\ joined[r].spans[i] \in Payloads(out)
             /\ \A j \in 1 .. Len(joined[r].spans) : joined[r].spans[i] = joined[r].spans[j] => i = j
  <2>1. CASE r = t
    <3> HIDE DEF t
    <3> QED BY <1>1, <1>5, <1>6, <2>1
  <2>2. CASE r # t
    BY <1>1, <1>6, <2>2 DEF Queueing
  <2> QED BY <2>1, <2>2
<1>7. Queueing(joined, out)
  BY <1>1, <1>6 DEF Queueing
<1>8. ASSUME NEW table, Written(table, pending, out), \A i \in 1 .. Len(table) : table[i].span # s PROVE Written(table, joined, out)
  <2>1. ASSUME NEW i \in 1 .. Len(table), NEW r \in Traces, NEW j \in 1 .. Len(joined[r].spans)
        PROVE  table[i].span # joined[r].spans[j]
    <3>1. CASE r = t
      <4>1. \A k \in 1 .. Len(q) : table[i].span # q[k]
        BY <1>8 DEF Written, q
      <4>2. j \in 1 .. Len(more) /\ joined[r].spans[j] = more[j]
        BY <1>1, <2>1, <3>1
      <4> QED BY <1>3, <1>8, <4>1, <4>2
    <3>2. CASE r # t
      <4>1. joined[r] = pending[r]
        BY <1>1, <3>2
      <4> QED BY <1>8, <2>1, <4>1 DEF Written
    <3> QED BY <3>1, <3>2
  <2> QED BY <1>8, <2>1 DEF Written
<1>9. WaitingOf(joined) = WaitingOf(pending) \cup {<<t, s>>} /\ <<t, s>> \notin WaitingOf(pending)
  <2>1. s \notin Range(q)
    BY <1>2, <1>4 DEF Range
  <2>2. \A r \in Traces \ {t} : Range(joined[r].spans) = Range(pending[r].spans)
    BY <1>1
  <2>3. Range(joined[t].spans) = Range(pending[t].spans) \cup {s} /\ s \notin Range(pending[t].spans)
    BY <1>1, <1>3, <2>1 DEF q
  <2> HIDE DEF t
  <2>4. \A w \in Traces \X SpanIds :
           w[2] \in Range(joined[w[1]].spans) <=> w[2] \in Range(pending[w[1]].spans) \/ w = <<t, s>>
    <3> TAKE w \in Traces \X SpanIds
    <3>1. CASE w[1] = t
      BY <2>3, <3>1
    <3>2. CASE w[1] # t
      BY <2>2, <3>2
    <3> QED BY <3>1, <3>2
  <2>5. t \in Traces
    BY DEF t
  <2> QED BY <2>3, <2>4, <2>5 DEF WaitingOf, WaitingIn
<1>10. Cardinality(WaitingOf(joined)) = Cardinality(WaitingOf(pending)) + 1
  BY <1>9, WaitingFinite, FS_AddElement
<1> QED BY <1>7, <1>8, <1>10 DEF joined

\* A payload whose turn is decided is written or dropped; another waits, or is
\* dropped at the cap.
LEMMA PayloadKeeps ==
  ASSUME NEW e, NEW out \in SUBSET SpanIds, NEW s \in SpanIds \ out, Spans[s].kind # "root",
         policy.mode \notin {"off", "unset"}, isPayloadSpan(s), Sound(e, out), now \in Nat
  PROVE  Sound(ExportPayload(e, s), out \cup {s})
<1> DEFINE t == Spans[s].trace
           reason == e.decisions[t].reason
           e2 == ExportPayload(e, s)
           out2 == out \cup {s}
           was == Payloads(out)
<1>1. t \in Traces /\ Payloads(out2) = was \cup {s} /\ s \notin was /\ was \subseteq out
  BY DEF Traces, Payloads
<1>2. IsFiniteSet(was) /\ Cardinality(was) \in Nat /\ Cardinality(was \cup {s}) = Cardinality(was) + 1
  <2>1. IsFiniteSet(was)
    BY <1>1, TracesFinite, FS_Subset
  <2> HIDE DEF was
  <2> QED BY <1>1, <2>1, FS_AddElement, FS_CardinalityType
<1>3. /\ Queueing(e.pending, out2) /\ Written(e.rows, e.pending, out2) /\ Decided(e.decisions, out2)
  BY <1>1, MoreOut DEF Sound, Queueing, Written, Decided
<1>4. /\ Len(e.rows) \in Nat /\ Cardinality(WaitingOf(e.pending)) \in Nat /\ PENDING_CAP \in Nat
      /\ e.dropped \in Nat /\ e.pendingCount = Cardinality(WaitingOf(e.pending)) /\ e.pendingCount <= PENDING_CAP
      /\ Len(e.rows) + e.pendingCount + e.dropped = Cardinality(was)
  BY WaitingFinite, TelemetryAssumption DEF Sound, Written, Balanced
<1>5. \A r \in Traces : \A j \in 1 .. Len(e.pending[r].spans) : e.pending[r].spans[j] # s
  BY <1>1 DEF Sound, Queueing
<1>6. \A i \in 1 .. Len(e.rows) : e.rows[i].span # s
  BY <1>1 DEF Sound, Written
<1>7. e.pending \in [Traces -> [at : Nat, spans : Seq(SpanIds)]] /\ e.rows \in Seq(PayloadRows)
      /\ e.decisions \in [Traces -> [at : Nat, reason : Reasons]]
  BY DEF Sound, Queueing, Written, Decided
<1>8. CASE reason \notin {"undecided", "none"}
  <2>1. e2.rows = Append(e.rows, PayloadRow(s, reason)) /\ e2.pending = e.pending /\ e2.pendingCount = e.pendingCount
        /\ e2.decisions = e.decisions /\ e2.dropped = e.dropped /\ DOMAIN e2 = DOMAIN e
    BY <1>8 DEF ExportPayload, Sound
  <2>2. Reasoned(t, reason, out2)
    BY <1>1, <1>3, <1>8 DEF Decided
  <2>3. PayloadRow(s, reason) \in PayloadRows /\ PayloadRow(s, reason).span = s /\ PayloadRow(s, reason).reason = reason
    BY <1>1, <1>7 DEF PayloadRow, PayloadRows
  <2> HIDE DEF e2, out2, was, reason
  <2>4. /\ e2.rows \in Seq(PayloadRows) /\ Len(e2.rows) = Len(e.rows) + 1
        /\ \A i \in 1 .. Len(e.rows) : e2.rows[i] = e.rows[i]
        /\ e2.rows[Len(e.rows) + 1].span = s /\ e2.rows[Len(e.rows) + 1].reason = reason
    BY <1>7, <2>1, <2>3
  <2>5. Written(e2.rows, e.pending, out2)
    <3>1. \A i \in 1 .. Len(e2.rows) : i \in 1 .. Len(e.rows) \/ i = Len(e.rows) + 1
      BY <1>4, <2>4
    <3>2. ASSUME NEW i \in 1 .. Len(e2.rows)
          PROVE  /\ e2.rows[i].span \in Payloads(out2)
                 /\ \A r \in Traces : \A j \in 1 .. Len(e.pending[r].spans) : e2.rows[i].span # e.pending[r].spans[j]
                 /\ \A j \in 1 .. Len(e2.rows) : e2.rows[i].span = e2.rows[j].span => i = j
                 /\ Reasoned(Spans[e2.rows[i].span].trace, e2.rows[i].reason, out2)
      <4>1. CASE i \in 1 .. Len(e.rows)
        <5>1. e2.rows[i] = e.rows[i]
          BY <2>4, <4>1
        <5>2. \A j \in 1 .. Len(e2.rows) : e2.rows[i].span = e2.rows[j].span => i = j
          <6> TAKE j \in 1 .. Len(e2.rows)
          <6>1. CASE j \in 1 .. Len(e.rows)
            BY <1>3, <2>4, <4>1, <5>1, <6>1 DEF Written
          <6>2. CASE j = Len(e.rows) + 1
            BY <1>6, <2>4, <4>1, <5>1, <6>2
          <6> QED BY <3>1, <6>1, <6>2
        <5> QED BY <1>3, <4>1, <5>1, <5>2 DEF Written
      <4>2. CASE i = Len(e.rows) + 1
        BY <1>1, <1>5, <1>6, <2>2, <2>4, <3>1, <4>2
      <4> QED BY <3>1, <4>1, <4>2
    <3> QED BY <2>4, <3>2 DEF Written
  <2>6. Balanced(e2.pending, e2.rows, e2.pendingCount, e2.dropped, out2)
    <3>1. Cardinality(Payloads(out2)) = Cardinality(was) + 1
      BY <1>1, <1>2
    <3>2. Len(e2.rows) + e2.pendingCount + e2.dropped = Cardinality(was) + 1
      <4>1. Len(e2.rows) = Len(e.rows) + 1 /\ e2.pendingCount = e.pendingCount /\ e2.dropped = e.dropped
        BY <2>1, <2>4
      <4>2. e.pendingCount \in Nat /\ e.dropped \in Nat /\ Len(e.rows) \in Nat /\ Cardinality(was) \in Nat
            /\ Len(e.rows) + e.pendingCount + e.dropped = Cardinality(was)
        BY <1>2, <1>4
      <4>3. (Len(e.rows) + 1) + e.pendingCount + e.dropped = Cardinality(was) + 1
        <5>1. \A n, k, d, total \in Nat : n + k + d = total => (n + 1) + k + d = total + 1
          OBVIOUS
        <5> QED BY <4>2, <5>1
      <4> QED BY <4>1, <4>3
    <3>3. /\ e2.pendingCount = Cardinality(WaitingOf(e2.pending)) /\ e2.pendingCount <= PENDING_CAP
          /\ e2.dropped \in Nat
      BY <1>4, <2>1
    <3> QED BY <3>1, <3>2, <3>3 DEF Balanced
  <2>7. Sound(e2, out2)
    BY <1>3, <2>1, <2>5, <2>6 DEF Sound
  <2> QED BY <2>7 DEF e2, out2
<1>9. CASE reason = "none" \/ (reason = "undecided" /\ ~(e.pendingCount < PENDING_CAP))
  <2>1. e2.rows = e.rows /\ e2.pending = e.pending /\ e2.pendingCount = e.pendingCount
        /\ e2.decisions = e.decisions /\ e2.dropped = e.dropped + 1 /\ DOMAIN e2 = DOMAIN e
    BY <1>9 DEF ExportPayload, Sound
  <2> HIDE DEF e2, out2, was, reason
  <2>2. Balanced(e2.pending, e2.rows, e2.pendingCount, e2.dropped, out2)
    <3>1. Cardinality(Payloads(out2)) = Cardinality(was) + 1
      BY <1>1, <1>2
    <3>2. Len(e2.rows) + e2.pendingCount + e2.dropped = Cardinality(was) + 1
      <4>1. e2.rows = e.rows /\ e2.pendingCount = e.pendingCount /\ e2.dropped = e.dropped + 1
        BY <2>1
      <4>2. e.pendingCount \in Nat /\ e.dropped \in Nat /\ Len(e.rows) \in Nat /\ Cardinality(was) \in Nat
            /\ Len(e.rows) + e.pendingCount + e.dropped = Cardinality(was)
        BY <1>2, <1>4
      <4>3. Len(e.rows) + e.pendingCount + (e.dropped + 1) = Cardinality(was) + 1
        BY <4>2, Tallied
      <4> QED BY <4>1, <4>3
    <3>3. /\ e2.pendingCount = Cardinality(WaitingOf(e2.pending)) /\ e2.pendingCount <= PENDING_CAP
          /\ e2.dropped \in Nat
      BY <1>4, <2>1
    <3> QED BY <3>1, <3>2, <3>3 DEF Balanced
  <2>3. Sound(e2, out2)
    BY <1>3, <2>1, <2>2 DEF Sound
  <2> QED BY <2>3 DEF e2, out2
<1>10. CASE reason = "undecided" /\ e.pendingCount < PENDING_CAP
  <2>1. PICK at \in Nat : /\ e2.pending = Joined(e.pending, t, at, s) /\ e2.pendingCount = e.pendingCount + 1
                        /\ e2.rows = e.rows /\ e2.decisions = e.decisions /\ e2.dropped = e.dropped /\ DOMAIN e2 = DOMAIN e
    <3> DEFINE at == IF e.pending[t].spans = <<>> THEN now ELSE e.pending[t].at
    <3>1. at \in Nat
      BY <1>1, <1>7
    <3>2. e2.pending = [e.pending EXCEPT ![t] = [at |-> at, spans |-> Append(@.spans, s)]] /\ e2.pendingCount = e.pendingCount + 1
      BY <1>10 DEF ExportPayload, Sound
    <3>3. e2.rows = e.rows /\ e2.decisions = e.decisions /\ e2.dropped = e.dropped /\ DOMAIN e2 = DOMAIN e
      BY <1>10 DEF ExportPayload, Sound
    <3>4. e2.pending = Joined(e.pending, t, at, s)
      BY <3>2 DEF Joined
    <3> QED BY <3>1, <3>2, <3>3, <3>4
  <2>2. s \in Payloads(out2)
    BY <1>1
  <2>3. /\ Queueing(e2.pending, out2)
        /\ \A table : Written(table, e.pending, out2) /\ (\A i \in 1 .. Len(table) : table[i].span # s) => Written(table, e2.pending, out2)
        /\ Cardinality(WaitingOf(e2.pending)) = Cardinality(WaitingOf(e.pending)) + 1
    <3> HIDE DEF e2, out2
    <3> QED BY <1>1, <1>3, <1>5, <2>1, <2>2, JoinKeeps
  <2> HIDE DEF e2, out2, was, reason
  <2>4. Written(e2.rows, e2.pending, out2)
    BY <1>3, <1>6, <2>1, <2>3
  <2>5. Balanced(e2.pending, e2.rows, e2.pendingCount, e2.dropped, out2)
    <3>1. Cardinality(Payloads(out2)) = Cardinality(was) + 1
      BY <1>1, <1>2
    <3>2. Len(e2.rows) + e2.pendingCount + e2.dropped = Cardinality(was) + 1
      <4>1. e2.rows = e.rows /\ e2.pendingCount = e.pendingCount + 1 /\ e2.dropped = e.dropped
        BY <2>1
      <4>2. e.pendingCount \in Nat /\ e.dropped \in Nat /\ Len(e.rows) \in Nat /\ Cardinality(was) \in Nat
            /\ Len(e.rows) + e.pendingCount + e.dropped = Cardinality(was)
        BY <1>2, <1>4
      <4>3. Len(e.rows) + (e.pendingCount + 1) + e.dropped = Cardinality(was) + 1
        BY <4>2, Tallied
      <4> QED BY <4>1, <4>3
    <3>3. /\ e2.pendingCount = Cardinality(WaitingOf(e2.pending)) /\ e2.pendingCount <= PENDING_CAP
          /\ e2.dropped \in Nat
      BY <1>4, <1>10, <2>1, <2>3
    <3> QED BY <3>1, <3>2, <3>3 DEF Balanced
  <2>6. Sound(e2, out2)
    BY <1>3, <2>1, <2>3, <2>4, <2>5 DEF Sound
  <2> QED BY <2>6 DEF e2, out2
<1> QED BY <1>8, <1>9, <1>10

\* One span more has been exported.
LEMMA SpanKeeps ==
  ASSUME NEW e, NEW out \in SUBSET SpanIds, NEW s \in SpanIds \ out, Sound(e, out), now \in Nat, policy.mode # "unset"
  PROVE  Sound(ExportSpan(e, s), out \cup {s})
<1>1. CASE Spans[s].kind = "root"
  <2>1. ExportSpan(e, s) = ExportRoot(e, s)
    BY <1>1 DEF ExportSpan
  <2> QED BY <1>1, <2>1, RootKeeps
<1>2. CASE Spans[s].kind # "root" /\ policy.mode # "off" /\ isPayloadSpan(s)
  <2>1. ExportSpan(e, s) = ExportPayload(e, s)
    BY <1>2 DEF ExportSpan
  <2> QED BY <1>2, <2>1, PayloadKeeps
<1>3. CASE Spans[s].kind # "root" /\ ~(policy.mode # "off" /\ isPayloadSpan(s))
  <2>1. ExportSpan(e, s) = e
    BY <1>3 DEF ExportSpan
  <2>2. Payloads(out \cup {s}) = Payloads(out)
    BY <1>3 DEF Payloads
  <2>3. Queueing(e.pending, out \cup {s}) /\ Balanced(e.pending, e.rows, e.pendingCount, e.dropped, out \cup {s})
    BY <2>2 DEF Sound, Queueing, Balanced
  <2>4. Written(e.rows, e.pending, out \cup {s})
    BY <2>2, MoreOut DEF Sound, Written
  <2>5. Decided(e.decisions, out \cup {s})
    BY MoreOut DEF Sound, Decided
  <2> QED BY <2>1, <2>3, <2>4, <2>5 DEF Sound
<1> QED BY <1>1, <1>2, <1>3

\* What waited too long is counted as dropped, and old decisions are forgotten.
LEMMA PruneKeeps ==
  ASSUME NEW e, NEW out, Sound(e, out), now \in Nat
  PROVE  Sound(pruneBuffers(e), out)
<1> DEFINE expired == {t \in Traces : e.pending[t].spans # <<>> /\ now - e.pending[t].at > PENDING_TTL}
           left == [t \in Traces |-> IF t \in expired THEN [e.pending[t] EXCEPT !.spans = <<>>] ELSE e.pending[t]]
           old == Cardinality(WaitingIn(e.pending, expired))
           decisions == [t \in Traces |->
                           IF now - e.decisions[t].at > DECISION_TTL THEN [e.decisions[t] EXCEPT !.reason = "undecided"] ELSE e.decisions[t]]
           e2 == pruneBuffers(e)
<1>1. /\ e2.pending = left /\ e2.decisions = decisions /\ e2.rows = e.rows /\ DOMAIN e2 = DOMAIN e
      /\ e2.pendingCount = e.pendingCount - old /\ e2.dropped = e.dropped + old
  BY DEF pruneBuffers, Total, WaitingIn, Sound
<1>2. expired \in SUBSET Traces
  OBVIOUS
<1>3. /\ left \in [Traces -> [at : Nat, spans : Seq(SpanIds)]]
      /\ \A t \in expired : left[t].spans = <<>>
      /\ \A t \in Traces \ expired : left[t].spans = e.pending[t].spans
  <2> HIDE DEF expired
  <2>1. \A t \in Traces : e.pending[t] \in [at : Nat, spans : Seq(SpanIds)]
    BY DEF Sound, Queueing
  <2>2. \A t \in Traces : [e.pending[t] EXCEPT !.spans = <<>>] \in [at : Nat, spans : Seq(SpanIds)]
    BY <2>1, NothingWaits
  <2> QED BY <1>2, <2>1, <2>2
<1>4. /\ decisions \in [Traces -> [at : Nat, reason : Reasons]]
      /\ \A t \in Traces : decisions[t].reason \in {"undecided", e.decisions[t].reason}
  <2>1. \A t \in Traces : e.decisions[t] \in [at : Nat, reason : Reasons]
    BY DEF Sound, Decided
  <2>2. \A t \in Traces : [e.decisions[t] EXCEPT !.reason = "undecided"] \in [at : Nat, reason : Reasons]
    BY <2>1 DEF Reasons
  <2> QED BY <2>1, <2>2
<1>5. Decided(decisions, out)
  <2> HIDE DEF decisions
  <2> QED BY <1>4 DEF Sound, Decided
<1> HIDE DEF expired, left, decisions, e2
<1>6. /\ Queueing(left, out) /\ \A table : Written(table, e.pending, out) => Written(table, left, out)
      /\ old \in Nat /\ Cardinality(WaitingOf(left)) = Cardinality(WaitingOf(e.pending)) - old
  <2>1. Queueing(e.pending, out)
    BY DEF Sound
  <2> QED BY <1>2, <1>3, <2>1, Forgetting, Zenon
<1>7. Written(e.rows, left, out) /\ Len(e.rows) \in Nat
  <2>1. Written(e.rows, e.pending, out)
    BY DEF Sound
  <2>2. e.rows \in Seq(PayloadRows)
    BY <2>1 DEF Written
  <2> QED BY <1>6, <2>1, <2>2
<1>8. Balanced(left, e.rows, e.pendingCount - old, e.dropped + old, out)
  <2>1. Cardinality(WaitingOf(left)) \in Nat /\ Cardinality(WaitingOf(e.pending)) \in Nat /\ PENDING_CAP \in Nat
    BY WaitingFinite, TelemetryAssumption
  <2> HIDE DEF old
  <2> QED BY <1>6, <1>7, <2>1 DEF Sound, Balanced
<1>9. Sound(e2, out)
  BY <1>1, <1>5, <1>6, <1>7, <1>8 DEF Sound
<1> QED BY <1>9 DEF e2

LEMMA Least ==
  ASSUME NEW S, S \subseteq Nat, S # {}
  PROVE  \E i \in S : \A j \in S : i <= j
<1> DEFINE R == OpToRel(<, Nat)
<1>1. IsWellFoundedOn(R, Nat)
  BY NatLessThanWellFounded
<1>2. \A i, j \in Nat : <<j, i>> \notin R => i <= j
  BY DEF OpToRel
<1> HIDE DEF R
<1>3. PICK i \in S : \A j \in S : ~(<<j, i>> \in R)
  BY <1>1, WFMin
<1>4. \A j \in S : i <= j
  <2> TAKE j \in S
  <2>1. i \in Nat /\ j \in Nat /\ <<j, i>> \notin R
    BY <1>3
  <2> QED BY <2>1, <1>2
<1> QED BY <1>4

\* Counting up to n, from zero.
LEMMA Counting ==
  ASSUME NEW n \in Nat, NEW good, 0 \in good, \A i \in 0 .. n - 1 : i \in good => i + 1 \in good
  PROVE  \A i \in 0 .. n : i \in good
<1> DEFINE bad == {i \in 0 .. n : i \notin good}
<1>1. ASSUME bad # {} PROVE FALSE
  <2>0. bad \subseteq Nat
    OBVIOUS
  <2>1. PICK i \in bad : \A j \in bad : i <= j
    BY <1>1, <2>0, Least
  <2>2. i \in 0 .. n /\ i # 0 /\ i - 1 \in 0 .. n - 1 /\ i - 1 \notin bad
    BY <2>1
  <2> QED BY <2>1, <2>2
<1> QED BY <1>1

\* The exporter after each span of an export.
After(n) == CHOOSE f : f = [i \in 0 .. n |-> IF i = 0 THEN exporter ELSE ExportSpan(f[i - 1], queue[i])]

LEMMA AfterIs ==
  ASSUME NEW n \in Nat
  PROVE  /\ After(n)[0] = exporter /\ AllExported(n) = After(n)[n]
         /\ \A i \in 0 .. n - 1 : After(n)[i + 1] = ExportSpan(After(n)[i], queue[i + 1])
<1> DEFINE Is(m, f) == f = [i \in 0 .. m |-> IF i = 0 THEN exporter ELSE ExportSpan(f[i - 1], queue[i])]
           good == {m \in Nat : \E f : Is(m, f)}
<1>1. 0 \in good
  <2>1. Is(0, [i \in 0 .. 0 |-> exporter])
    OBVIOUS
  <2> QED BY <2>1
<1>2. ASSUME NEW m \in 0 .. n - 1, m \in good PROVE m + 1 \in good
  <2>1. PICK f : Is(m, f)
    BY <1>2
  <2> DEFINE g == [i \in 0 .. m + 1 |-> IF i = m + 1 THEN ExportSpan(f[m], queue[m + 1]) ELSE f[i]]
  <2>2. \A i \in 0 .. m + 1 : g[i] = IF i = 0 THEN exporter ELSE ExportSpan(g[i - 1], queue[i])
    <3> TAKE i \in 0 .. m + 1
    <3>1. CASE i = m + 1
      <4>1. g[i] = ExportSpan(f[m], queue[i]) /\ g[i - 1] = f[m] /\ i # 0
        BY <3>1
      <4> QED BY <4>1
    <3>2. CASE i # m + 1 /\ i # 0
      <4>1. g[i] = f[i] /\ g[i - 1] = f[i - 1] /\ f[i] = ExportSpan(f[i - 1], queue[i])
        BY <2>1, <3>2
      <4> QED BY <3>2, <4>1
    <3>3. CASE i = 0
      BY <2>1, <3>3
    <3> QED BY <3>1, <3>2, <3>3
  <2>3. g = [i \in 0 .. m + 1 |-> g[i]]
    OBVIOUS
  <2> HIDE DEF g
  <2>4. Is(m + 1, g)
    BY <2>2, <2>3
  <2> QED BY <2>4
<1> HIDE DEF good
<1>3. n \in good
  BY <1>1, <1>2, Counting
<1>4. PICK f : Is(n, f)
  BY <1>3 DEF good
<1>5. Is(n, After(n))
  BY <1>4 DEF After
<1>6. AllExported(n) = After(n)[n]
  BY DEF AllExported, After
<1> QED BY <1>5, <1>6

First(n) == {queue[i] : i \in 1 .. n}

\* So many spans more have been exported.
LEMMA ExportKeeps ==
  ASSUME NEW n \in Nat, n <= Len(queue), queue \in Seq(SpanIds), \A i, j \in 1 .. Len(queue) : queue[i] = queue[j] => i = j,
         NEW out \in SUBSET SpanIds, \A i \in 1 .. Len(queue) : queue[i] \notin out,
         Sound(exporter, out), now \in Nat, policy.mode # "unset"
  PROVE  Sound(AllExported(n), out \cup First(n))
<1> DEFINE good == {i \in Nat : Sound(After(n)[i], out \cup First(i))}
<1>1. 0 \in good
  <2>1. out \cup First(0) = out
    BY DEF First
  <2> QED BY <2>1, AfterIs
<1>2. ASSUME NEW i \in 0 .. n - 1, i \in good PROVE i + 1 \in good
  <2> DEFINE s == queue[i + 1]
  <2>1. i + 1 \in 1 .. Len(queue) /\ s \in SpanIds /\ First(i) \subseteq SpanIds
    BY DEF First
  <2>2. s \notin First(i)
    BY <2>1 DEF First
  <2>3. (out \cup First(i)) \cup {s} = out \cup First(i + 1)
    BY DEF First
  <2>4. After(n)[i + 1] = ExportSpan(After(n)[i], s)
    BY AfterIs
  <2> DEFINE e == After(n)[i]
             done == out \cup First(i)
  <2>5. Sound(e, done) /\ done \in SUBSET SpanIds /\ s \in SpanIds \ done
    BY <1>2, <2>1, <2>2
  <2> HIDE DEF e, done, s
  <2>6. Sound(ExportSpan(e, s), done \cup {s})
    BY <2>5, SpanKeeps, Zenon
  <2>7. Sound(After(n)[i + 1], out \cup First(i + 1))
    BY <2>3, <2>4, <2>6, Zenon DEF e, done
  <2>8. i + 1 \in Nat
    OBVIOUS
  <2> QED BY <2>7, <2>8, Zenon
<1> HIDE DEF good
<1>3. \A i \in 0 .. n : i \in good
  BY <1>1, <1>2, Counting, Zenon
<1>4. n \in 0 .. n /\ AllExported(n) = After(n)[n]
  BY AfterIs
<1>5. Sound(After(n)[n], out \cup First(n))
  BY <1>3, <1>4, Zenon DEF good
<1> QED BY <1>4, <1>5, Zenon

Lives == {"new", "open", "ended"}
Turns == [calls : Nat, error : BOOLEAN, fallback : BOOLEAN]
SpanStates == [state : Lives, agent : SpanIds \cup {NoAgent}, failed : BOOLEAN, turn : Turns]
Out == {s \in SpanIds : Exported(s)}

TelemetryTyped ==
  /\ policy \in [mode : PayloadModes \cup {"unset"}, sampled : SUBSET Traces]
  /\ spanLineage \in Seq(SpanIds) /\ queue \in Seq(SpanIds)
  /\ span \in [SpanIds -> SpanStates] /\ traceStats \in [Traces -> Nat] /\ now \in Nat
Lined ==
  /\ policy.mode = "unset" => \A s \in SpanIds : span[s].state = "new"
  /\ \A i \in 1 .. Len(queue) : span[queue[i]].state = "ended"
  /\ \A i, j \in 1 .. Len(queue) : queue[i] = queue[j] => i = j
TelemetryInv == TelemetryTyped /\ Lined /\ Sound(exporter, Out) /\ CreditIsTrue

\* The books go on to balance while nothing is exported.
LEMMA SoundStays ==
  ASSUME NEW e, NEW out, Sound(e, out), exporter' = e, Out' = out, policy' = policy \/ out = {},
         \A s \in out : span'[s] = span[s]
  PROVE  Sound(exporter, Out)'
<1>1. Payloads(Out)' = Payloads(out)
  BY DEF Payloads, isPayloadSpan
<1>2. \A t, reason : Reasoned(t, reason, out) => Reasoned(t, reason, Out)'
  BY DEF Reasoned, payloadDecision
<1> HIDE DEF Out
<1>3. Queueing(exporter.pending, Out)'
  BY <1>1 DEF Sound, Queueing
<1>4. Written(exporter.rows, exporter.pending, Out)'
  BY <1>1, <1>2 DEF Sound, Written
<1>5. Decided(exporter.decisions, Out)'
  BY <1>2 DEF Sound, Decided
<1>6. Balanced(exporter.pending, exporter.rows, exporter.pendingCount, exporter.dropped, Out)'
  BY <1>1 DEF Sound, Balanced, WaitingOf, WaitingIn
<1> QED BY <1>3, <1>4, <1>5, <1>6 DEF Sound

LEMMA TelemetryStarts == TelemetryInit => TelemetryInv
<1> SUFFICES ASSUME TelemetryInit PROVE TelemetryInv
  OBVIOUS
<1> USE DEF TelemetryInit
<1>1. TelemetryTyped /\ Lined /\ CreditIsTrue
  <2>1. [state |-> "new", agent |-> NoAgent, failed |-> FALSE, turn |-> NoTurn] \in SpanStates
    BY DEF SpanStates, Turns, Lives, NoTurn
  <2>2. policy \in [mode : PayloadModes \cup {"unset"}, sampled : SUBSET Traces]
    OBVIOUS
  <2> QED BY <2>1, <2>2 DEF TelemetryTyped, Lined, CreditIsTrue
<1>2. Out = {} /\ Payloads(Out) = {}
  BY DEF Out, Exported, Payloads
<1>3. WaitingOf(exporter.pending) = {}
  <2>1. \A t \in Traces : Range(exporter.pending[t].spans) = {}
    BY DEF Range
  <2> QED BY <2>1 DEF WaitingOf, WaitingIn
<1>4. Queueing(exporter.pending, Out) /\ Written(exporter.rows, exporter.pending, Out)
  BY DEF Queueing, Written
<1>5. Decided(exporter.decisions, Out)
  BY DEF Decided, Reasons
<1>6. Balanced(exporter.pending, exporter.rows, exporter.pendingCount, exporter.dropped, Out)
  <2>1. exporter.rows = <<>> /\ exporter.pendingCount = 0 /\ exporter.dropped = 0 /\ PENDING_CAP \in Nat
    BY TelemetryAssumption
  <2>2. Cardinality(WaitingOf(exporter.pending)) = 0 /\ Cardinality(Payloads(Out)) = 0
    BY <1>2, <1>3, FS_EmptySet
  <2> HIDE DEF TelemetryInit
  <2> QED BY <2>1, <2>2 DEF Balanced
<1> QED BY <1>1, <1>4, <1>5, <1>6 DEF TelemetryInv, Sound

\* A span's record as it starts and ends.
LEMMA SpanChanges ==
  ASSUME NEW r \in SpanStates, NEW agent \in SpanIds \cup {NoAgent}, NEW failed \in BOOLEAN, NEW turn \in Turns
  PROVE  /\ [r EXCEPT !.state = "open", !.agent = agent] \in SpanStates
         /\ [r EXCEPT !.state = "ended", !.failed = failed] \in SpanStates
         /\ [r EXCEPT !.state = "ended", !.turn = turn] \in SpanStates
BY DEF SpanStates, Lives

\* A lineage keeps spans only.
LEMMA LineageKeeps ==
  ASSUME NEW lineage \in Seq(SpanIds), NEW s \in SpanIds
  PROVE  /\ Range(lineage) \subseteq SpanIds
         /\ Append(lineage, s) \in Seq(SpanIds)
         /\ Evicted(lineage) \in Seq(SpanIds)
         /\ RemoveFirst(lineage, s) \in Seq(SpanIds)
<1>1. Evicted(lineage) \in Seq(SpanIds)
  <2>1. CASE lineage = <<>>
    BY <2>1, TelemetryAssumption DEF Evicted
  <2>2. CASE lineage # <<>>
    BY <2>2 DEF Evicted
  <2> QED BY <2>1, <2>2
<1>2. RemoveFirst(lineage, s) \in Seq(SpanIds)
  <2> DEFINE I == {i \in 1 .. Len(lineage) : lineage[i] = s}
  <2>1. CASE I = {}
    BY <2>1 DEF RemoveFirst
  <2>2. CASE I # {}
    <3>1. I \subseteq Nat
      OBVIOUS
    <3>2. PICK i \in I : \A j \in I : i <= j
      BY <2>2, <3>1, Least
    <3>3. Min(I) \in I
      BY <3>2 DEF Min
    <3>4. SelectInSeq(lineage, LAMBDA v : v = s) = Min(I)
      BY <2>2 DEF SelectInSeq
    <3>5. RemoveFirst(lineage, s) = RemoveAt(lineage, Min(I))
      BY <2>2, <3>4 DEF RemoveFirst
    <3>6. \A k \in 1 .. Len(lineage) : RemoveAt(lineage, k) \in Seq(SpanIds)
      BY DEF RemoveAt
    <3> QED BY <3>3, <3>5, <3>6
  <2> QED BY <2>1, <2>2
<1> QED BY <1>1, <1>2 DEF Range

\* What has not been exported may change.
LEMMA OutStays ==
  ASSUME TelemetryInv, exporter' = exporter, Out' = Out, policy' = policy \/ Out = {}, \A s \in Out : span'[s] = span[s]
  PROVE  Sound(exporter, Out)'
<1>1. Sound(exporter, Out)
  BY DEF TelemetryInv
<1> QED BY <1>1, SoundStays

LEMMA InitializeKeeps ==
  ASSUME TelemetryInv, NEW mode \in PayloadModes, NEW sampled \in SUBSET Traces, initializeTracing(mode, sampled)
  PROVE  TelemetryInv'
<1> USE DEF initializeTracing
<1>1. TelemetryTyped' /\ CreditIsTrue'
  BY DEF TelemetryInv, TelemetryTyped, CreditIsTrue
<1>2. Lined'
  BY DEF TelemetryInv, Lined, PayloadModes
<1>3. Out' = Out /\ Out = {} /\ exporter' = exporter
  BY DEF Out, Exported, TelemetryInv, Lined
<1>4. Sound(exporter, Out)'
  BY <1>3, OutStays
<1> QED BY <1>1, <1>2, <1>4 DEF TelemetryInv

LEMMA TickKeeps ==
  ASSUME TelemetryInv, Tick
  PROVE  TelemetryInv'
<1> USE DEF Tick
<1>1. TelemetryTyped' /\ CreditIsTrue' /\ Lined'
  BY DEF TelemetryInv, TelemetryTyped, CreditIsTrue, Lined
<1>2. Out' = Out /\ exporter' = exporter /\ policy' = policy /\ span' = span
  BY DEF Out, Exported
<1>3. Sound(exporter, Out)'
  BY <1>2, OutStays
<1> QED BY <1>1, <1>3 DEF TelemetryInv

\* A span that ends waits in the queue; nothing leaves it.
LEMMA EndKeeps ==
  ASSUME TelemetryInv, NEW s \in SpanIds, span[s].state = "open", NEW r \in SpanStates, r.state = "ended",
         r.agent = span[s].agent,
         span' = [span EXCEPT ![s] = r], queue' = Append(queue, s), spanLineage' = RemoveFirst(spanLineage, s),
         traceStats' \in [Traces -> Nat], UNCHANGED <<policy, exporter, now>>
  PROVE  TelemetryInv'
<1>1. TelemetryTyped
  BY DEF TelemetryInv
<1>2. TelemetryTyped'
  <2>1. spanLineage' \in Seq(SpanIds)
    BY <1>1, LineageKeeps DEF TelemetryTyped
  <2>2. span' \in [SpanIds -> SpanStates]
    BY <1>1 DEF TelemetryTyped
  <2>3. queue' \in Seq(SpanIds)
    BY <1>1 DEF TelemetryTyped
  <2> QED BY <1>1, <2>1, <2>2, <2>3 DEF TelemetryTyped
<1>3. queue \in Seq(SpanIds) /\ span'[s] = r /\ \A x \in SpanIds \ {s} : span'[x] = span[x]
  BY <1>1 DEF TelemetryTyped
<1>4. /\ Len(queue) \in Nat /\ Len(queue') = Len(queue) + 1 /\ queue'[Len(queue) + 1] = s
      /\ \A i \in 1 .. Len(queue) : queue'[i] = queue[i]
      /\ \A i \in 1 .. Len(queue') : i \in 1 .. Len(queue) \/ i = Len(queue) + 1
      /\ Range(queue') = Range(queue) \cup {s}
  BY <1>3, OneMore
<1>5. \A i \in 1 .. Len(queue) : queue[i] # s /\ queue[i] \in SpanIds /\ span[queue[i]].state = "ended"
  BY <1>3 DEF TelemetryInv, Lined
<1>6. Lined'
  <2>1. policy'.mode # "unset"
    BY DEF TelemetryInv, Lined
  <2>2. \A i \in 1 .. Len(queue') : span'[queue'[i]].state = "ended"
    BY <1>3, <1>4, <1>5
  <2>3. \A i, j \in 1 .. Len(queue') : queue'[i] = queue'[j] => i = j
    BY <1>4, <1>5 DEF TelemetryInv, Lined
  <2> QED BY <2>1, <2>2, <2>3 DEF Lined
<1>7. CreditIsTrue'
  BY <1>3 DEF TelemetryInv, CreditIsTrue
<1>8. s \notin Out /\ Out' = Out
  <2>1. \A x \in SpanIds : Exported(x)' <=> Exported(x)
    BY <1>3, <1>4 DEF Exported
  <2>2. ~Exported(s)
    BY DEF Exported
  <2> QED BY <2>1, <2>2 DEF Out
<1>9. \A x \in Out : span'[x] = span[x]
  BY <1>3, <1>8 DEF Out
<1>10. Sound(exporter, Out)'
  BY <1>8, <1>9, OutStays
<1> QED BY <1>2, <1>6, <1>7, <1>10 DEF TelemetryInv

LEMMA EndSpanKeeps ==
  ASSUME TelemetryInv, NEW s \in SpanIds, NEW failed \in BOOLEAN, EndSpan(s, failed)
  PROVE  TelemetryInv'
<1> DEFINE r == [span[s] EXCEPT !.state = "ended", !.failed = failed]
<1>1. span \in [SpanIds -> SpanStates] /\ traceStats \in [Traces -> Nat] /\ span[s] \in SpanStates /\ NoTurn \in Turns
  BY DEF TelemetryInv, TelemetryTyped, NoTurn, Turns
<1>2. r \in SpanStates /\ r.state = "ended" /\ r.agent = span[s].agent
  <2>1. r \in SpanStates
    BY <1>1, SpanChanges DEF SpanStates
  <2>2. r.state = "ended" /\ r.agent = span[s].agent
    BY <1>1 DEF SpanStates
  <2> QED BY <2>1, <2>2
<1>3. span' = [span EXCEPT ![s] = r]
  BY <1>1 DEF EndSpan
<1>4. traceStats' \in [Traces -> Nat]
  <2>1. traceStats[Spans[s].trace] + 1 \in Nat
    BY <1>1 DEF Traces
  <2>2. traceStats' = traceStats \/ traceStats' = [traceStats EXCEPT ![Spans[s].trace] = traceStats[Spans[s].trace] + 1]
    BY DEF EndSpan
  <2> HIDE DEF r
  <2> QED BY <1>1, <2>1, <2>2
<1> HIDE DEF r
<1> QED BY <1>2, <1>3, <1>4, EndKeeps DEF EndSpan

LEMMA EndTurnKeeps ==
  ASSUME TelemetryInv, NEW s \in SpanIds, NEW error \in BOOLEAN, NEW fallback \in BOOLEAN, EndTurn(s, error, fallback)
  PROVE  TelemetryInv'
<1> DEFINE turn == [calls |-> traceStats[Spans[s].trace], error |-> error, fallback |-> fallback]
           r == [span[s] EXCEPT !.state = "ended", !.turn = turn]
<1>1. span \in [SpanIds -> SpanStates] /\ traceStats \in [Traces -> Nat] /\ span[s] \in SpanStates /\ Spans[s].trace \in Traces
  BY DEF TelemetryInv, TelemetryTyped, Traces
<1>2. r \in SpanStates /\ r.state = "ended" /\ r.agent = span[s].agent
  <2>1. turn \in Turns
    BY <1>1 DEF Turns
  <2> HIDE DEF turn
  <2>2. r \in SpanStates
    BY <1>1, <2>1, SpanChanges DEF SpanStates
  <2>3. r.state = "ended" /\ r.agent = span[s].agent
    BY <1>1 DEF SpanStates
  <2> QED BY <2>2, <2>3
<1>3. span' = [span EXCEPT ![s] = r]
  BY <1>1 DEF EndTurn
<1>4. traceStats' \in [Traces -> Nat]
  BY <1>1 DEF EndTurn
<1> HIDE DEF r
<1> QED BY <1>2, <1>3, <1>4, EndKeeps DEF EndTurn

\* An export moves the first spans of the queue out of it.
LEMMA ExportStepKeeps ==
  ASSUME TelemetryInv, NEW n \in Nat, Export(n)
  PROVE  TelemetryInv'
<1> DEFINE e == pruneBuffers(AllExported(n))
           out == Out \cup First(n)
<1>1. /\ n \in 1 .. Len(queue) /\ queue' = SubSeq(queue, n + 1, Len(queue)) /\ exporter' = e
      /\ policy' = policy /\ span' = span /\ spanLineage' = spanLineage /\ traceStats' = traceStats /\ now' = now
  BY DEF Export
<1>2. queue \in Seq(SpanIds) /\ now \in Nat /\ Len(queue) \in Nat
  BY DEF TelemetryInv, TelemetryTyped
<1>3. /\ \A i \in 1 .. Len(queue) : queue[i] \in SpanIds /\ span[queue[i]].state = "ended"
      /\ \A i, j \in 1 .. Len(queue) : queue[i] = queue[j] => i = j
      /\ Range(queue) = {queue[i] : i \in 1 .. Len(queue)}
  BY <1>2 DEF TelemetryInv, Lined, Range
<1>4. /\ queue' \in Seq(SpanIds) /\ Len(queue') = Len(queue) - n
      /\ \A i \in 1 .. Len(queue') : n + i \in 1 .. Len(queue) /\ queue'[i] = queue[n + i]
      /\ Range(queue') = {queue[i] : i \in n + 1 .. Len(queue)}
  <2>1. /\ queue' \in Seq(SpanIds) /\ Len(queue') = Len(queue) - n
        /\ \A i \in 1 .. Len(queue') : n + i \in 1 .. Len(queue) /\ queue'[i] = queue[n + i]
    BY <1>1, <1>2
  <2>2. DOMAIN queue' = 1 .. Len(queue')
    BY <2>1
  <2>3. \A i \in n + 1 .. Len(queue) : i - n \in 1 .. Len(queue') /\ queue'[i - n] = queue[i]
    BY <1>1, <1>2, <2>1
  <2>4. \A i \in 1 .. Len(queue') : n + i \in n + 1 .. Len(queue)
    BY <1>1, <1>2, <2>1
  <2>5. Range(queue') = {queue'[i] : i \in 1 .. Len(queue')}
    BY <2>2 DEF Range
  <2>6. \A x : (\E i \in 1 .. Len(queue') : x = queue'[i]) <=> (\E i \in n + 1 .. Len(queue) : x = queue[i])
    BY <2>1, <2>3, <2>4
  <2> QED BY <2>1, <2>5, <2>6
<1>5. policy.mode # "unset"
  BY <1>1, <1>3 DEF TelemetryInv, Lined
<1>6. \A i \in 1 .. Len(queue) : queue[i] \notin Out
  BY <1>3 DEF Out, Exported
<1>7. Out \in SUBSET SpanIds /\ Sound(exporter, Out)
  BY DEF Out, TelemetryInv
<1>8. Sound(AllExported(n), Out \cup First(n))
  <2>1. n <= Len(queue)
    BY <1>1, <1>2
  <2> HIDE DEF Out
  <2> QED BY <1>2, <1>3, <1>5, <1>6, <1>7, <2>1, ExportKeeps, Zenon
<1>9. Sound(e, out)
  BY <1>2, <1>8, PruneKeeps
<1>10. Out' = out
  <2>1. \A x \in SpanIds : x \in Range(queue) <=> x \in First(n) \/ x \in Range(queue')
    <3>1. \A i \in 1 .. Len(queue) : i \in 1 .. n \/ i \in n + 1 .. Len(queue)
      BY <1>1, <1>2
    <3>2. \A i \in 1 .. n : i \in 1 .. Len(queue)
      BY <1>1, <1>2
    <3>3. \A i \in n + 1 .. Len(queue) : i \in 1 .. Len(queue)
      BY <1>1, <1>2
    <3> QED BY <1>3, <1>4, <3>1, <3>2, <3>3 DEF First
  <2>2. \A x \in First(n) : x \in SpanIds /\ span[x].state = "ended" /\ x \notin Range(queue')
    <3> TAKE x \in First(n)
    <3>1. PICK i \in 1 .. n : x = queue[i]
      BY DEF First
    <3>2. i \in 1 .. Len(queue)
      BY <1>1, <1>2
    <3>3. \A j \in n + 1 .. Len(queue) : queue[j] # x
      <4> TAKE j \in n + 1 .. Len(queue)
      <4>1. j \in 1 .. Len(queue) /\ j # i
        BY <1>1, <1>2
      <4> QED BY <1>3, <3>1, <3>2, <4>1
    <3> QED BY <1>3, <1>4, <3>1, <3>2, <3>3
  <2>3. \A x \in SpanIds : Exported(x)' <=> Exported(x) \/ x \in First(n)
    BY <1>1, <2>1, <2>2 DEF Exported
  <2> QED BY <2>2, <2>3 DEF Out
<1>11. Sound(exporter, Out)'
  <2> HIDE DEF e, out
  <2>1. \A x \in out : span'[x] = span[x]
    BY <1>1
  <2>2. exporter' = e /\ (policy' = policy \/ out = {})
    BY <1>1
  <2> QED BY <1>9, <1>10, <2>1, <2>2, SoundStays, ZenonT(60)
<1>12. TelemetryTyped' /\ CreditIsTrue'
  BY <1>1, <1>4 DEF TelemetryInv, TelemetryTyped, CreditIsTrue
<1>13. Lined'
  <2>1. \A i \in 1 .. Len(queue') : span'[queue'[i]].state = "ended"
    <3> TAKE i \in 1 .. Len(queue')
    <3>1. n + i \in 1 .. Len(queue) /\ queue'[i] = queue[n + i]
      BY <1>4
    <3> QED BY <1>1, <1>3, <3>1
  <2>2. \A i, j \in 1 .. Len(queue') : queue'[i] = queue'[j] => i = j
    <3> TAKE i, j \in 1 .. Len(queue')
    <3>1. /\ n + i \in 1 .. Len(queue) /\ queue'[i] = queue[n + i]
          /\ n + j \in 1 .. Len(queue) /\ queue'[j] = queue[n + j]
      BY <1>4
    <3>2. queue[n + i] = queue[n + j] => n + i = n + j
      BY <1>3, <3>1
    <3> QED BY <3>1, <3>2
  <2> QED BY <1>1, <1>5, <2>1, <2>2 DEF Lined
<1> QED BY <1>11, <1>12, <1>13 DEF TelemetryInv

\* The spans a walk passes, and those above a span.
Walk(s, lineage) ==
  CHOOSE steps : steps = [depth \in 0 .. 11 |-> IF depth = 0 THEN s ELSE NextUp(steps[depth - 1], lineage)]
Up(s) ==
  CHOOSE up : up = [d \in 0 .. 12 |-> IF d = 0 THEN s ELSE IF up[d - 1] = 0 THEN 0 ELSE Spans[up[d - 1]].parent]

LEMMA WalkIs ==
  ASSUME NEW s, NEW lineage
  PROVE  /\ Walk(s, lineage)[0] = s
         /\ \A i \in 0 .. 10 : Walk(s, lineage)[i + 1] = NextUp(Walk(s, lineage)[i], lineage)
<1> DEFINE Is(m, f) == f = [i \in 0 .. m |-> IF i = 0 THEN s ELSE NextUp(f[i - 1], lineage)]
           good == {m \in Nat : \E f : Is(m, f)}
<1>1. 0 \in good
  <2>1. Is(0, [i \in 0 .. 0 |-> s])
    OBVIOUS
  <2> QED BY <2>1
<1>2. ASSUME NEW m \in 0 .. 11 - 1, m \in good PROVE m + 1 \in good
  <2>1. PICK f : Is(m, f)
    BY <1>2
  <2> DEFINE g == [i \in 0 .. m + 1 |-> IF i = m + 1 THEN NextUp(f[m], lineage) ELSE f[i]]
  <2>2. \A i \in 0 .. m + 1 : g[i] = IF i = 0 THEN s ELSE NextUp(g[i - 1], lineage)
    <3> TAKE i \in 0 .. m + 1
    <3>1. CASE i = m + 1
      <4>1. g[i] = NextUp(f[m], lineage) /\ g[i - 1] = f[m] /\ i # 0
        BY <3>1
      <4> QED BY <4>1
    <3>2. CASE i # m + 1 /\ i # 0
      <4>1. g[i] = f[i] /\ g[i - 1] = f[i - 1] /\ f[i] = NextUp(f[i - 1], lineage)
        BY <2>1, <3>2
      <4> QED BY <3>2, <4>1
    <3>3. CASE i = 0
      BY <2>1, <3>3
    <3> QED BY <3>1, <3>2, <3>3
  <2>3. g = [i \in 0 .. m + 1 |-> g[i]]
    OBVIOUS
  <2> HIDE DEF g
  <2>4. Is(m + 1, g)
    BY <2>2, <2>3
  <2> QED BY <2>4
<1> HIDE DEF good
<1>3. 11 \in good
  <2>1. \A m \in 0 .. 11 : m \in good
    BY <1>1, <1>2, Counting
  <2> QED BY <2>1
<1>4. PICK f : Is(11, f)
  BY <1>3 DEF good
<1>5. Is(11, Walk(s, lineage))
  BY <1>4 DEF Walk
<1> HIDE DEF Walk
<1> QED BY <1>5

LEMMA UpIs ==
  ASSUME NEW s
  PROVE  /\ Up(s)[0] = s
         /\ \A i \in 0 .. 11 : Up(s)[i + 1] = IF Up(s)[i] = 0 THEN 0 ELSE Spans[Up(s)[i]].parent
<1> DEFINE Above(x) == IF x = 0 THEN 0 ELSE Spans[x].parent
           Is(m, f) == f = [i \in 0 .. m |-> IF i = 0 THEN s ELSE Above(f[i - 1])]
           good == {m \in Nat : \E f : Is(m, f)}
<1>1. 0 \in good
  <2>1. Is(0, [i \in 0 .. 0 |-> s])
    OBVIOUS
  <2> QED BY <2>1
<1>2. ASSUME NEW m \in 0 .. 12 - 1, m \in good PROVE m + 1 \in good
  <2>1. PICK f : Is(m, f)
    BY <1>2
  <2> HIDE DEF Above
  <2> DEFINE g == [i \in 0 .. m + 1 |-> IF i = m + 1 THEN Above(f[m]) ELSE f[i]]
  <2>2. \A i \in 0 .. m + 1 : g[i] = IF i = 0 THEN s ELSE Above(g[i - 1])
    <3> TAKE i \in 0 .. m + 1
    <3>1. CASE i = m + 1
      <4>1. g[i] = Above(f[m]) /\ g[i - 1] = f[m] /\ i # 0
        BY <3>1
      <4> QED BY <4>1
    <3>2. CASE i # m + 1 /\ i # 0
      <4>1. g[i] = f[i] /\ g[i - 1] = f[i - 1] /\ f[i] = Above(f[i - 1])
        BY <2>1, <3>2
      <4> QED BY <3>2, <4>1
    <3>3. CASE i = 0
      BY <2>1, <3>3
    <3> QED BY <3>1, <3>2, <3>3
  <2>3. g = [i \in 0 .. m + 1 |-> g[i]]
    OBVIOUS
  <2> HIDE DEF g
  <2>4. Is(m + 1, g)
    BY <2>2, <2>3
  <2> QED BY <2>4
<1>3. 12 \in good
  <2> HIDE DEF good
  <2>1. \A m \in 0 .. 12 : m \in good
    BY <1>1, <1>2, Counting
  <2> QED BY <2>1
<1>4. PICK f : Is(12, f)
  BY <1>3
<1>5. Is(12, Up(s))
  BY <1>4 DEF Up
<1> HIDE DEF Up
<1> QED BY <1>5

\* A walk that stands still stands still to its end.
LEMMA WalkStays ==
  ASSUME NEW s, NEW lineage, NEW j \in 0 .. 11, NextUp(Walk(s, lineage)[j], lineage) = Walk(s, lineage)[j]
  PROVE  Walk(s, lineage)[11] = Walk(s, lineage)[j]
<1> DEFINE w == Walk(s, lineage)
           good == {i \in Nat : j + i <= 11 => w[j + i] = w[j]}
<1>1. \A i \in 0 .. 10 : w[i + 1] = NextUp(w[i], lineage)
  BY WalkIs
<1> HIDE DEF w
<1>2. 0 \in good
  OBVIOUS
<1>3. ASSUME NEW i \in 0 .. (11 - j) - 1, i \in good PROVE i + 1 \in good
  <2>1. j + i \in 0 .. 10 /\ (j + i) + 1 = j + (i + 1) /\ i + 1 \in Nat
    OBVIOUS
  <2>2. w[j + i] = w[j] /\ w[(j + i) + 1] = NextUp(w[j + i], lineage)
    BY <1>1, <1>3, <2>1
  <2>3. w[j + (i + 1)] = w[j]
    BY <2>1, <2>2 DEF w
  <2> QED BY <2>1, <2>3
<1>4. 11 - j \in good
  <2> HIDE DEF good
  <2>1. 11 - j \in Nat /\ 11 - j \in 0 .. 11 - j
    OBVIOUS
  <2>2. \A i \in 0 .. 11 - j : i \in good
    BY <1>2, <1>3, <2>1, Counting
  <2> QED BY <2>1, <2>2
<1>5. j + (11 - j) = 11
  OBVIOUS
<1> QED BY <1>4, <1>5 DEF w

\* Where a walk that finds an agent passes.
LEMMA WalkFinds ==
  ASSUME NEW s \in SpanIds \cup {0}, NEW lineage \in Seq(SpanIds), agentForSpan(s, lineage) # NoAgent
  PROVE  \E k \in 0 .. 11 :
           LET w == Walk(s, lineage) IN
           /\ w[k] = agentForSpan(s, lineage) /\ w[k] \in SpanIds /\ Spans[w[k]].kind = "agent"
           /\ \A j \in 0 .. k - 1 : w[j] \in SpanIds /\ Spans[w[j]].kind # "agent" /\ w[j + 1] = Spans[w[j]].parent
           /\ Spans[w[k]].trace = Spans[s].trace
<1> DEFINE w == Walk(s, lineage)
           a == w[11]
           at == {k \in 0 .. 11 : w[k] = a}
<1>1. agentForSpan(s, lineage) = IF w[11] \in Range(lineage) /\ Spans[w[11]].kind = "agent" THEN w[11] ELSE NoAgent
  BY DEF agentForSpan, Walk
<1>2. Range(lineage) \subseteq SpanIds /\ 0 \notin SpanIds
  BY TelemetryAssumption DEF Range, SpanIds
<1>3. agentForSpan(s, lineage) = a /\ a \in Range(lineage) /\ a \in SpanIds /\ Spans[a].kind = "agent"
  BY <1>1, <1>2
<1>4. w[0] = s /\ \A i \in 0 .. 10 : w[i + 1] = NextUp(w[i], lineage)
  BY WalkIs
<1>5. \A j \in 0 .. 11 : NextUp(w[j], lineage) = w[j] => w[j] = a
  BY WalkStays
<1> HIDE DEF w
<1>6. PICK k \in at : \A j \in at : k <= j
  <2>1. at \subseteq Nat /\ 11 \in at
    OBVIOUS
  <2> HIDE DEF at
  <2> QED BY <2>1, Least
<1>7. k \in 0 .. 11 /\ w[k] = a /\ \A j \in 0 .. k - 1 : w[j] # a
  BY <1>6
<1> HIDE DEF at, a
<1>8. ASSUME NEW j \in 0 .. k - 1 PROVE w[j] \in SpanIds /\ Spans[w[j]].kind # "agent" /\ w[j + 1] = Spans[w[j]].parent
  <2>1. j \in 0 .. 10 /\ j + 1 \in 0 .. 11
    BY <1>7
  <2>2. w[j] \in Range(lineage)
    <3> SUFFICES ASSUME w[j] \notin Range(lineage) PROVE FALSE
      OBVIOUS
    <3>1. w[j + 1] = 0
      BY <1>4, <2>1 DEF NextUp
    <3>2. NextUp(w[j + 1], lineage) = w[j + 1]
      BY <1>2, <3>1 DEF NextUp
    <3> QED BY <1>2, <1>3, <1>5, <2>1, <3>1, <3>2
  <2>3. Spans[w[j]].kind # "agent"
    <3> SUFFICES ASSUME Spans[w[j]].kind = "agent" PROVE FALSE
      OBVIOUS
    <3>1. NextUp(w[j], lineage) = w[j]
      BY <2>2 DEF NextUp
    <3> QED BY <1>5, <1>7, <2>1, <3>1
  <2> QED BY <1>2, <1>4, <2>1, <2>2, <2>3 DEF NextUp
<1>9. Spans[w[k]].trace = Spans[s].trace
  <2> DEFINE good == {i \in Nat : i <= k => Spans[w[i]].trace = Spans[s].trace}
  <2>1. 0 \in good
    BY <1>4
  <2>2. ASSUME NEW i \in 0 .. k - 1, i \in good PROVE i + 1 \in good
    <3>1. w[i + 1] = Spans[w[i]].parent /\ w[i] \in SpanIds /\ Spans[w[i]].trace = Spans[s].trace
      BY <1>7, <1>8, <2>2
    <3>2. w[i + 1] \in SpanIds
      <4>1. CASE i + 1 = k
        BY <1>3, <1>7, <4>1
      <4>2. CASE i + 1 # k
        <5>1. i + 1 \in 0 .. k - 1
          BY <1>7, <4>2
        <5> QED BY <1>8, <5>1
      <4> QED BY <4>1, <4>2
    <3>3. Spans[w[i + 1]].trace = Spans[w[i]].trace
      BY <1>2, <3>1, <3>2, TelemetryAssumption DEF SpanIds
    <3> QED BY <1>7, <3>1, <3>3
  <2> HIDE DEF good
  <2>3. k \in Nat /\ k \in 0 .. k
    BY <1>7
  <2>4. \A i \in 0 .. k : i \in good
    BY <2>1, <2>2, <2>3, Counting
  <2> QED BY <2>3, <2>4 DEF good
<1> QED BY <1>3, <1>7, <1>8, <1>9 DEF w

\* A span c places above another is the nearest agent, when the walk from there finds it.
LEMMA CreditedWhenFound ==
  ASSUME NEW s \in SpanIds, NEW from \in SpanIds \cup {0}, NEW lineage \in Seq(SpanIds), NEW c \in {0, 1}, Up(s)[c] = from,
         agentForSpan(from, lineage) # NoAgent, c = 0 => Spans[s].kind # "agent",
         from \in SpanIds => Spans[from].trace = Spans[s].trace
  PROVE  Credited(s, agentForSpan(from, lineage))
<1> DEFINE w == Walk(from, lineage)
           a == agentForSpan(from, lineage)
           u == Up(s)
<1>1. PICK k \in 0 .. 11 :
           /\ w[k] = a /\ w[k] \in SpanIds /\ Spans[w[k]].kind = "agent"
           /\ \A j \in 0 .. k - 1 : w[j] \in SpanIds /\ Spans[w[j]].kind # "agent" /\ w[j + 1] = Spans[w[j]].parent
           /\ Spans[w[k]].trace = Spans[from].trace
  BY WalkFinds
<1>2. w[0] = from
  BY WalkIs
<1>3. u[0] = s /\ u[c] = from /\ \A i \in 0 .. 11 : u[i + 1] = IF u[i] = 0 THEN 0 ELSE Spans[u[i]].parent
  BY UpIs
<1>4. 0 \notin SpanIds
  BY TelemetryAssumption DEF SpanIds
<1> HIDE DEF w, u, a
<1>5. \A i \in 0 .. k : u[c + i] = w[i]
  <2> DEFINE good == {i \in Nat : i <= k => u[c + i] = w[i]}
  <2>1. 0 \in good
    BY <1>2, <1>3
  <2>2. ASSUME NEW i \in 0 .. k - 1, i \in good PROVE i + 1 \in good
    <3>1. c + i \in 0 .. 11 /\ (c + i) + 1 = c + (i + 1) /\ i + 1 \in Nat /\ i <= k
      BY <1>1
    <3>2. u[c + i] = w[i] /\ w[i] \in SpanIds /\ w[i + 1] = Spans[w[i]].parent
      BY <1>1, <2>2, <3>1
    <3>3. u[(c + i) + 1] = w[i + 1]
      BY <1>3, <1>4, <3>1, <3>2
    <3> QED BY <3>1, <3>3
  <2> HIDE DEF good
  <2>0. k \in Nat
    OBVIOUS
  <2>3. \A i \in 0 .. k : i \in good
    BY <2>0, <2>1, <2>2, Counting, Zenon
  <2> QED BY <2>3 DEF good
<1>6. from \in SpanIds /\ Spans[a].trace = Spans[s].trace
  <2>1. from \in SpanIds
    <3>1. CASE k = 0
      BY <1>1, <1>2, <3>1
    <3>2. CASE k # 0
      BY <1>1, <1>2, <3>2
    <3> QED BY <3>1, <3>2
  <2> QED BY <1>1, <2>1
<1>7. c + k \in 1 .. 12
  <2>1. k # 0 \/ c # 0
    <3> SUFFICES ASSUME k = 0, c = 0 PROVE FALSE
      OBVIOUS
    <3> QED BY <1>1, <1>2, <1>3
  <2> QED BY <2>1
<1>8. u[c + k] = a /\ Spans[u[c + k]].kind = "agent"
  <2>1. k \in 0 .. k
    OBVIOUS
  <2>2. u[c + k] = w[k]
    BY <1>5, <2>1
  <2> QED BY <1>1, <2>2
<1>9. \A e \in 1 .. (c + k) - 1 : Spans[u[e]].kind # "agent"
  <2> TAKE e \in 1 .. (c + k) - 1
  <2>1. e - c \in 0 .. k - 1 /\ e - c \in 0 .. k /\ c + (e - c) = e
    OBVIOUS
  <2>2. u[e] = w[e - c]
    BY <1>5, <2>1
  <2> QED BY <1>1, <2>1, <2>2
<1>10. a \in SpanIds
  BY <1>1
<1> QED BY <1>6, <1>7, <1>8, <1>9, <1>10 DEF Credited, u, Up, a

\* An agent found for a call or a request is the nearest one above it.
LEMMA CreditGiven ==
  ASSUME NEW s \in SpanIds, NEW lineage \in Seq(SpanIds)
  PROVE  /\ agentForSpan(Spans[s].parent, lineage) # NoAgent => Credited(s, agentForSpan(Spans[s].parent, lineage))
         /\ Spans[s].kind # "agent" /\ agentForSpan(s, lineage) # NoAgent => Credited(s, agentForSpan(s, lineage))
<1>1. s # 0 /\ Up(s)[0] = s /\ Up(s)[1] = Spans[s].parent
  <2>1. s # 0
    BY TelemetryAssumption DEF SpanIds
  <2>2. Up(s)[0] = s /\ Up(s)[0 + 1] = IF Up(s)[0] = 0 THEN 0 ELSE Spans[Up(s)[0]].parent
    BY UpIs
  <2> QED BY <2>1, <2>2
<1>2. /\ Spans[s].parent \in SpanIds \cup {0}
      /\ Spans[s].parent \in SpanIds => Spans[Spans[s].parent].trace = Spans[s].trace
  BY TelemetryAssumption DEF SpanIds
<1>3. ASSUME agentForSpan(Spans[s].parent, lineage) # NoAgent PROVE Credited(s, agentForSpan(Spans[s].parent, lineage))
  <2> DEFINE from == Spans[s].parent
  <2>1. from \in SpanIds \cup {0} /\ Up(s)[1] = from /\ (from \in SpanIds => Spans[from].trace = Spans[s].trace)
    BY <1>1, <1>2
  <2>2. agentForSpan(from, lineage) # NoAgent
    BY <1>3
  <2>3. 1 \in {0, 1} /\ (1 = 0 => Spans[s].kind # "agent")
    OBVIOUS
  <2> HIDE DEF from
  <2>4. Credited(s, agentForSpan(from, lineage))
    BY <2>1, <2>2, <2>3, CreditedWhenFound, Zenon
  <2> QED BY <2>4 DEF from
<1>4. ASSUME Spans[s].kind # "agent", agentForSpan(s, lineage) # NoAgent PROVE Credited(s, agentForSpan(s, lineage))
  <2>1. s \in SpanIds \cup {0} /\ Up(s)[0] = s /\ 0 \in {0, 1} /\ (s \in SpanIds => Spans[s].trace = Spans[s].trace)
    BY <1>1
  <2> QED BY <1>4, <2>1, CreditedWhenFound, Zenon
<1> QED BY <1>3, <1>4

LEMMA StartKeeps ==
  ASSUME TelemetryInv, NEW s \in SpanIds, StartSpan(s)
  PROVE  TelemetryInv'
<1> DEFINE entered == Append(spanLineage, s)
           agent == CASE Spans[s].kind = "call_llm" -> agentForSpan(Spans[s].parent, entered)
                      [] Spans[s].kind = "request" -> agentForSpan(s, Evicted(entered))
                      [] OTHER -> NoAgent
           r == [span[s] EXCEPT !.state = "open", !.agent = agent]
<1>1. TelemetryTyped /\ span \in [SpanIds -> SpanStates] /\ span[s] \in SpanStates /\ NoTurn \in Turns
  BY DEF TelemetryInv, TelemetryTyped, NoTurn, Turns
<1>2. entered \in Seq(SpanIds) /\ Evicted(entered) \in Seq(SpanIds)
  BY <1>1, LineageKeeps DEF TelemetryTyped
<1> HIDE DEF entered
<1>3. agent # NoAgent => Credited(s, agent)
  <2>1. CASE Spans[s].kind = "call_llm"
    BY <1>2, <2>1, CreditGiven
  <2>2. CASE Spans[s].kind = "request"
    BY <1>2, <2>2, CreditGiven
  <2>3. CASE Spans[s].kind \notin {"call_llm", "request"}
    BY <2>3
  <2> QED BY <2>1, <2>2, <2>3
<1>4. agent \in SpanIds \cup {NoAgent}
  BY <1>3 DEF Credited
<1>5. span' = [span EXCEPT ![s] = r] /\ spanLineage' = Evicted(entered)
  BY <1>1 DEF StartSpan, entered
<1> HIDE DEF agent
<1>6. r \in SpanStates /\ r.state = "open" /\ r.agent = agent
  <2>1. FALSE \in BOOLEAN
    OBVIOUS
  <2>2. r \in SpanStates
    BY <1>1, <1>4, <2>1, SpanChanges
  <2>3. r.state = "open" /\ r.agent = agent
    BY <1>1 DEF SpanStates
  <2> QED BY <2>2, <2>3
<1> HIDE DEF r
<1>7. span' \in [SpanIds -> SpanStates] /\ span'[s] = r /\ \A x \in SpanIds \ {s} : span'[x] = span[x]
  BY <1>1, <1>5, <1>6
<1>8. TelemetryTyped'
  BY <1>1, <1>2, <1>5, <1>7 DEF TelemetryTyped, StartSpan
<1>9. CreditIsTrue'
  BY <1>3, <1>6, <1>7 DEF TelemetryInv, CreditIsTrue
<1>10. Lined'
  <2>1. queue' = queue /\ policy' = policy /\ policy.mode # "unset" /\ span[s].state = "new"
    BY DEF StartSpan
  <2>2. \A i \in 1 .. Len(queue) : queue[i] # s /\ queue[i] \in SpanIds
    BY <1>1, <2>1 DEF TelemetryInv, TelemetryTyped, Lined
  <2> QED BY <1>7, <2>1, <2>2 DEF TelemetryInv, Lined
<1>11. Out' = Out /\ s \notin Out
  <2>1. queue' = queue /\ span[s].state = "new"
    BY DEF StartSpan
  <2>2. \A x \in SpanIds : Exported(x)' <=> Exported(x)
    BY <1>6, <1>7, <2>1 DEF Exported
  <2>3. ~Exported(s)
    BY <2>1 DEF Exported
  <2> QED BY <2>2, <2>3 DEF Out
<1>12. \A x \in Out : span'[x] = span[x]
  BY <1>7, <1>11 DEF Out
<1>13. policy' = policy /\ exporter' = exporter
  BY DEF StartSpan
<1>14. Sound(exporter, Out)'
  BY <1>11, <1>12, <1>13, OutStays
<1> QED BY <1>8, <1>9, <1>10, <1>14 DEF TelemetryInv

LEMMA TelemetryNextKeeps ==
  ASSUME TelemetryInv, [TelemetryNext]_telemetryVars
  PROVE  TelemetryInv'
<1>1. ASSUME NEW mode \in PayloadModes, NEW sampled \in SUBSET Traces, initializeTracing(mode, sampled) PROVE TelemetryInv'
  BY <1>1, InitializeKeeps
<1>2. ASSUME NEW s \in SpanIds, StartSpan(s) PROVE TelemetryInv'
  BY <1>2, StartKeeps
<1>3. ASSUME NEW s \in SpanIds, NEW failed \in BOOLEAN, EndSpan(s, failed) PROVE TelemetryInv'
  BY <1>3, EndSpanKeeps
<1>4. ASSUME NEW s \in SpanIds, NEW error \in BOOLEAN, NEW fallback \in BOOLEAN, EndTurn(s, error, fallback) PROVE TelemetryInv'
  BY <1>4, EndTurnKeeps
<1>5. ASSUME NEW n \in 1 .. Cardinality(SpanIds), Export(n) PROVE TelemetryInv'
  <2>1. n \in Nat
    BY TracesFinite, FS_CardinalityType
  <2> QED BY <1>5, <2>1, ExportStepKeeps
<1>6. CASE Tick
  BY <1>6, TickKeeps
<1>7. CASE UNCHANGED telemetryVars
  <2>1. TelemetryTyped' /\ CreditIsTrue' /\ Lined' /\ Out' = Out /\ exporter' = exporter /\ policy' = policy /\ span' = span
    BY <1>7 DEF TelemetryInv, TelemetryTyped, CreditIsTrue, Lined, Out, Exported, telemetryVars
  <2>2. Sound(exporter, Out)'
    BY <2>1, OutStays
  <2> QED BY <2>1, <2>2 DEF TelemetryInv
<1> QED BY <1>1, <1>2, <1>3, <1>4, <1>5, <1>6, <1>7 DEF TelemetryNext

\* What the books say of the rows is what the property asks of them.
LEMMA BooksBalance == TelemetryInv => PayloadsBalance
<1> SUFFICES ASSUME TelemetryInv PROVE PayloadsBalance
  OBVIOUS
<1>1. Sound(exporter, Out) /\ Out = {s \in SpanIds : Exported(s)}
  BY DEF TelemetryInv, Out
<1>2. Waiting = Cardinality(WaitingOf(exporter.pending))
  BY DEF Waiting, Total, WaitingOf, WaitingIn
<1>3. /\ exporter.pendingCount = Waiting /\ Waiting <= PENDING_CAP
      /\ Len(exporter.rows) + Waiting + exporter.dropped = Cardinality(Payloads(Out))
  BY <1>1, <1>2 DEF Sound, Balanced
<1>4. Cardinality(Payloads(Out)) = IF policy.mode \in {"off", "unset"} THEN 0
                                   ELSE Cardinality({s \in SpanIds : Exported(s) /\ isPayloadSpan(s)})
  <2>1. CASE policy.mode \in {"off", "unset"}
    BY <2>1, FS_EmptySet DEF Payloads
  <2>2. CASE policy.mode \notin {"off", "unset"}
    <3>1. Payloads(Out) = {s \in SpanIds : Exported(s) /\ isPayloadSpan(s)}
      BY <1>1, <2>2 DEF Payloads
    <3> QED BY <2>2, <3>1
  <2> QED BY <2>1, <2>2
<1>5. exporter.rows \in Seq(PayloadRows)
  BY <1>1 DEF Sound, Written
<1>6. /\ \A i, j \in DOMAIN exporter.rows : exporter.rows[i].span = exporter.rows[j].span => i = j
      /\ \A i \in DOMAIN exporter.rows : Reasoned(Spans[exporter.rows[i].span].trace, exporter.rows[i].reason, Out)
  <2>1. DOMAIN exporter.rows = 1 .. Len(exporter.rows)
    BY <1>5
  <2> QED BY <1>1, <2>1 DEF Sound, Written
<1>7. \A i \in DOMAIN exporter.rows :
       LET t == Spans[exporter.rows[i].span].trace IN
       \E s \in SpanIds : /\ Spans[s].kind = "root" /\ Spans[s].trace = t /\ Exported(s)
                      /\ exporter.rows[i].reason = payloadDecision(t, span[s].turn)
  BY <1>1, <1>6 DEF Reasoned
<1> QED BY <1>3, <1>4, <1>6, <1>7 DEF PayloadsBalance

THEOREM SpansStayAccounted == TelemetrySpec => []SpansAccounted
<1>1. TelemetryInv => SpansAccounted
  BY BooksBalance DEF TelemetryInv, SpansAccounted
<1>2. TelemetryInv /\ [TelemetryNext]_telemetryVars => TelemetryInv'
  BY TelemetryNextKeeps
<1> QED BY <1>1, <1>2, TelemetryStarts, PTL DEF TelemetrySpec

(* AgentDirectory. A load under way or built is the one its agent's cache   *)
(* entry stands for and the last that was started for it (Latest): a        *)
(* further load starts only from an empty entry, and an entry is emptied    *)
(* only by its own load.                                                    *)
Live == {"reading", "built"}
LoadType == [agent : Agents, state : LoadStates]
CallRecord == [agent : Agents, load : Nat, reply : Replies]

Typed ==
  /\ handlerCache \in [Agents -> Nat]
  /\ Started \in Nat
  /\ loads \in [1 .. Started -> LoadType]
  /\ calls \in [Calls -> CallRecord]

Latest ==
  \A k \in DOMAIN loads : loads[k].state \in Live =>
     /\ handlerCache[loads[k].agent] = k
     /\ \A m \in DOMAIN loads : loads[m].agent = loads[k].agent => m <= k

InCache ==
  \A a \in Agents : handlerCache[a] # 0 =>
     /\ handlerCache[a] \in DOMAIN loads
     /\ loads[handlerCache[a]].agent = a
     /\ loads[handlerCache[a]].state \in Live

AwaitingLoad == \A c \in Calls : calls[c].reply = "waiting" => calls[c].load \in DOMAIN loads

IInv == Typed /\ Latest /\ InCache /\ AwaitingLoad

(* The first load of an agent, or one after its entry was emptied.         *)
LEMMA LoadStartKeeps ==
  ASSUME IInv, NEW c \in Calls, NEW a \in Agents, AskLoads(c, a)
  PROVE  IInv'
<1> DEFINE n == Started + 1
<1>1. /\ n \in Nat \ {0} /\ Started \in Nat /\ DOMAIN loads = 1 .. Started /\ handlerCache[a] = 0
      /\ handlerCache' = [handlerCache EXCEPT ![a] = n]
  BY DEF IInv, Typed, AskLoads, CachePromise
<1>2. loads' = [k \in 1 .. n |-> IF k = n THEN [agent |-> a, state |-> "reading"] ELSE loads[k]]
  BY DEF AskLoads
<1>3. DOMAIN loads' = 1 .. n /\ Started' = n
  <2>1. DOMAIN loads' = 1 .. n
    BY <1>2
  <2>2. Cardinality(1 .. n) = n
    BY <1>1, FS_Interval
  <2> QED BY <2>1, <2>2 DEF Started
<1>4. loads'[n] = [agent |-> a, state |-> "reading"]
  BY <1>1, <1>2
<1>5. \A k \in DOMAIN loads : k \in DOMAIN loads' /\ k < n /\ loads'[k] = loads[k]
  BY <1>1, <1>2, <1>3
<1>6. \A k \in DOMAIN loads' : k = n \/ k \in DOMAIN loads
  BY <1>1, <1>3
<1>7. Typed'
  <2>1. \A k \in 1 .. n : loads'[k] \in LoadType
    <3>1. [agent |-> a, state |-> "reading"] \in LoadType
      BY DEF LoadType, LoadStates
    <3>2. \A k \in DOMAIN loads : loads[k] \in LoadType
      BY <1>1 DEF IInv, Typed
    <3> QED BY <1>3, <1>4, <1>5, <1>6, <3>1, <3>2
  <2>2. loads' \in [1 .. n -> LoadType]
    BY <1>2, <2>1
  <2>3. calls' \in [Calls -> CallRecord]
    <3>1. [agent |-> a, load |-> n, reply |-> "waiting"] \in CallRecord
      BY <1>1 DEF CallRecord, Replies
    <3> QED BY <3>1 DEF IInv, Typed, AskLoads, Wait
  <2>4. handlerCache' \in [Agents -> Nat]
    BY <1>1 DEF IInv, Typed
  <2> QED BY <1>1, <1>3, <2>2, <2>3, <2>4 DEF Typed
<1>8. \A k \in DOMAIN loads : loads[k].agent = a => loads[k].state \notin Live
  BY <1>1 DEF IInv, Latest
<1>9. Latest'
  <2> SUFFICES ASSUME NEW k \in DOMAIN loads', loads'[k].state \in Live
               PROVE  /\ handlerCache'[loads'[k].agent] = k
                      /\ \A m \in DOMAIN loads' : loads'[m].agent = loads'[k].agent => m <= k
    BY DEF Latest
  <2>1. CASE k = n
    <3>1. handlerCache'[a] = n
      BY <1>1 DEF IInv, Typed
    <3>2. \A m \in DOMAIN loads' : m <= n
      BY <1>3
    <3> QED BY <1>4, <2>1, <3>1, <3>2
  <2>2. CASE k \in DOMAIN loads
    <3>1. loads[k].agent # a /\ loads[k].agent \in Agents
      BY <1>1, <1>5, <1>8, <2>2 DEF IInv, Typed, LoadType
    <3> QED BY <1>1, <1>4, <1>5, <1>6, <2>2, <3>1 DEF IInv, Typed, Latest
  <2> QED BY <1>6, <2>1, <2>2
<1>10. InCache'
  <2> SUFFICES ASSUME NEW b \in Agents, handlerCache'[b] # 0
               PROVE  /\ handlerCache'[b] \in DOMAIN loads'
                      /\ loads'[handlerCache'[b]].agent = b
                      /\ loads'[handlerCache'[b]].state \in Live
    BY DEF InCache
  <2>1. CASE b = a
    BY <1>1, <1>3, <1>4, <2>1 DEF IInv, Typed, Live
  <2>2. CASE b # a
    BY <1>1, <1>5, <2>2 DEF IInv, Typed, InCache
  <2> QED BY <2>1, <2>2
<1>11. AwaitingLoad'
  <2>1. n \in DOMAIN loads' /\ DOMAIN loads \subseteq DOMAIN loads'
    BY <1>1, <1>3, <1>5
  <2>2. \A d \in Calls : calls'[d] = IF d = c THEN [agent |-> a, load |-> n, reply |-> "waiting"]
                                    ELSE calls[d]
    BY DEF IInv, Typed, AskLoads, Wait
  <2> QED BY <2>1, <2>2 DEF IInv, AwaitingLoad
<1> QED BY <1>7, <1>9, <1>10, <1>11 DEF IInv

(* A load settles: a failure leaves its own cache entry and no other.       *)
LEMMA LoadKeeps ==
  ASSUME IInv, NEW n \in 1 .. MaxLoads, NEW state \in LoadStates \ {"reading"}, Load(n, state)
  PROVE  IInv'
<1> DEFINE a == loads[n].agent
<1>1. /\ n \in DOMAIN loads /\ loads[n].state = "reading" /\ a \in Agents
      /\ loads' = [loads EXCEPT ![n].state = state] /\ calls' = calls
      /\ handlerCache' = IF state \in {"missing", "broken"}
                         THEN [handlerCache EXCEPT ![a] = 0] ELSE handlerCache
  BY DEF IInv, Typed, LoadType, Load, DropFailed
<1>2. DOMAIN loads' = DOMAIN loads /\ Started' = Started
  BY <1>1 DEF Started
<1>3. \A k \in DOMAIN loads : loads'[k].agent = loads[k].agent /\ (k # n => loads'[k] = loads[k])
  BY <1>1 DEF IInv, Typed, LoadType
<1>4. loads'[n].state = state
  BY <1>1 DEF IInv, Typed, LoadType
<1>5. handlerCache[a] = n
  BY <1>1 DEF IInv, Latest, Live
<1>6. Typed'
  BY <1>1, <1>2 DEF IInv, Typed, LoadType, LoadStates
<1>7. \A k \in DOMAIN loads : loads'[k].state \in Live => loads[k].state \in Live
  BY <1>1, <1>3 DEF Live
<1>8. \A k \in DOMAIN loads : loads'[k].state \in Live => handlerCache'[loads[k].agent] = k
  <2> SUFFICES ASSUME NEW k \in DOMAIN loads, loads'[k].state \in Live
               PROVE  handlerCache'[loads[k].agent] = k
    OBVIOUS
  <2>1. handlerCache[loads[k].agent] = k /\ loads[k].agent \in Agents
    BY <1>7 DEF IInv, Typed, LoadType, Latest
  <2>2. CASE k = n
    BY <1>1, <1>4, <2>1, <2>2 DEF Live
  <2>3. CASE k # n
    BY <1>1, <1>5, <2>1, <2>3 DEF IInv, Typed
  <2> QED BY <2>2, <2>3
<1>9. Latest'
  BY <1>2, <1>3, <1>7, <1>8 DEF IInv, Latest
<1>10. InCache'
  <2> SUFFICES ASSUME NEW b \in Agents, handlerCache'[b] # 0
               PROVE  /\ handlerCache'[b] \in DOMAIN loads'
                      /\ loads'[handlerCache'[b]].agent = b
                      /\ loads'[handlerCache'[b]].state \in Live
    BY DEF InCache
  <2>1. handlerCache'[b] = handlerCache[b]
    BY <1>1 DEF IInv, Typed
  <2>2. /\ handlerCache[b] \in DOMAIN loads
        /\ loads[handlerCache[b]].agent = b
        /\ loads[handlerCache[b]].state \in Live
    BY <2>1 DEF IInv, InCache
  <2>3. CASE handlerCache[b] = n
    <3>1. state = "built"
      BY <1>1, <2>1, <2>2, <2>3 DEF IInv, Typed, LoadStates
    <3> QED BY <1>2, <1>3, <1>4, <2>1, <2>2, <2>3, <3>1 DEF Live
  <2>4. CASE handlerCache[b] # n
    BY <1>2, <1>3, <2>1, <2>2, <2>4
  <2> QED BY <2>3, <2>4
<1>11. AwaitingLoad'
  BY <1>1, <1>2 DEF IInv, AwaitingLoad
<1> QED BY <1>6, <1>9, <1>10, <1>11 DEF IInv

(* The other steps leave the cache and the loads as they are.               *)
LEMMA RestKeeps ==
  ASSUME IInv, UNCHANGED <<handlerCache, loads>>,
         calls' \in [Calls -> CallRecord], AwaitingLoad'
  PROVE  IInv'
BY DEF IInv, Typed, Latest, InCache, Started

(* An id nobody knows is refused; a known one joins its agent's load.      *)
LEMMA AskKeeps ==
  ASSUME IInv, NEW c \in Calls, NEW a \in Agents, Ask404(c, a) \/ AskCached(c, a)
  PROVE  IInv'
<1>1. \E r \in CallRecord : /\ calls' = [calls EXCEPT ![c] = r]
                            /\ r.reply = "waiting" => r.load \in DOMAIN loads
  <2>1. CASE Ask404(c, a)
    <3>1. [agent |-> a, load |-> 0, reply |-> "404"] \in CallRecord
      BY DEF CallRecord, Replies
    <3> QED BY <2>1, <3>1 DEF Ask404
  <2>2. CASE AskCached(c, a)
    <3>1. [agent |-> a, load |-> handlerCache[a], reply |-> "waiting"] \in CallRecord
      BY DEF CallRecord, Replies, IInv, Typed
    <3>2. handlerCache[a] \in DOMAIN loads
      BY <2>2 DEF AskCached, IInv, InCache
    <3> QED BY <2>2, <3>1, <3>2 DEF AskCached, Wait
  <2> QED BY <2>1, <2>2
<1>2. PICK r \in CallRecord : calls' = [calls EXCEPT ![c] = r]
                            /\ (r.reply = "waiting" => r.load \in DOMAIN loads)
  BY <1>1
<1>3. calls \in [Calls -> CallRecord] /\ UNCHANGED <<handlerCache, loads>>
  BY DEF IInv, Typed, Ask404, AskCached
<1>4. calls' \in [Calls -> CallRecord]
  BY <1>2, <1>3
<1>5. \A d \in Calls : calls'[d] = IF d = c THEN r ELSE calls[d]
  BY <1>2, <1>3
<1>6. AwaitingLoad'
  BY <1>2, <1>3, <1>5 DEF IInv, AwaitingLoad
<1> QED BY <1>3, <1>4, <1>6, RestKeeps

(* A request that waited finds its load settled; one that was refused asks  *)
(* again.                                                                   *)
LEMMA ReplyKeeps ==
  ASSUME IInv, NEW c \in Calls, Resume(c) \/ AskAgain(c)
  PROVE  IInv'
<1> DEFINE state == loads[calls[c].load].state
<1>1. PICK r \in Replies \ {"waiting"}, l \in Nat :
        calls' = [calls EXCEPT ![c].reply = r, ![c].load = l]
  <2>1. CASE AskAgain(c)
    BY <2>1 DEF AskAgain, Replies
  <2>2. CASE Resume(c)
    <3>1. calls[c].load \in DOMAIN loads /\ calls[c] \in CallRecord
      BY <2>2 DEF Resume, IInv, Typed, AwaitingLoad
    <3>2. state \in {"built", "missing", "broken"}
      BY <2>2, <3>1 DEF Resume, IInv, Typed, LoadType, LoadStates
    <3>3. PICK r \in Replies \ {"waiting"} : calls' = [calls EXCEPT ![c].reply = r]
      BY <2>2, <3>2 DEF Resume, Replies
    <3>4. [calls EXCEPT ![c].reply = r] = [calls EXCEPT ![c].reply = r, ![c].load = calls[c].load]
      BY <3>1 DEF IInv, Typed, CallRecord
    <3> QED BY <3>1, <3>3, <3>4 DEF CallRecord
  <2> QED BY <2>1, <2>2
<1>2. UNCHANGED <<handlerCache, loads>>
  BY DEF Resume, AskAgain
<1>3. calls' \in [Calls -> CallRecord]
  BY <1>1 DEF IInv, Typed, CallRecord
<1>4. AwaitingLoad'
  BY <1>1, <1>2 DEF IInv, Typed, CallRecord, AwaitingLoad
<1> QED BY <1>2, <1>3, <1>4, RestKeeps

LEMMA DirectoryStep == IInv /\ [DirectoryNext]_directoryVars => IInv'
<1> SUFFICES ASSUME IInv, [DirectoryNext]_directoryVars PROVE IInv'
  OBVIOUS
<1>1. ASSUME NEW a \in Agents, Forget(a) PROVE IInv'
  BY <1>1, RestKeeps DEF IInv, Typed, Forget, AwaitingLoad
<1>2. CASE UNCHANGED directoryVars
  BY <1>2, RestKeeps DEF IInv, Typed, directoryVars, AwaitingLoad
<1> QED BY <1>1, <1>2, AskKeeps, LoadStartKeeps, LoadKeeps, ReplyKeeps DEF DirectoryNext

LEMMA DirectoryStart == DirectoryInit => IInv
<1> SUFFICES ASSUME DirectoryInit PROVE IInv
  OBVIOUS
<1>1. DOMAIN loads = {} /\ Started = 0
  BY FS_EmptySet DEF DirectoryInit, Started
<1>2. loads \in [1 .. Started -> LoadType]
  BY <1>1 DEF DirectoryInit
<1>3. calls \in [Calls -> CallRecord]
  BY AgentsAssumption DEF DirectoryInit, CallRecord, Replies
<1>4. Typed
  BY <1>1, <1>2, <1>3 DEF DirectoryInit, Typed
<1> QED BY <1>1, <1>4 DEF IInv, DirectoryInit, Latest, InCache, AwaitingLoad

LEMMA IInvHolds == DirectorySpec => []IInv
BY DirectoryStart, DirectoryStep, PTL DEF DirectorySpec

(* app.ts: the promise of a load is shared by every request for its agent,  *)
(* and leaves the cache when it fails. For any number of agents, requests   *)
(* and loads: an agent is built once, and its entry is under way or good.   *)
THEOREM EachAgentBuiltOnce == DirectorySpec => []DirectorySound
<1>1. IInv => DirectorySound
  <2> SUFFICES ASSUME IInv PROVE DirectorySound
    OBVIOUS
  <2>1. OneBuildPerAgent
    <3> SUFFICES ASSUME NEW n \in DOMAIN loads, NEW k \in DOMAIN loads,
                        loads[n].state = "built", loads[k].agent = loads[n].agent, k >= n
                 PROVE  k = n
      BY DEF OneBuildPerAgent
    <3>1. k <= n
      BY DEF IInv, Latest, Live
    <3> QED BY <3>1 DEF IInv, Typed
  <2>2. CacheIsLive
    <3> SUFFICES ASSUME NEW a \in Agents
                 PROVE  IF handlerCache[a] # 0
                        THEN /\ loads[handlerCache[a]].agent = a
                             /\ loads[handlerCache[a]].state \in {"reading", "built"}
                        ELSE \A k \in DOMAIN loads :
                               loads[k].agent = a => loads[k].state \in {"missing", "broken"}
      BY DEF CacheIsLive
    <3>1. CASE handlerCache[a] # 0
      BY <3>1 DEF IInv, InCache, Live
    <3>2. CASE handlerCache[a] = 0
      <4>1. \A k \in DOMAIN loads : k # 0 /\ loads[k].state \in LoadStates
        BY DEF IInv, Typed, LoadType
      <4>2. \A k \in DOMAIN loads : loads[k].agent = a => loads[k].state \notin Live
        BY <3>2, <4>1 DEF IInv, Latest
      <4> QED BY <3>2, <4>1, <4>2 DEF LoadStates, Live
    <3> QED BY <3>1, <3>2
  <2> QED BY <2>1, <2>2 DEF DirectorySound
<1> QED BY IInvHolds, <1>1, PTL

(* DurableTasks. The keys of the rows are in a strict total order, so there *)
(* is one order of those beyond the cursor (OrderedIsExact); what is due is *)
(* either given or beyond the cursor (Divided).                             *)
Key == Nat \X Nat

(* The order of the pages is a strict total order of the keys.             *)
LEMMA BeforeOrders ==
  ASSUME NEW a \in Key, NEW b \in Key, NEW c \in Key
  PROVE  /\ ~Before(a, a)
         /\ Before(a, b) => ~Before(b, a)
         /\ Before(a, b) /\ Before(b, c) => Before(a, c)
         /\ a # b => Before(a, b) \/ Before(b, a)
BY DEF Key, Before

(* A finite set of rows with distinct keys has a last one.                 *)
LEMMA OldestRow ==
  ASSUME NEW T, T # {}, NEW key \in [T -> Key],
         \A x, y \in T : x # y => key[x] # key[y]
  PROVE  \E m \in T : \A x \in T \ {m} : Before(key[m], key[x])
<1> DEFINE times == {key[x][1] : x \in T}
<1>1. times \subseteq Nat /\ times # {}
  BY DEF Key
<1>2. PICK a \in times : \A i \in times : a <= i
  BY <1>1, Least
<1> DEFINE ids == {key[x][2] : x \in {y \in T : key[y][1] = a}}
<1>3. ids \subseteq Nat /\ ids # {}
  BY <1>2 DEF Key
<1>4. PICK b \in ids : \A i \in ids : b <= i
  BY <1>3, Least
<1>5. PICK m \in T : key[m][1] = a /\ key[m][2] = b
  BY <1>4
<1>6. ASSUME NEW x \in T \ {m} PROVE Before(key[m], key[x])
  <2>1. key[x] \in Key /\ key[m] \in Key /\ key[x] # key[m]
    BY <1>5, <1>6
  <2>2. a <= key[x][1] /\ (key[x][1] = a => b <= key[x][2])
    BY <1>2, <1>4, <1>6
  <2> QED BY <1>5, <2>1, <2>2 DEF Before, Key
<1> QED BY <1>6

InOrder(s, n, key) == \A i, j \in 1 .. n : i < j => Before(key[s[j]], key[s[i]])
Sortable(T, key) == \E s \in [1 .. Cardinality(T) -> T] : InOrder(s, Cardinality(T), key)

(* Every finite set of rows can be put in the order of the pages: were     *)
(* there some that cannot, a smallest of them, without its last row, could.*)
LEMMA AllSortable ==
  ASSUME NEW S, IsFiniteSet(S), NEW key \in [S -> Key],
         \A x, y \in S : x # y => key[x] # key[y]
  PROVE  Sortable(S, key)
<1> DEFINE Bad == {n \in Nat : \E T \in SUBSET S : Cardinality(T) = n /\ ~Sortable(T, key)}
<1> SUFFICES ASSUME Bad # {} PROVE FALSE
  BY FS_CardinalityType
<1>1. PICK n \in Bad : \A i \in Bad : n <= i
  BY Least
<1>2. PICK T \in SUBSET S : Cardinality(T) = n /\ ~Sortable(T, key)
  BY <1>1
<1>3. IsFiniteSet(T) /\ n \in Nat
  BY <1>1, <1>2, FS_Subset
<1>4. T # {}
  <2>1. CASE T = {}
    <3>1. n = 0
      BY <1>2, <2>1, FS_EmptySet
    <3>2. [i \in 1 .. 0 |-> 0] \in [1 .. 0 -> T] /\ InOrder([i \in 1 .. 0 |-> 0], 0, key)
      BY DEF InOrder
    <3> QED BY <1>2, <3>1, <3>2 DEF Sortable
  <2> QED BY <2>1
<1>5. PICK m \in T : \A x \in T \ {m} : Before(key[m], key[x])
  <2> DEFINE k == [x \in T |-> key[x]]
  <2>1. k \in [T -> Key] /\ \A x, y \in T : x # y => k[x] # k[y]
    OBVIOUS
  <2>2. \E m \in T : \A x \in T \ {m} : Before(k[m], k[x])
    BY <1>4, <2>1, OldestRow
  <2> QED BY <2>2
<1>6. Cardinality(T \ {m}) = n - 1 /\ n - 1 \in Nat
  <2>1. IsFiniteSet(T \ {m}) /\ Cardinality(T \ {m}) = n - 1
    BY <1>2, <1>3, <1>5, FS_RemoveElement
  <2> QED BY <2>1, FS_CardinalityType
<1>7. Sortable(T \ {m}, key)
  BY <1>1, <1>3, <1>6
<1>8. PICK s \in [1 .. n - 1 -> T \ {m}] : InOrder(s, n - 1, key)
  BY <1>6, <1>7 DEF Sortable
<1> DEFINE s2 == [i \in 1 .. n |-> IF i = n THEN m ELSE s[i]]
<1>9. /\ s2 \in [1 .. n -> T] /\ s2[n] = m
      /\ \A i \in 1 .. n : i # n => i \in 1 .. n - 1 /\ s2[i] = s[i] /\ s2[i] \in T \ {m}
  BY <1>3, <1>6, <1>8
<1> HIDE DEF s2
<1>10. InOrder(s2, n, key)
  <2> SUFFICES ASSUME NEW i \in 1 .. n, NEW j \in 1 .. n, i < j PROVE Before(key[s2[j]], key[s2[i]])
    BY DEF InOrder
  <2>1. CASE j = n
    BY <1>3, <1>5, <1>9, <2>1
  <2>2. CASE j # n
    <3>1. i # n
      BY <1>3, <2>2
    <3> QED BY <1>8, <1>9, <2>2, <3>1 DEF InOrder
  <2> QED BY <2>1, <2>2
<1> QED BY <1>2, <1>9, <1>10 DEF Sortable

TableTyped ==
  /\ IsFiniteSet(DOMAIN rows)
  /\ \A k \in DOMAIN rows : rows[k].ts \in Nat
  /\ lastSave \in Nat
  /\ DOMAIN walk = {"phase", "owner", "state", "cursor", "seen", "due"}
  /\ walk.phase \in {"idle", "walking", "ended"}
  /\ walk.seen \in Seq(TaskIds)
  /\ walk.cursor = NoCursor \/ walk.cursor \in Key

(* Where an id stands in what the client was given.                        *)
Unseen(id) == \A i \in 1 .. Len(walk.seen) : walk.seen[i] # id
Once(id) == \E i \in 1 .. Len(walk.seen) : \A j \in 1 .. Len(walk.seen) : walk.seen[j] = id <=> j = i

(* A task that is due is still a row of the walk, as it was at its start.  *)
DueIsMine == walk.due \subseteq Mine
(* The cursor divides the due tasks: those it passed were given once, the  *)
(* others are still beyond it.                                             *)
Divided == walk.phase = "walking" => \A id \in walk.due : IF id \in Beyond THEN Unseen(id) ELSE Once(id)
AllGiven == walk.phase = "ended" => \A id \in walk.due : Once(id)
OwnRows == \A i \in 1 .. Len(walk.seen) : <<walk.owner, walk.seen[i]>> \in DOMAIN rows

TableInv == TableTyped /\ DueIsMine /\ Divided /\ AllGiven /\ OwnRows

LEMMA NoCursorIsNoKey == NoCursor \notin Key
BY DEF NoCursor, Key

LEMMA MineKeys ==
  ASSUME TableTyped
  PROVE  /\ Mine \subseteq TaskIds /\ Beyond \subseteq Mine /\ IsFiniteSet(Beyond)
         /\ \A id \in Mine : TaskKey(id) \in Key
         /\ \A x, y \in Mine : x # y => TaskKey(x) # TaskKey(y)
<1>1. Mine \subseteq TaskIds /\ Beyond \subseteq Mine
  BY DEF Mine, Beyond
<1>2. \A id \in Mine : TaskKey(id) \in Key
  BY TaskIdsAssumption DEF TableTyped, Mine, TaskKey, Key
<1>3. \A x, y \in Mine : x # y => TaskKey(x) # TaskKey(y)
  BY DEF TaskKey
<1>4. IsFiniteSet(Beyond)
  <2> DEFINE f == [id \in Beyond |-> <<walk.owner, id>>]
  <2>1. f \in Injection(Beyond, DOMAIN rows)
    BY <1>1 DEF Injection, IsInjective, Mine
  <2> QED BY <2>1, FS_Injection DEF TableTyped
<1> QED BY <1>1, <1>2, <1>3, <1>4

(* The rows beyond the cursor, newest first, each once.                    *)
LEMMA OrderedIsExact ==
  ASSUME TableTyped
  PROVE  \E n \in Nat :
           /\ Ordered \in [1 .. n -> Beyond]
           /\ \A i, j \in 1 .. n : i < j => Before(TaskKey(Ordered[j]), TaskKey(Ordered[i]))
           /\ \A id \in Beyond : \E k \in 1 .. n : Ordered[k] = id
           /\ \A i, j \in 1 .. n : i # j => Ordered[i] # Ordered[j]
<1> DEFINE n == Cardinality(Beyond)
           key == [id \in Beyond |-> TaskKey(id)]
           Fits(s) == \A i, j \in DOMAIN s : i < j => Before(TaskKey(s[j]), TaskKey(s[i]))
<1>1. /\ IsFiniteSet(Beyond) /\ n \in Nat /\ key \in [Beyond -> Key]
      /\ \A x, y \in Beyond : x # y => key[x] # key[y]
  BY MineKeys, FS_CardinalityType
<1>2. PICK s \in [1 .. n -> Beyond] : InOrder(s, n, key)
  BY <1>1, AllSortable DEF Sortable
<1>3. \A i, j \in 1 .. n : i < j => Before(TaskKey(s[j]), TaskKey(s[i]))
  BY <1>2 DEF InOrder
<1>4. ASSUME NEW t \in [1 .. n -> Beyond], \A i, j \in 1 .. n : i < j => Before(TaskKey(t[j]), TaskKey(t[i]))
      PROVE  \A i, j \in 1 .. n : i # j => t[i] # t[j]
  <2> SUFFICES ASSUME NEW i \in 1 .. n, NEW j \in 1 .. n, i < j PROVE t[i] # t[j]
    BY <1>1
  <2>1. TaskKey(t[i]) \in Key /\ Before(TaskKey(t[j]), TaskKey(t[i]))
    BY <1>4, MineKeys
  <2> QED BY <2>1, BeforeOrders
<1>5. s \in SetToSeqs(Beyond) /\ Fits(s)
  BY <1>2, <1>3, <1>4 DEF SetToSeqs
<1>6. Ordered \in SetToSeqs(Beyond) /\ Fits(Ordered)
  BY <1>5 DEF Ordered
<1>7. Ordered \in [1 .. n -> Beyond] /\ \A i, j \in 1 .. n : i # j => Ordered[i] # Ordered[j]
  BY <1>6 DEF SetToSeqs
<1>8. \A i, j \in 1 .. n : i < j => Before(TaskKey(Ordered[j]), TaskKey(Ordered[i]))
  BY <1>6, <1>7
<1>9. \A id \in Beyond : \E k \in 1 .. n : Ordered[k] = id
  <2>1. Ordered \in Injection(1 .. n, Beyond)
    BY <1>7 DEF Injection, IsInjective
  <2>2. Cardinality(1 .. n) = n
    BY <1>1, FS_Interval
  <2>3. Ordered \in Surjection(1 .. n, Beyond)
    BY <1>1, <2>1, <2>2, FS_Injection
  <2> QED BY <2>3 DEF Surjection
<1> QED BY <1>1, <1>7, <1>8, <1>9

LEMMA SaveKeeps ==
  ASSUME TableInv, NEW owner, NEW id \in TaskIds, NEW state, NEW ts \in Nat, SaveTask(owner, id, state, ts)
  PROVE  TableInv'
<1> DEFINE key == <<owner, id>>
<1>1. /\ rows' = [k \in DOMAIN rows \cup {key} |-> IF k = key THEN [ts |-> ts, state |-> state] ELSE rows[k]]
      /\ walk' = [walk EXCEPT !.due = IF owner = walk.owner THEN @ \ {id} ELSE @]
  BY DEF SaveTask, Saved
<1>2. TableTyped
  BY DEF TableInv
<1>3. /\ walk'.phase = walk.phase /\ walk'.owner = walk.owner /\ walk'.state = walk.state
      /\ walk'.cursor = walk.cursor /\ walk'.seen = walk.seen /\ DOMAIN walk' = DOMAIN walk
      /\ walk'.due = IF owner = walk.owner THEN walk.due \ {id} ELSE walk.due
  BY <1>1, <1>2 DEF TableTyped
<1>4. DOMAIN rows \subseteq DOMAIN rows' /\ \A k \in DOMAIN rows : k # key => rows'[k] = rows[k]
  BY <1>1
<1>5. TableTyped'
  <2>1. IsFiniteSet(DOMAIN rows')
    BY <1>1, <1>2, FS_AddElement DEF TableTyped
  <2>2. \A k \in DOMAIN rows' : rows'[k].ts \in Nat
    BY <1>1, <1>2 DEF TableTyped
  <2>3. lastSave' \in Nat
    BY <1>2 DEF SaveTask, TableTyped
  <2> QED BY <1>2, <1>3, <2>1, <2>2, <2>3 DEF TableTyped
<1>6. \A d \in walk'.due : /\ d \in walk.due /\ d \in Mine /\ <<walk.owner, d>> \in DOMAIN rows
                            /\ rows'[<<walk.owner, d>>] = rows[<<walk.owner, d>>]
  BY <1>3, <1>4 DEF TableInv, DueIsMine, Mine
<1>7. DueIsMine'
  BY <1>3, <1>4, <1>6 DEF DueIsMine, Mine
<1>8. \A d \in walk'.due : d \in Beyond' <=> d \in Beyond
  <2> TAKE d \in walk'.due
  <2>1. TaskKey(d)' = TaskKey(d)
    BY <1>3, <1>6 DEF TaskKey
  <2>2. d \in Mine /\ d \in Mine'
    BY <1>6, <1>7 DEF DueIsMine
  <2> QED BY <1>3, <2>1, <2>2 DEF Beyond
<1>9. \A d : (Unseen(d)' <=> Unseen(d)) /\ (Once(d)' <=> Once(d))
  BY <1>3 DEF Unseen, Once
<1>10. Divided' /\ AllGiven'
  BY <1>3, <1>6, <1>8, <1>9 DEF TableInv, Divided, AllGiven
<1>11. OwnRows'
  BY <1>3, <1>4 DEF TableInv, OwnRows
<1> QED BY <1>5, <1>7, <1>10, <1>11 DEF TableInv

LEMMA BeginKeeps ==
  ASSUME TableInv, NEW owner, NEW state, Begin(owner, state)
  PROVE  TableInv'
<1>1. /\ walk'.phase = "walking" /\ walk'.owner = owner /\ walk'.state = state /\ walk'.cursor = NoCursor
      /\ walk'.seen = <<>> /\ rows' = rows /\ lastSave' = lastSave
      /\ walk'.due = {id \in TaskIds : <<owner, id>> \in DOMAIN rows /\ state \in {"any", rows[<<owner, id>>].state}}
      /\ DOMAIN walk' = {"phase", "owner", "state", "cursor", "seen", "due"}
  BY DEF Begin
<1>2. walk'.due = Mine' /\ Beyond' = Mine'
  BY <1>1 DEF Mine, Beyond
<1>3. \A id : Unseen(id)'
  BY <1>1 DEF Unseen
<1>4. TableTyped'
  BY <1>1 DEF TableInv, TableTyped
<1> QED BY <1>1, <1>2, <1>3, <1>4 DEF TableInv, DueIsMine, Divided, AllGiven, OwnRows

LEMMA ListKeeps ==
  ASSUME TableInv, List
  PROVE  TableInv'
<1>1. TableTyped
  BY DEF TableInv
<1>2. PICK n \in Nat :
           /\ Ordered \in [1 .. n -> Beyond]
           /\ \A i, j \in 1 .. n : i < j => Before(TaskKey(Ordered[j]), TaskKey(Ordered[i]))
           /\ \A id \in Beyond : \E k \in 1 .. n : Ordered[k] = id
           /\ \A i, j \in 1 .. n : i # j => Ordered[i] # Ordered[j]
  BY <1>1, OrderedIsExact
<1> DEFINE p == IF n < PageSize THEN n ELSE PageSize
           page == SubSeq(Ordered, 1, p)
           old == walk.seen
           m == Len(old)
<1>3. /\ Beyond \subseteq Mine /\ Mine \subseteq TaskIds
      /\ \A id \in Mine : TaskKey(id) \in Key
  BY <1>1, MineKeys
<1>4. p \in Nat /\ p <= n /\ PageSize \in Nat /\ (n > PageSize => p = PageSize /\ p >= 1) /\ (n <= PageSize => p = n)
  BY <1>2, TaskIdsAssumption
<1>5. Ordered \in Seq(TaskIds) /\ Len(Ordered) = n
  <2>1. Ordered \in [1 .. n -> TaskIds]
    BY <1>2, <1>3
  <2> QED BY <2>1
<1>6. page \in Seq(TaskIds) /\ Len(page) = p /\ \A i \in 1 .. p : page[i] = Ordered[i]
  BY <1>4, <1>5
<1>7. /\ walk.phase = "walking" /\ rows' = rows /\ lastSave' = lastSave
      /\ walk' = [walk EXCEPT !.seen = old \o page,
                 !.phase = IF n > PageSize THEN "walking" ELSE "ended",
                 !.cursor = IF page = <<>> THEN NoCursor ELSE TaskKey(Last(page))]
  BY <1>5 DEF List
<1> HIDE DEF p, page
<1>8. /\ walk'.seen = old \o page /\ walk'.owner = walk.owner /\ walk'.state = walk.state /\ walk'.due = walk.due
      /\ walk'.phase = IF n > PageSize THEN "walking" ELSE "ended"
      /\ walk'.cursor = IF page = <<>> THEN NoCursor ELSE TaskKey(Last(page))
      /\ DOMAIN walk' = DOMAIN walk
  BY <1>1, <1>7 DEF TableTyped
<1>9. old \in Seq(TaskIds) /\ m \in Nat /\ old \o page \in Seq(TaskIds) /\ Len(old \o page) = m + p
  BY <1>1, <1>4, <1>6 DEF TableTyped
<1>10. /\ \A i \in 1 .. m : (old \o page)[i] = old[i]
       /\ \A i \in 1 .. p : (old \o page)[m + i] = Ordered[i]
  BY <1>1, <1>4, <1>6, <1>9
<1>11. \A i \in 1 .. m + p : i \in 1 .. m \/ (i - m \in 1 .. p /\ i = m + (i - m))
  BY <1>4, <1>9
<1>12. Mine' = Mine /\ \A id : TaskKey(id)' = TaskKey(id)
  BY <1>7, <1>8 DEF Mine, TaskKey
<1>13. p # 0 => walk'.cursor = TaskKey(Ordered[p]) /\ Ordered[p] \in Beyond
  <2> SUFFICES ASSUME p # 0 PROVE walk'.cursor = TaskKey(Ordered[p]) /\ Ordered[p] \in Beyond
    OBVIOUS
  <2>1. page # <<>> /\ Last(page) = Ordered[p] /\ p \in 1 .. n
    BY <1>4, <1>6 DEF Last
  <2> QED BY <1>2, <1>8, <2>1
<1>14. TableTyped'
  <2>1. walk'.cursor = NoCursor \/ walk'.cursor \in Key
    <3>1. p = 0 => page = <<>>
      BY <1>6
    <3> QED BY <1>3, <1>8, <1>13, <3>1
  <2> QED BY <1>1, <1>7, <1>8, <1>9, <2>1 DEF TableTyped
<1>15. DueIsMine'
  BY <1>8, <1>12 DEF TableInv, DueIsMine
<1>16. OwnRows'
  <2> SUFFICES ASSUME NEW i \in 1 .. m + p PROVE <<walk.owner, (old \o page)[i]>> \in DOMAIN rows
    BY <1>7, <1>8, <1>9 DEF OwnRows
  <2>1. CASE i \in 1 .. m
    BY <1>10, <2>1 DEF TableInv, OwnRows
  <2>2. CASE i - m \in 1 .. p /\ i = m + (i - m)
    <3>1. PICK k \in 1 .. p : k = i - m
      BY <2>2
    <3>2. (old \o page)[m + k] = Ordered[k] /\ i = m + k
      BY <1>10, <2>2, <3>1
    <3>3. k \in 1 .. n
      BY <1>2, <1>4
    <3>4. Ordered[k] \in Mine
      BY <1>2, <1>3, <3>3
    <3> QED BY <3>2, <3>4 DEF Mine
  <2> QED BY <1>11, <2>1, <2>2
\* What becomes of a due task: given before, on this page, or still to come.
<1>17. ASSUME NEW id \in walk.due, id \notin Beyond
       PROVE  Once(id)' /\ (n > PageSize => id \notin Beyond')
  <2>1. Once(id) /\ id \in Mine
    BY <1>7, <1>17 DEF TableInv, Divided, DueIsMine
  <2>2. PICK i \in 1 .. m : \A j \in 1 .. m : old[j] = id <=> j = i
    BY <2>1 DEF Once
  <2>3. \A j \in 1 .. p : Ordered[j] # id
    BY <1>2, <1>4, <1>17
  <2>4. \A j \in 1 .. m + p : (old \o page)[j] = id <=> j = i
    <3> TAKE j \in 1 .. m + p
    <3>1. CASE j \in 1 .. m
      BY <1>10, <2>2, <3>1
    <3>2. CASE j - m \in 1 .. p /\ j = m + (j - m)
      <4>1. (old \o page)[j] = Ordered[j - m]
        BY <1>10, <3>2
      <4>2. j # i
        BY <1>9, <3>2
      <4> QED BY <2>3, <3>2, <4>1, <4>2
    <3> QED BY <1>11, <3>1, <3>2
  <2>5. i \in 1 .. m + p
    BY <1>4, <1>9
  <2>6. Once(id)'
    <3>1. 1 .. Len(walk'.seen) = 1 .. m + p /\ walk'.seen = old \o page
      BY <1>8, <1>9
    <3>2. i \in 1 .. Len(walk'.seen)
      BY <2>5, <3>1
    <3>3. \A j \in 1 .. Len(walk'.seen) : walk'.seen[j] = id <=> j = i
      BY <2>4, <3>1
    <3> QED BY <3>2, <3>3 DEF Once
  <2>7. ASSUME n > PageSize PROVE id \notin Beyond'
    <3>1. walk'.cursor = TaskKey(Ordered[p]) /\ Ordered[p] \in Beyond /\ walk'.cursor # NoCursor
      BY <1>3, <1>4, <1>13, <2>7, NoCursorIsNoKey
    <3>2. walk.cursor # NoCursor /\ ~Before(TaskKey(id), walk.cursor) /\ walk.cursor \in Key
      BY <1>1, <1>17, <2>1 DEF Beyond, TableTyped
    <3>3. Before(TaskKey(Ordered[p]), walk.cursor)
      BY <3>1, <3>2 DEF Beyond
    <3>4. ~Before(TaskKey(id), TaskKey(Ordered[p]))
      BY <1>3, <2>1, <3>1, <3>2, <3>3, BeforeOrders
    <3>5. ~Before(TaskKey(id)', walk'.cursor)
      BY <1>12, <3>1, <3>4
    <3> QED BY <3>1, <3>5 DEF Beyond
  <2> QED BY <2>6, <2>7
<1>18. ASSUME NEW id \in walk.due, id \in Beyond, NEW k \in 1 .. n, Ordered[k] = id, k <= p
       PROVE  Once(id)' /\ (n > PageSize => id \notin Beyond')
  <2>1. Unseen(id) /\ id \in Mine
    BY <1>7, <1>18 DEF TableInv, Divided, DueIsMine
  <2>2. \A j \in 1 .. m : old[j] # id
    BY <2>1 DEF Unseen
  <2>3. \A j \in 1 .. p : Ordered[j] = id <=> j = k
    BY <1>2, <1>4, <1>18
  <2>4. \A j \in 1 .. m + p : (old \o page)[j] = id <=> j = m + k
    <3> TAKE j \in 1 .. m + p
    <3>1. CASE j \in 1 .. m
      <4>1. j # m + k
        BY <1>9, <3>1
      <4> QED BY <1>10, <2>2, <3>1, <4>1
    <3>2. CASE j - m \in 1 .. p /\ j = m + (j - m)
      <4>1. (old \o page)[j] = Ordered[j - m]
        BY <1>10, <3>2
      <4>2. j - m = k <=> j = m + k
        BY <1>9
      <4> QED BY <2>3, <3>2, <4>1, <4>2
    <3> QED BY <1>11, <3>1, <3>2
  <2>5. m + k \in 1 .. m + p
    BY <1>4, <1>9, <1>18
  <2>6. Once(id)'
    <3>1. 1 .. Len(walk'.seen) = 1 .. m + p /\ walk'.seen = old \o page
      BY <1>8, <1>9
    <3>2. m + k \in 1 .. Len(walk'.seen)
      BY <2>5, <3>1
    <3>3. \A j \in 1 .. Len(walk'.seen) : walk'.seen[j] = id <=> j = m + k
      BY <2>4, <3>1
    <3> QED BY <3>2, <3>3 DEF Once
  <2>7. ASSUME n > PageSize PROVE id \notin Beyond'
    <3>1. walk'.cursor = TaskKey(Ordered[p]) /\ Ordered[p] \in Beyond /\ walk'.cursor # NoCursor
      BY <1>3, <1>4, <1>13, <2>7, NoCursorIsNoKey
    <3>2. ~Before(TaskKey(id), TaskKey(Ordered[p]))
      <4>1. CASE k = p
        BY <1>3, <1>18, <2>1, <4>1, BeforeOrders
      <4>2. CASE k < p
        <5>1. Before(TaskKey(Ordered[p]), TaskKey(Ordered[k]))
          BY <1>2, <1>4, <4>2
        <5> QED BY <1>3, <1>18, <2>1, <3>1, <5>1, BeforeOrders
      <4> QED BY <1>4, <1>18, <4>1, <4>2
    <3>3. ~Before(TaskKey(id)', walk'.cursor)
      BY <1>12, <3>1, <3>2
    <3> QED BY <3>1, <3>3 DEF Beyond
  <2> QED BY <2>6, <2>7
<1>19. ASSUME NEW id \in walk.due, id \in Beyond, NEW k \in 1 .. n, Ordered[k] = id, k > p
       PROVE  n > PageSize /\ Unseen(id)' /\ id \in Beyond'
  <2>1. Unseen(id) /\ id \in Mine
    BY <1>7, <1>19 DEF TableInv, Divided, DueIsMine
  <2>2. n > PageSize /\ p = PageSize /\ p >= 1
    BY <1>2, <1>4, <1>19
  <2>3. \A j \in 1 .. p : Ordered[j] # id
    BY <1>2, <1>4, <1>19
  <2>4. \A j \in 1 .. m + p : (old \o page)[j] # id
    BY <1>10, <1>11, <2>1, <2>3 DEF Unseen
  <2>5. Unseen(id)'
    BY <1>8, <1>9, <2>4 DEF Unseen
  <2>6. Before(TaskKey(id), TaskKey(Ordered[p]))
    BY <1>2, <1>4, <1>19, <2>2
  <2>7. id \in Mine' /\ Before(TaskKey(id)', walk'.cursor)
    BY <1>12, <1>13, <2>1, <2>2, <2>6
  <2> QED BY <2>2, <2>5, <2>7 DEF Beyond
<1>20. Divided' /\ AllGiven'
  <2>1. \A id \in walk.due : IF n > PageSize /\ id \in Beyond' THEN Unseen(id)' ELSE Once(id)'
    <3> TAKE id \in walk.due
    <3>1. CASE id \notin Beyond
      BY <1>17, <3>1
    <3>2. CASE id \in Beyond
      <4>1. PICK k \in 1 .. n : Ordered[k] = id
        BY <1>2, <3>2
      <4>2. CASE k <= p
        BY <1>18, <3>2, <4>1, <4>2
      <4>3. CASE k > p
        BY <1>19, <3>2, <4>1, <4>3
      <4> QED BY <1>2, <1>4, <4>2, <4>3
    <3> QED BY <3>1, <3>2
  <2> QED BY <1>8, <2>1 DEF Divided, AllGiven
<1> QED BY <1>14, <1>15, <1>16, <1>20 DEF TableInv

(* A client that pages through its tasks is given every task nobody saved  *)
(* meanwhile, once, and none of another owner's (taskStore.ts, list), for  *)
(* any page size, any tasks and owners and any saves between the pages.    *)
THEOREM PagesNeverMiss == TaskTableSpec => []PagesMissNothing
<1>1. TaskTableInit => TableInv
  <2> SUFFICES ASSUME TaskTableInit PROVE TableInv
    OBVIOUS
  <2>1. DOMAIN rows = {}
    BY DEF TaskTableInit
  <2>2. TableTyped
    BY <2>1, FS_EmptySet DEF TaskTableInit, TableTyped
  <2> QED BY <2>2 DEF TaskTableInit, TableInv, DueIsMine, Divided, AllGiven, OwnRows
<1>2. TableInv /\ [TaskTableNext]_taskTableVars => TableInv'
  <2> SUFFICES ASSUME TableInv, [TaskTableNext]_taskTableVars PROVE TableInv'
    OBVIOUS
  <2>1. ASSUME NEW owner \in Owners, NEW id \in TaskIds, NEW state \in TaskStates, NEW ts \in 0 .. MaxSaves,
               SaveTask(owner, id, state, ts)
        PROVE  TableInv'
    BY <2>1, SaveKeeps, TaskIdsAssumption
  <2>2. ASSUME NEW owner \in Owners, NEW state \in TaskStates \cup {"any"}, Begin(owner, state) PROVE TableInv'
    BY <2>2, BeginKeeps
  <2>3. CASE List
    BY <2>3, ListKeeps
  <2>4. CASE UNCHANGED taskTableVars
    BY <2>4 DEF taskTableVars, TableInv, TableTyped, DueIsMine, Divided, AllGiven, OwnRows, Mine, Beyond, TaskKey,
                Unseen, Once
  <2> QED BY <2>1, <2>2, <2>3, <2>4 DEF TaskTableNext
<1>3. TableInv => PagesMissNothing
  <2> SUFFICES ASSUME TableInv PROVE PagesMissNothing
    OBVIOUS
  <2>1. ASSUME walk.phase = "ended", NEW id \in walk.due
        PROVE  Cardinality({i \in 1 .. Len(walk.seen) : walk.seen[i] = id}) = 1
    <3>1. PICK i \in 1 .. Len(walk.seen) : \A j \in 1 .. Len(walk.seen) : walk.seen[j] = id <=> j = i
      BY <2>1 DEF TableInv, AllGiven, Once
    <3>2. {j \in 1 .. Len(walk.seen) : walk.seen[j] = id} = {i}
      BY <3>1
    <3> QED BY <3>2, FS_Singleton
  <2> QED BY <2>1 DEF PagesMissNothing, TableInv, OwnRows
<1> QED BY <1>1, <1>2, <1>3, PTL DEF TaskTableSpec

(* Budgets. A counter is the number of the tasks whose charge has landed on *)
(* it (CountersBalance); a counter read full stays full (StaysFull).        *)
Phases == {"new", "asking", "callerOk", "refused", "running", "recording"}
JobType == [phase : Phases, scope : Scopes, asked : Days, full : BOOLEAN, ended : Days,
            landed : SUBSET Subjects, failed : SUBSET Subjects]

BudgetTyped ==
  /\ day \in Days
  /\ usage \in [Days -> [Subjects -> Nat]]
  /\ job \in [BudgetTasks -> JobType]

(* The tasks a counter stands for.                                         *)
CountedIn(d, s) == {t \in EndedOn(d) : s \in job[t].landed}
CountersBalance == \A d \in Days, s \in Subjects : usage[d][s] = Cardinality(CountedIn(d, s))

NothingLandedEarly == \A t \in BudgetTasks : job[t].phase # "recording" => job[t].landed = {}

(* A task that found a budget used up will find it so again, as it has not *)
(* read that counter yet and counters only grow.                           *)
StaysFull ==
  \A t \in BudgetTasks : job[t].full =>
    \/ job[t].phase = "refused"
    \/ /\ job[t].phase \in {"asking", "callerOk"}
       /\ OverBudget(PerScope, job[t].asked, job[t].scope)
    \/ /\ job[t].phase = "asking"
       /\ OverBudget(PerCaller, job[t].asked, TheCaller)

BudgetInv == BudgetTyped /\ CountersBalance /\ NothingLandedEarly /\ StaysFull

LEMMA BudgetFacts ==
  /\ TheCaller \in Subjects /\ Scopes \subseteq Subjects /\ 0 \in Days /\ Days \subseteq Nat
  /\ PerCaller \in Nat /\ PerScope \in Nat /\ IsFiniteSet(BudgetTasks)
BY BudgetsAssumption DEF Subjects, Days, TheCaller

LEMMA BudgetStarts == BudgetInit => BudgetInv
<1> SUFFICES ASSUME BudgetInit PROVE BudgetInv
  OBVIOUS
<1>1. (CHOOSE s \in Scopes : TRUE) \in Scopes
  BY BudgetsAssumption
<1>2. BudgetTyped
  BY <1>1, BudgetFacts DEF BudgetInit, BudgetTyped, JobType, Phases
<1>3. \A d \in Days, s \in Subjects : CountedIn(d, s) = {}
  BY DEF BudgetInit, CountedIn, EndedOn
<1>4. CountersBalance
  BY <1>3, FS_EmptySet DEF BudgetInit, CountersBalance
<1> QED BY <1>2, <1>4 DEF BudgetInit, BudgetInv, NothingLandedEarly, StaysFull

(* A step that moves one task and no counter, and lands nothing.           *)
LEMMA JobMoves ==
  ASSUME BudgetInv, NEW t \in BudgetTasks, NEW new \in JobType, SetJob(t, new),
         day' = day, usage' = usage,
         new.landed = job[t].landed,
         job[t].phase = "recording" => new.phase = "recording" /\ new.ended = job[t].ended,
         new.full =>
           \/ new.phase = "refused"
           \/ new.phase \in {"asking", "callerOk"} /\ OverBudget(PerScope, new.asked, new.scope)
           \/ new.phase = "asking" /\ OverBudget(PerCaller, new.asked, TheCaller)
  PROVE  BudgetInv'
<1>1. job' = [job EXCEPT ![t] = new] /\ job \in [BudgetTasks -> JobType]
  BY DEF SetJob, BudgetInv, BudgetTyped
<1>2. BudgetTyped'
  BY <1>1 DEF BudgetInv, BudgetTyped
<1>3. \A d \in Days, s \in Subjects : CountedIn(d, s)' = CountedIn(d, s)
  <2> SUFFICES ASSUME NEW d \in Days, NEW s \in Subjects, NEW u \in BudgetTasks
               PROVE  u \in CountedIn(d, s)' <=> u \in CountedIn(d, s)
    BY DEF CountedIn, EndedOn
  <2>1. CASE u = t
    BY <1>1, <2>1 DEF CountedIn, EndedOn, BudgetInv, NothingLandedEarly
  <2>2. CASE u # t
    BY <1>1, <2>2 DEF CountedIn, EndedOn
  <2> QED BY <2>1, <2>2
<1>4. CountersBalance'
  BY <1>3 DEF BudgetInv, CountersBalance
<1>5. NothingLandedEarly'
  BY <1>1 DEF BudgetInv, NothingLandedEarly
<1>6. StaysFull'
  BY <1>1 DEF BudgetInv, StaysFull, OverBudget
<1> QED BY <1>2, <1>4, <1>5, <1>6 DEF BudgetInv

LEMMA ChargeLands ==
  ASSUME BudgetInv, NEW t \in BudgetTasks, NEW subject \in Subjects, Charged(t, subject)
  PROVE  BudgetInv'
<1> DEFINE d0 == job[t].ended
           new == [job[t] EXCEPT !.landed = @ \cup {subject}]
<1>1. /\ job \in [BudgetTasks -> JobType] /\ usage \in [Days -> [Subjects -> Nat]] /\ d0 \in Days
      /\ job[t].phase = "recording" /\ subject \notin job[t].landed /\ job[t] \in JobType
  BY DEF Charged, BudgetInv, BudgetTyped, JobType
<1>2. job' = [job EXCEPT ![t] = new] /\ usage' = [usage EXCEPT ![d0][subject] = @ + 1] /\ day' = day
  BY DEF Charged, SetJob, DayOfWrite
<1>3. new \in JobType /\ new.phase = "recording" /\ new.ended = d0 /\ new.landed = job[t].landed \cup {subject}
      /\ new.full = job[t].full
  BY <1>1 DEF JobType
<1>4. usage[d0][subject] + 1 \in Nat
  BY <1>1
<1>5. BudgetTyped'
  BY <1>1, <1>2, <1>3, <1>4 DEF BudgetInv, BudgetTyped
<1>6. \A d \in Days, s \in Subjects :
        CountedIn(d, s)' = IF d = d0 /\ s = subject THEN CountedIn(d, s) \cup {t} ELSE CountedIn(d, s)
  <2> SUFFICES ASSUME NEW d \in Days, NEW s \in Subjects, NEW u \in BudgetTasks
               PROVE  u \in CountedIn(d, s)' <=>
                        IF d = d0 /\ s = subject THEN u \in CountedIn(d, s) \cup {t} ELSE u \in CountedIn(d, s)
    BY DEF CountedIn, EndedOn
  <2>1. CASE u = t
    BY <1>1, <1>2, <1>3, <2>1 DEF CountedIn, EndedOn
  <2>2. CASE u # t
    BY <1>1, <1>2, <2>2 DEF CountedIn, EndedOn
  <2> QED BY <2>1, <2>2
<1>7. CountersBalance'
  <2> SUFFICES ASSUME NEW d \in Days, NEW s \in Subjects
               PROVE  usage'[d][s] = Cardinality(CountedIn(d, s)')
    BY DEF CountersBalance
  <2>1. usage[d][s] = Cardinality(CountedIn(d, s))
    BY DEF BudgetInv, CountersBalance
  <2>2. CASE d = d0 /\ s = subject
    <3>1. IsFiniteSet(CountedIn(d, s))
      BY BudgetFacts, FS_Subset DEF CountedIn, EndedOn
    <3>2. t \notin CountedIn(d, s)
      BY <1>1, <2>2 DEF CountedIn
    <3>3. Cardinality(CountedIn(d, s) \cup {t}) = Cardinality(CountedIn(d, s)) + 1
      BY <3>1, <3>2, FS_AddElement
    <3>4. usage'[d][s] = usage[d][s] + 1
      BY <1>1, <1>2, <2>2
    <3> QED BY <1>6, <2>1, <2>2, <3>3, <3>4
  <2>3. CASE ~(d = d0 /\ s = subject)
    <3>1. usage'[d][s] = usage[d][s]
      BY <1>1, <1>2, <2>3
    <3> QED BY <1>6, <2>1, <2>3, <3>1
  <2> QED BY <2>2, <2>3
<1>8. NothingLandedEarly'
  BY <1>1, <1>2, <1>3 DEF BudgetInv, NothingLandedEarly
<1>9. StaysFull'
  <2> SUFFICES ASSUME NEW u \in BudgetTasks, job'[u].full
               PROVE  \/ job'[u].phase = "refused"
                      \/ /\ job'[u].phase \in {"asking", "callerOk"}
                         /\ usage'[job'[u].asked][job'[u].scope] >= PerScope
                      \/ /\ job'[u].phase = "asking"
                         /\ usage'[job'[u].asked][TheCaller] >= PerCaller
    BY DEF StaysFull, OverBudget
  <2>1. u # t
    BY <1>1, <1>2, <1>3 DEF BudgetInv, StaysFull
  <2>2. job'[u] = job[u] /\ job[u] \in JobType
    BY <1>1, <1>2, <2>1
  <2>3. \A d \in Days, s \in Subjects : usage[d][s] \in Nat /\ usage'[d][s] >= usage[d][s] /\ usage'[d][s] \in Nat
    BY <1>1, <1>2
  <2>4. job[u].asked \in Days /\ job[u].scope \in Subjects /\ TheCaller \in Subjects
    BY <2>2, BudgetFacts DEF JobType
  <2>5. \/ job[u].phase = "refused"
        \/ job[u].phase \in {"asking", "callerOk"} /\ usage[job[u].asked][job[u].scope] >= PerScope
        \/ job[u].phase = "asking" /\ usage[job[u].asked][TheCaller] >= PerCaller
    BY <2>2 DEF BudgetInv, StaysFull, OverBudget
  <2>6. \A s \in Subjects, limit \in Nat :
          usage[job[u].asked][s] >= limit => usage'[job[u].asked][s] >= limit
    BY <2>3, <2>4
  <2> QED BY <2>2, <2>4, <2>5, <2>6, BudgetFacts
<1> QED BY <1>5, <1>7, <1>8, <1>9 DEF BudgetInv

LEMMA BudgetStep == BudgetInv /\ [BudgetNext]_budgetVars => BudgetInv'
<1> SUFFICES ASSUME BudgetInv, [BudgetNext]_budgetVars PROVE BudgetInv'
  OBVIOUS
<1> USE BudgetFacts
<1>0. /\ job \in [BudgetTasks -> JobType] /\ day \in Days
      /\ \A t \in BudgetTasks : job[t] \in JobType
  BY DEF BudgetInv, BudgetTyped
<1>1. CASE Midnight
  <2>1. day' \in Days /\ usage' = usage /\ job' = job
    BY <1>1, <1>0, BudgetsAssumption DEF Midnight, Days
  <2>2. \A d, s : CountedIn(d, s)' = CountedIn(d, s)
    BY <2>1 DEF CountedIn, EndedOn
  <2>3. CountersBalance'
    BY <2>1, <2>2 DEF BudgetInv, CountersBalance
  <2> QED BY <2>1, <2>3 DEF BudgetInv, BudgetTyped, NothingLandedEarly, StaysFull, OverBudget
<1>2. ASSUME NEW t \in BudgetTasks, NEW scope \in Scopes, Admit(t, scope) PROVE BudgetInv'
  <2> DEFINE full == OverBudget(PerCaller, day, TheCaller) \/ OverBudget(PerScope, day, scope)
             new == [job[t] EXCEPT !.phase = "asking", !.scope = scope, !.asked = day, !.full = full]
  <2>1. full \in BOOLEAN
    BY DEF OverBudget
  <2>2. /\ new \in JobType /\ new.landed = job[t].landed /\ new.phase = "asking" /\ new.full = full
        /\ new.asked = day /\ new.scope = scope
    BY <1>0, <2>1 DEF JobType, Phases
  <2>3. SetJob(t, new) /\ day' = day /\ usage' = usage /\ job[t].phase = "new"
    BY <1>2 DEF Admit
  <2> HIDE DEF new
  <2> QED BY <2>2, <2>3, JobMoves
<1>3. ASSUME NEW t \in BudgetTasks, ReadCaller(t) PROVE BudgetInv'
  <2> DEFINE next == IF OverBudget(PerCaller, job[t].asked, TheCaller) THEN "refused" ELSE "callerOk"
             new == [job[t] EXCEPT !.phase = next]
  <2>2. /\ new \in JobType /\ new.landed = job[t].landed /\ new.phase = next /\ new.full = job[t].full
        /\ new.asked = job[t].asked /\ new.scope = job[t].scope
    BY <1>0 DEF JobType, Phases
  <2>3. SetJob(t, new) /\ day' = day /\ usage' = usage /\ job[t].phase = "asking"
    BY <1>3 DEF ReadCaller
  <2>4. new.full => \/ new.phase = "refused"
                    \/ new.phase = "callerOk" /\ OverBudget(PerScope, new.asked, new.scope)
    BY <2>2, <2>3 DEF BudgetInv, StaysFull
  <2> HIDE DEF new
  <2> QED BY <2>2, <2>3, <2>4, JobMoves
<1>4. ASSUME NEW t \in BudgetTasks, ReadScope(t) PROVE BudgetInv'
  <2> DEFINE next == IF OverBudget(PerScope, job[t].asked, job[t].scope) THEN "refused" ELSE "running"
             new == [job[t] EXCEPT !.phase = next]
  <2>2. /\ new \in JobType /\ new.landed = job[t].landed /\ new.phase = next /\ new.full = job[t].full
    BY <1>0 DEF JobType, Phases
  <2>3. SetJob(t, new) /\ day' = day /\ usage' = usage /\ job[t].phase = "callerOk"
    BY <1>4 DEF ReadScope
  <2>4. new.full => new.phase = "refused"
    BY <2>2, <2>3 DEF BudgetInv, StaysFull
  <2> HIDE DEF new
  <2> QED BY <2>2, <2>3, <2>4, JobMoves
<1>5. ASSUME NEW t \in BudgetTasks, Record(t) PROVE BudgetInv'
  <2> DEFINE new == [job[t] EXCEPT !.phase = "recording", !.ended = day]
  <2>2. /\ new \in JobType /\ new.landed = job[t].landed /\ new.full = job[t].full
    BY <1>0 DEF JobType, Phases
  <2>3. SetJob(t, new) /\ day' = day /\ usage' = usage /\ job[t].phase = "running"
    BY <1>5 DEF Record
  <2>4. ~new.full
    BY <2>2, <2>3 DEF BudgetInv, StaysFull
  <2> HIDE DEF new
  <2> QED BY <2>2, <2>3, <2>4, JobMoves
<1>6. ASSUME NEW t \in BudgetTasks, NEW subject \in Subjects, ChargeFails(t, subject) PROVE BudgetInv'
  <2> DEFINE new == [job[t] EXCEPT !.failed = @ \cup {subject}]
  <2>2. /\ new \in JobType /\ new.landed = job[t].landed /\ new.full = job[t].full
        /\ new.phase = job[t].phase /\ new.ended = job[t].ended
    BY <1>0 DEF JobType, Phases
  <2>3. SetJob(t, new) /\ day' = day /\ usage' = usage /\ job[t].phase = "recording"
    BY <1>6 DEF ChargeFails
  <2>4. ~new.full
    BY <2>2, <2>3 DEF BudgetInv, StaysFull
  <2> HIDE DEF new
  <2> QED BY <2>2, <2>3, <2>4, JobMoves
<1>7. CASE UNCHANGED budgetVars
  BY <1>7 DEF budgetVars, BudgetInv, BudgetTyped, CountersBalance, CountedIn, EndedOn, NothingLandedEarly, StaysFull, OverBudget
<1> QED BY <1>1, <1>2, <1>3, <1>4, <1>5, <1>6, <1>7, ChargeLands DEF BudgetNext

(* A day's counters are the tasks that ended that day, less what failed or *)
(* is to land, and a task that asked when a budget was used up never runs  *)
(* (policy.ts, check and record), for any number of tasks, scopes, limits  *)
(* and midnights.                                                          *)
THEOREM BudgetsStayBalanced == BudgetSpec => []BudgetsBalance
<1>1. BudgetInv => BudgetsBalance
  BY DEF BudgetInv, CountersBalance, CountedIn, StaysFull, BudgetsBalance
<1> QED BY <1>1, BudgetStarts, BudgetStep, PTL DEF BudgetSpec

(* The three stores together, each of them for every step of its own.      *)
THEOREM TablesStayTrue == TaskTableSpec /\ BudgetSpec /\ TelemetrySpec => []TablesAreTrue
<1>1. TaskTableSpec => []PagesMissNothing
  BY PagesNeverMiss
<1>2. BudgetSpec => []BudgetsBalance
  BY BudgetsStayBalanced
<1>3. TelemetrySpec => []SpansAccounted
  BY SpansStayAccounted
<1> QED BY <1>1, <1>2, <1>3, PTL DEF TablesAreTrue
=============================================================================
