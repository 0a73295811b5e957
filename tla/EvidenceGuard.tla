---------------------------- MODULE EvidenceGuard ----------------------------
(* The `science` guard, between an answer and its reader. An answer is a   *)
(* sequence of tokens: an identifier (in the text, or in the target of a   *)
(* link), a study's name, words, punctuation, and the marks a guard adds.  *)
(* A tool's text is its head, which echoes what it was asked, and records. *)
EXTENDS Integers, FiniteSets, SequencesExt

Trials == {"n1", "n2", "n3"}
Dois == {"d1", "d2"}
Id(id) == [kind |-> "id", of |-> id, shown |-> TRUE]
Target(id) == [kind |-> "id", of |-> id, shown |-> FALSE]
Name(name) == [kind |-> "name", of |-> name, shown |-> TRUE]
Words == [kind |-> "words", of |-> "none", shown |-> TRUE]
Punctuation == [kind |-> "punctuation", of |-> "none", shown |-> TRUE]
Mark(what) == [kind |-> "mark", of |-> what, shown |-> TRUE]

(* IdLedger: what the records of this run carry, never what a head echoes; *)
(* a record's acronym belongs to the trial on its identifier line.         *)
EmptyLedger == [seen |-> {}, names |-> [id \in {} |-> "none"]]
note(ledger, r) ==
  [seen |-> ledger.seen \cup r.ids,
   names |-> IF r.trial = "none" \/ r.acronym = "none" THEN ledger.names
             ELSE [id \in DOMAIN ledger.names \cup {r.trial} |->
                    IF id = r.trial THEN r.acronym ELSE ledger.names[id]]]
noteFromToolText(ledger, text) == FoldLeft(note, ledger, text.records)

(* Plausible bug (the code's once): the whole text is harvested.           *)
noteWholeText(ledger, text) ==
  LET l == FoldLeft(note, ledger, text.records) IN [l EXCEPT !.seen = @ \cup text.head]

LedgerOf(texts) == FoldLeft(noteFromToolText, EmptyLedger, texts)

extractIdentifiers(answer) == {answer[i].of : i \in {i \in DOMAIN answer : answer[i].kind = "id"}}
Unclosed(answer, ledger) == extractIdentifiers(answer) \ ledger.seen

(* A mark behind every identifier that has one, save in a link's target.   *)
annotate(answer, ids, what) ==
  FlattenSeq([i \in DOMAIN answer |->
    IF answer[i].kind = "id" /\ answer[i].shown /\ answer[i].of \in ids
    THEN <<answer[i], Mark(what)>> ELSE <<answer[i]>>])

(* Plausible bug: every occurrence is marked, in a link's target too.      *)
annotateEverywhere(answer, ids, what) ==
  FlattenSeq([i \in DOMAIN answer |->
    IF answer[i].kind = "id" /\ answer[i].of \in ids THEN <<answer[i], Mark(what)>> ELSE <<answer[i]>>])

(* Names this run read and trials, in order; a trial twice over, as label  *)
(* and target of its link, is one.                                         *)
occurrences(answer, known) ==
  LET at == SelectSeq([i \in DOMAIN answer |-> i], LAMBDA i :
        \/ answer[i].kind = "name" /\ answer[i].of \in known
        \/ answer[i].kind = "id" /\ answer[i].of \in Trials)
  IN  [j \in DOMAIN at |-> [kind |-> answer[at[j]].kind, of |-> answer[at[j]].of, at |-> at[j], end |-> at[j]]]
collapse(hits) ==
  FoldLeft(LAMBDA done, h :
    IF done # <<>> /\ h.kind = "id" /\ Last(done).kind = "id" /\ Last(done).of = h.of
    THEN [done EXCEPT ![Len(done)].end = h.end] ELSE Append(done, h), <<>>, hits)
runs(hits) ==
  FoldLeft(LAMBDA done, h :
    IF done # <<>> /\ Head(Last(done)).kind = h.kind THEN [done EXCEPT ![Len(done)] = Append(@, h)]
    ELSE Append(done, <<h>>), <<>>, hits)

GapIsPunctuation(answer, a, b) ==
  \A i \in Last(a).end + 1 .. Head(b).at - 1 : answer[i].kind = "punctuation"
Couple(a, b, k) == IF a[k].kind = "name" THEN [name |-> a[k], id |-> b[k]] ELSE [name |-> b[k], id |-> a[k]]
(* Two runs of one length with nothing said between them pair by index and *)
(* are consumed; else the next run is tried with its successor.            *)
RECURSIVE pairs(_, _)
pairs(answer, blocks) ==
  IF Len(blocks) < 2 THEN <<>>
  ELSE LET a == blocks[1] b == blocks[2] IN
       IF Len(a) = Len(b) /\ GapIsPunctuation(answer, a, b)
       THEN [k \in DOMAIN a |-> Couple(a, b, k)] \o pairs(answer, SubSeq(blocks, 3, Len(blocks)))
       ELSE pairs(answer, Tail(blocks))

(* Plausible bug (the code's once): a window that slides by one run.       *)
RECURSIVE pairsSliding(_, _)
pairsSliding(answer, blocks) ==
  IF Len(blocks) < 2 THEN <<>>
  ELSE LET a == blocks[1] b == blocks[2] IN
       (IF Len(a) = Len(b) /\ GapIsPunctuation(answer, a, b) THEN [k \in DOMAIN a |-> Couple(a, b, k)] ELSE <<>>)
         \o pairsSliding(answer, Tail(blocks))

checkNames(answer, ledger) ==
  LET known == {ledger.names[id] : id \in DOMAIN ledger.names}
      couples == pairs(answer, runs(collapse(occurrences(answer, known))))
      owners(name) == {id \in DOMAIN ledger.names : ledger.names[id] = name}
      wrong == SelectSeq(couples, LAMBDA c :
        c.id.of \in DOMAIN ledger.names /\ ledger.names[c.id.of] # c.name.of /\ owners(c.name.of) # {})
      same(c, d) == c.name.of = d.name.of /\ c.id.of = d.id.of
  IN  FoldLeft(LAMBDA done, c : IF \E i \in DOMAIN done : same(done[i], c) THEN done ELSE Append(done, c), <<>>, wrong)
MarkNames(answer, mismatches) ==
  FlattenSeq([i \in DOMAIN answer |->
    <<answer[i]>> \o (IF \E j \in DOMAIN mismatches : mismatches[j].name.at = i THEN <<Mark("mismatch")>> ELSE <<>>)])

(* The corrections channel: Crossref and OpenAlex, asked at once; either   *)
(* may fail, and any signal of a withdrawal counts.                        *)
checkCorrections(answers) ==
  LET crossref == answers.crossref IN
  [checked |-> crossref # "fails" \/ answers.openalex # "fails",
   retracted |-> crossref \in {"updated by a retraction", "title says so"} \/ answers.openalex = "retracted",
   sources |-> (IF crossref = "fails" THEN {} ELSE {"Crossref"})
                 \cup (IF answers.openalex = "fails" THEN {} ELSE {"OpenAlex"})]

(* Plausible bug: nobody answering is nothing found.                       *)
checkedAnyway(answers) ==
  [checked |-> TRUE, retracted |-> answers.crossref \in {"updated by a retraction", "title says so"},
   sources |-> {}]

runGuards(answer, ledger, corrections) ==
  LET cited == extractIdentifiers(answer)
      verdict == [d \in cited \cap Dois |-> checkCorrections(corrections[d])]
      retracted == {d \in DOMAIN verdict : verdict[d].retracted}
      couldNotAsk == {d \in DOMAIN verdict : ~verdict[d].checked}
      closed == annotate(answer, Unclosed(answer, ledger), "unverified")
      marked == annotate(annotate(closed, retracted, "withdrawn"), couldNotAsk, "not checked")
      names == checkNames(marked, ledger)
  IN  [answer |-> MarkNames(marked, names),
       unchecked |-> (cited \ Dois) \cup couldNotAsk,
       names |-> [j \in DOMAIN names |-> <<names[j].name.of, names[j].id.of>>],
       notes |-> {n \in {"closure", "withdrawn", "not checked", "names"} :
                    \/ n = "closure" /\ Unclosed(answer, ledger) # {}
                    \/ n = "withdrawn" /\ retracted # {}
                    \/ n = "not checked" /\ couldNotAsk # {}
                    \/ n = "names" /\ names # <<>>}]

(* Two trials with their names, the second asked for by number once more;  *)
(* or one whose title speaks of its companion.                             *)
Record(ids, trial, acronym) == [ids |-> ids, trial |-> trial, acronym |-> acronym]
Texts ==
  {<<[head |-> {"d2"}, records |-> <<Record({"n1"}, "n1", "A"), Record({"n2"}, "n2", "B"), Record({"d1"}, "none", "none")>>],
     [head |-> {"n3"}, records |-> <<>>]>>,
   <<[head |-> {"n2", "d1"}, records |-> <<>>], [head |-> {}, records |-> <<Record({"n1", "n2"}, "n1", "A")>>]>>}
Link(id) == <<Punctuation, Id(id), Target(id), Punctuation>>
Pieces == {<<Name("A")>>, <<Name("B")>>, Link("n1"), <<Id("n2")>>, <<Words>>}
MorePieces == Pieces \cup {<<Id("d1")>>, Link("d2"), <<Words, Target("d2"), Punctuation>>, <<Id("n3")>>}
Corrections ==
  LET answers == {[crossref |-> "fails", openalex |-> "fails"], [crossref |-> "fails", openalex |-> "retracted"],
                  [crossref |-> "title says so", openalex |-> "clean"], [crossref |-> "clean", openalex |-> "clean"]}
  IN  {[d1 |-> a, d2 |-> [crossref |-> "fails", openalex |-> "fails"]] : a \in answers}
Clean == [d \in Dois |-> [crossref |-> "clean", openalex |-> "clean"]]
GuardAsks ==
  [answer : {FlattenSeq(x) : x \in SeqOf(MorePieces, 2)}, texts : Texts, corrections : Corrections]
    \cup [answer : {FlattenSeq(x) : x \in SeqOf(Pieces, 5)}, texts : {CHOOSE t \in Texts : t[1].records # <<>>},
          corrections : {Clean}]

MarksBehind(answer, i) ==
  {answer[j].of : j \in {j \in i + 1 .. Len(answer) : \A k \in i + 1 .. j : answer[k].kind = "mark"}}
Unmarked(answer) == SelectSeq(answer, LAMBDA t : t.kind # "mark")
Returned(texts) == UNION {UNION {texts[i].records[j].ids : j \in DOMAIN texts[i].records} : i \in DOMAIN texts}
Says(corrections, d, signals) == corrections[d].crossref \in signals \/ corrections[d].openalex \in signals

\* What a reader sees of an identifier is marked as it stands: unverified exactly
\* when no record of this run carried it, whatever a tool echoed; withdrawn exactly
\* when a source said so; not checked exactly when none answered. The answer loses
\* no word by it, and the target of a link is left alone.
MarksAreTrue(q) ==
  LET out == runGuards(q.answer, LedgerOf(q.texts), q.corrections).answer IN
  /\ Unmarked(out) = q.answer
  /\ \A i \in DOMAIN out : out[i].kind = "id" =>
       LET id == out[i].of
           marks == MarksBehind(out, i)
       IN  IF ~out[i].shown THEN marks = {}
           ELSE /\ ("unverified" \in marks) = (id \notin Returned(q.texts))
                /\ id \notin Dois => marks \subseteq {"unverified"}
                /\ id \in Dois =>
                     /\ ("withdrawn" \in marks) = Says(q.corrections, id, {"updated by a retraction", "title says so", "retracted"})
                     /\ ("not checked" \in marks) = (q.corrections[id] = [crossref |-> "fails", openalex |-> "fails"])

(* An answer in which each run of names is followed at once by as many     *)
(* identifiers, and the names it gives them.                               *)
Blocks(q) == runs(collapse(occurrences(q.answer, {"A", "B"})))
CitesInForm(q) ==
  LET b == Blocks(q) IN
  /\ Len(b) % 2 = 0
  /\ \A i \in 1 .. Len(b) \div 2 :
       /\ Head(b[2*i - 1]).kind = "name"
       /\ Len(b[2*i - 1]) = Len(b[2*i])
       /\ GapIsPunctuation(q.answer, b[2*i - 1], b[2*i])
Given(q) == UNION {{<<Blocks(q)[2*i - 1][k].of, Blocks(q)[2*i][k].of>> : k \in DOMAIN Blocks(q)[2*i]} : i \in 1 .. Len(Blocks(q)) \div 2}

\* A name is called wrong only if it is another record's, and where the answer cites
\* in form (names, then at once as many identifiers) exactly the swaps are: correct
\* prose is left alone.
NamesAreJudgedRight(q) ==
  LET ledger == LedgerOf(q.texts)
      owned == {<<ledger.names[id], id>> : id \in DOMAIN ledger.names}
      named == {p[1] : p \in owned}
      out == runGuards(q.answer, ledger, q.corrections).names
  IN  /\ \A j \in DOMAIN out : out[j][1] \in named /\ out[j] \notin owned /\ out[j][2] \in DOMAIN ledger.names
      /\ CitesInForm(q) /\ {"A", "B"} = named =>
           ToSet(out) = {p \in Given(q) : p[2] \in DOMAIN ledger.names /\ p \notin owned}

\* A guard that found something says so, and what was not checked is not reported
\* as if it had been.
NotesAreTrue(q) ==
  LET report == runGuards(q.answer, LedgerOf(q.texts), q.corrections)
      shownIds == {t.of : t \in {t \in ToSet(q.answer) : t.kind = "id" /\ t.shown}}
  IN  /\ ToSet(report.answer) # ToSet(q.answer) => report.notes # {}
      /\ report.notes # {} /\ shownIds = extractIdentifiers(q.answer) => Len(report.answer) > Len(q.answer)
      /\ \A d \in Dois \cap extractIdentifiers(q.answer) :
           q.corrections[d] = [crossref |-> "fails", openalex |-> "fails"]
             => d \in report.unchecked /\ "not checked" \in report.notes

EvidenceIsGuarded(q) == MarksAreTrue(q) /\ NamesAreJudgedRight(q) /\ NotesAreTrue(q)
=============================================================================
