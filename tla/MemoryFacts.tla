---------------------------- MODULE MemoryFacts ----------------------------
(***************************************************************************)
(* What an ingestion makes of the new turns of a session                    *)
(* (lib/memory/supabaseMemoryService.ts, providers.ts, store.ts): records   *)
(* are extracted by a model, embedded, checked against what the user's      *)
(* store holds, inserted, and the rows a correction quotes are retired.      *)
(* Two ingestions of one user may overlap, any call may fail, and the       *)
(* user's facts may be erased at any moment.  A text stands for its place   *)
(* on a line: 100 less the distance of two places is their similarity in    *)
(* percent.                                                                 *)
(***************************************************************************)
EXTENDS Integers, Sequences, SequencesExt, FiniteSetsExt

CONSTANTS
    Ingestion,
    Sayings,        \* what the sessions may have said that is not distilled yet
    MaxRetries,     \* bound on the ingestions repeated after a failure
    MaxFactErases   \* bound on erases

VARIABLES
    said,       \* the lines each ingestion's turns are distilled to
    embedder,   \* how the embeddings service chosen at the start is asked
    facts,      \* adk_memory_facts of the user, oldest first
    stage,      \* where each ingestion awaits
    work,       \* what it holds across its awaits
    retries,    \* ingestions repeated so far
    wiped,      \* erases so far
    stored,     \* history: every row ever inserted, as inserted
    open,       \* history: ingestions under way at some erase
    troubled    \* history: a step of it failed, or it overlapped another

factsVars == <<said, embedder, facts, stage, work, retries, wiped, stored, open, troubled>>

Nothing == "none"

\* The lines a model may answer with.  f2 says f1 again in other words, f3
\* shares an index key with it and is further off, c corrects f1.
Field(name, value) == [name |-> name, value |-> value]
Raw(id, tag, fields) == [id |-> id, tag |-> tag, fields |-> fields]

F1 == Raw("f1", "FACT", <<Field("date", <<"2026-07">>), Field("keys", <<"k">>)>>)
F2 == Raw("f2", "FACT", <<Field("keys", <<"k">>), Field("status", <<"active">>)>>)
F3 == Raw("f3", "FACT", <<Field("keys", <<"k">>), Field("date", <<"soon">>)>>)
Corrects == Raw("c", "CORRECTION", <<Field("keys", <<"k">>), Field("supersedes", <<"f1">>)>>)
Noise == Raw("noise", Nothing, <<>>)

ASSUME SayingsAssumption ==
    /\ Sayings # {} /\ Sayings \subseteq [Ingestion -> Seq({F1, F2, F3, Corrects})]
    /\ MaxRetries \in Nat /\ MaxFactErases \in Nat

PlaceOf == [f1 |-> 0, f2 |-> 4, f3 |-> 30, c |-> 50]

Similarity(a, b) == 100 - (IF a < b THEN b - a ELSE a - b)

\* The elements of s at some of its places, as they stand.
ElementsAt(s, some) ==
    LET kept[n \in 0 .. Len(s)] ==
            IF n = 0 THEN <<>> ELSE IF n \in some THEN Append(kept[n - 1], s[n]) ELSE kept[n - 1]
    IN  kept[Len(s)]

\* The elements of s by falling score; those of one score as they stand.
Ahead(score, m, n) == score[m] > score[n] \/ (score[m] = score[n] /\ m <= n)
Ranked(s, score) ==
    LET ranks == {<<n, Cardinality({m \in DOMAIN s : Ahead(score, m, n)})>> : n \in DOMAIN s}
    IN  [k \in 1 .. Len(s) |-> s[(CHOOSE r \in ranks : r[2] = k)[1]]]

(***************************************************************************)
(* The providers.                                                           *)
(***************************************************************************)

\* What modelExtractor makes of the parts of a model's responses, a line each:
\* those of partial responses and thoughts are passed over; an error ends it.
Part(partial, thought, line) == [partial |-> partial, thought |-> thought, line |-> line]

Heard(parts) ==
    LET heard == ElementsAt(parts, {n \in DOMAIN parts : ~parts[n].partial /\ ~parts[n].thought})
    IN  [n \in DOMAIN heard |-> heard[n].line]

\* A model's possible answers for the lines it distils, besides an error.
AnswersOf(lines) ==
    LET Parts(partial) == [n \in DOMAIN lines |-> Part(partial, FALSE, lines[n])]
    IN  {Parts(FALSE),
         Parts(TRUE) \o <<Part(FALSE, TRUE, F3), Part(FALSE, FALSE, Noise)>> \o Parts(FALSE)}

\* A record line's header, read field by field: the last of a name stands, and
\* an empty value or a malformed date is passed over.
parseRecord(raw) ==
    LET Named(name) == {n \in DOMAIN raw.fields :
                            raw.fields[n].name = name /\ raw.fields[n].value # <<>>}
        LastOf(places) == IF places = {} THEN <<>> ELSE raw.fields[Max(places)].value
        dates == {n \in Named("date") : raw.fields[n].value = <<"2026-07">>}
        keys == LastOf(Named("keys"))
        quote == LastOf(Named("supersedes"))
    IN  [line |-> raw.id, tag |-> raw.tag,
         factDate |-> IF dates = {} THEN Nothing ELSE LastOf(dates)[1],
         status |-> IF \E n \in Named("status") : raw.fields[n].value = <<"historical">>
                    THEN "historical" ELSE "active",
         keys |-> {keys[n] : n \in 1 .. Min({8, Len(keys)})},
         supersedes |-> IF quote = <<>> THEN Nothing ELSE quote[1]]

Parsed(lines) ==
    LET good == ElementsAt(lines, {n \in DOMAIN lines : lines[n].tag # Nothing})
    IN  [n \in DOMAIN good |-> parseRecord(good[n])]

Wrong == <<-1>>

\* A service answers a batch of texts with vectors in any order, each with the
\* index of its text; the embedder sorts them, and an answer with one missing or
\* of another dimension is refused.
Vector(index, at, dimensions) == [index |-> index, at |-> at, dimensions |-> dimensions]

BatchAnswers(places) ==
    LET all == [n \in DOMAIN places |-> Vector(n, places[n], 1)]
    IN  {all, Reverse(all), Tail(all),
         [all EXCEPT ![1] = [@ EXCEPT !.dimensions = 2]]}

(* Plausible bug: the vectors are taken in the order of the answer. *)
EmbeddedUnsorted(places, answer) ==
    IF Len(answer) # Len(places) \/ \E n \in DOMAIN answer : answer[n].dimensions # 1
    THEN Wrong ELSE [n \in DOMAIN answer |-> answer[n].at]

Embedded(places, answer) ==
    IF Len(answer) # Len(places) \/ \E n \in DOMAIN answer : answer[n].dimensions # 1
    THEN Wrong
    ELSE LET sorted == Ranked(answer, [n \in DOMAIN answer |-> -answer[n].index])
         IN  [n \in DOMAIN sorted |-> sorted[n].at]

\* Gemini is asked one text at a time, and checked as each answer comes; the
\* services behind the OpenAI interface are asked once for the batch.
embed(places) ==
    {Wrong} \cup
    (IF embedder = "gemini"
     THEN {places}
     ELSE {Embedded(places, answer) : answer \in BatchAnswers(places)})

\* memoryProvidersFromEnv: the embeddings service the settings name, or an
\* error that keeps the server from starting.
Settings == [provider : {"", "gemini", "openai", "ollama", "openai-compatible", "other"},
             dimensions : {"", "768", "-1"}, baseUrl : BOOLEAN, model : BOOLEAN]

Service(style, key, sends) == [style |-> style, key |-> key, sendDimensions |-> sends]

memoryProvidersFromEnv(env) ==
    IF env.dimensions = "-1" THEN Service("error", Nothing, FALSE)
    ELSE CASE env.provider \in {"", "gemini"} -> Service("gemini", "gemini", TRUE)
           [] env.provider = "openai" -> Service("batch", "openai", TRUE)
           [] env.provider = "ollama" -> Service("batch", Nothing, FALSE)
           [] env.provider = "openai-compatible" /\ env.baseUrl /\ env.model ->
                Service("batch", "own", TRUE)
           [] OTHER -> Service("error", Nothing, FALSE)

(***************************************************************************)
(* The store.                                                               *)
(***************************************************************************)

Row(r, at, i) ==
    [id |-> 0, line |-> r.line, tag |-> r.tag, at |-> at, status |-> r.status,
     keys |-> r.keys, factDate |-> r.factDate, by |-> 0, from |-> i]

\* match_memory_facts: the rows nearest to a vector, nearest first.
Nearest(at, count) ==
    LET ranked == Ranked(facts, [n \in DOMAIN facts |-> Similarity(facts[n].at, at)])
    IN  SubSeq(ranked, 1, Min({count, Len(ranked)}))

isSemanticDuplicate(r, matches, at) ==
    \E n \in DOMAIN matches :
        /\ matches[n].status = "active"
        /\ matches[n].tag = r.tag
        /\ Similarity(matches[n].at, at) >= 93

\* The rows a correction retires: active, not of its own ingestion, and either
\* close to what it quotes or less close with an index key in common.
(* Plausible bug: a shared key is enough. *)
RetiredByKey(r, quoteAt, own) ==
    LET Retires(row) == /\ row.id \notin own
                        /\ row.status = "active"
                        /\ \/ Similarity(row.at, quoteAt) >= 85
                           \/ row.keys \cap r.keys # {}
        near == Nearest(quoteAt, 5)
        gone == ElementsAt(near, {n \in DOMAIN near : Retires(near[n])})
    IN  [n \in DOMAIN gone |-> gone[n].id]

(* Plausible bug: only the best candidate is retired. *)
RetiredNearest(r, quoteAt, own) ==
    LET Retires(row) == row.id \notin own /\ row.status = "active"
                        /\ Similarity(row.at, quoteAt) >= 60
        near == Nearest(quoteAt, 1)
        gone == ElementsAt(near, {n \in DOMAIN near : Retires(near[n])})
    IN  [n \in DOMAIN gone |-> gone[n].id]

RetiredBy(r, quoteAt, own) ==
    LET Retires(row) ==
            /\ row.id \notin own
            /\ row.status = "active"
            /\ \/ Similarity(row.at, quoteAt) >= 85
               \/ Similarity(row.at, quoteAt) >= 60 /\ row.keys \cap r.keys # {}
        near == Nearest(quoteAt, 5)
        gone == ElementsAt(near, {n \in DOMAIN near : Retires(near[n])})
    IN  [n \in DOMAIN gone |-> gone[n].id]

\* searchSupabase: up to 24 rows near the query are scored again, ten are kept,
\* and a retired row says that it is one.
Query(at, words, dates) == [at |-> at, words |-> words, dates |-> dates]
Queries == {Query(0, {"k"}, {}), Query(2, {}, {"2026-07"}), Query(40, {}, {})}

searchSupabase(query) ==
    LET Score(row) == Similarity(row.at, query.at)
                        + (IF row.keys \cap query.words # {} THEN 12 ELSE 0)
                        + (IF row.factDate \in query.dates THEN 18 ELSE 0)
                        + (IF row.status = "active" THEN 5 ELSE 0)
        near == Nearest(query.at, 24)
        scored == Ranked(near, [n \in DOMAIN near |-> Score(near[n])])
        best == SubSeq(scored, 1, Min({10, Len(scored)}))
    IN  [n \in DOMAIN best |-> [row |-> best[n], label |-> best[n].status]]

(***************************************************************************)
(* One ingestion.                                                           *)
(***************************************************************************)

Fresh == [records |-> <<>>, vectors |-> <<>>, known |-> {}, payload |-> <<>>,
          next |-> 1, own |-> {}, quotes |-> <<>>, hits |-> <<>>]

UnderWay(i) == stage[i] \notin {"ready", "failed", "done", "gone"}

FactsInit ==
    /\ said \in Sayings
    /\ \E env \in Settings : embedder = memoryProvidersFromEnv(env).style
    /\ embedder # "error"
    /\ facts = <<>>
    /\ stage = [i \in Ingestion |-> "ready"]
    /\ work = [i \in Ingestion |-> Fresh]
    /\ retries = 0
    /\ wiped = 0
    /\ stored = {}
    /\ open = {}
    /\ troubled = [i \in Ingestion |-> FALSE]

Step(i, place, held) ==
    /\ stage' = [stage EXCEPT ![i] = place]
    /\ work' = [work EXCEPT ![i] = held]

Trouble(i) == troubled' = [troubled EXCEPT ![i] = TRUE]

\* A call that throws leaves the turns pending.
Fail(i) ==
    /\ Step(i, "failed", Fresh)
    /\ Trouble(i)

givenVars == <<said, embedder>>
storeVars == <<facts, stored>>
countVars == <<retries, wiped, open>>

\* addSessionToMemory to the end of the extraction; the answer of the model may
\* hold no record at all.
BeginIngestion(i) ==
    /\ stage[i] = "ready"
    /\ Step(i, "extract", Fresh)
    /\ troubled' = [j \in Ingestion |->
                       troubled[j] \/ (IF j = i THEN \E o \in Ingestion : UnderWay(o)
                                       ELSE UnderWay(j))]
    /\ UNCHANGED <<givenVars, storeVars, countVars>>

Extract(i) ==
    /\ stage[i] = "extract"
    /\ \/ Fail(i)
       \/ \E answer \in AnswersOf(said[i]) \cup {<<Part(FALSE, FALSE, Noise)>>} :
             LET records == Parsed(Heard(answer))
             IN  /\ IF records = <<>>
                    THEN Step(i, "done", Fresh)
                    ELSE Step(i, "embed", [Fresh EXCEPT !.records = records])
                 /\ UNCHANGED troubled
    /\ UNCHANGED <<givenVars, storeVars, countVars>>

Places(records) == [n \in DOMAIN records |-> PlaceOf[records[n].line]]

Embed(i) ==
    /\ stage[i] = "embed"
    /\ \E vectors \in embed(Places(work[i].records)) :
          IF vectors = Wrong
          THEN Fail(i)
          ELSE /\ Step(i, "known", [work[i] EXCEPT !.vectors = vectors])
               /\ UNCHANGED troubled
    /\ UNCHANGED <<givenVars, storeVars, countVars>>

\* existingFacts: a failed read tells of no line.
ReadKnown(i) ==
    /\ stage[i] = "known"
    /\ \E known \in {{}, {facts[n].line : n \in DOMAIN facts}} :
          Step(i, "probe", [work[i] EXCEPT !.known = known])
    /\ UNCHANGED <<givenVars, storeVars, countVars, troubled>>

\* The next record is left out when its line is known or it says again what an
\* active row of its tag says; a probe that fails lets it in.
Probe(i) ==
    LET w == work[i]
        r == w.records[w.next]
        kept == [w EXCEPT !.payload = Append(@, Row(r, w.vectors[w.next], i)), !.next = @ + 1]
        left == [w EXCEPT !.next = @ + 1]
        near == Nearest(w.vectors[w.next], 5)
    IN  /\ stage[i] = "probe"
        /\ w.next <= Len(w.records)
        /\ \/ /\ r.line \in w.known \/ isSemanticDuplicate(r, near, w.vectors[w.next])
              /\ Step(i, "probe", left)
           \/ /\ r.line \notin w.known
              /\ Step(i, "probe", kept)
        /\ UNCHANGED <<givenVars, storeVars, countVars, troubled>>

\* The rows are inserted together; the insert may be refused, and it may stand
\* though its answer is lost.
Insert(i) ==
    LET w == work[i]
        first == Cardinality(stored) + 1
        new == [n \in DOMAIN w.payload |-> [w.payload[n] EXCEPT !.id = first + n - 1]]
        own == {new[n].id : n \in DOMAIN new}
    IN  /\ stage[i] = "probe"
        /\ w.next > Len(w.records)
        /\ \/ Fail(i) /\ w.payload # <<>> /\ UNCHANGED storeVars
           \/ /\ facts' = facts \o new
              /\ stored' = stored \cup ToSet(new)
              /\ \/ Fail(i) /\ w.payload # <<>>
                 \/ /\ Step(i, IF own = {} THEN "done" ELSE "quotes",
                            [w EXCEPT !.own = own, !.next = 1])
                    /\ UNCHANGED troubled
        /\ UNCHANGED <<givenVars, countVars>>

Corrections(i) ==
    LET records == work[i].records
        Stored(r) == \E row \in stored : row.id \in work[i].own /\ row.line = r.line
    IN  ElementsAt(records, {n \in DOMAIN records : records[n].supersedes # Nothing /\ Stored(records[n])})

\* applySupersessions: what the inserted corrections quote is embedded.
EmbedQuotes(i) ==
    LET corrections == Corrections(i)
        places == [n \in DOMAIN corrections |-> PlaceOf[corrections[n].supersedes]]
    IN  /\ stage[i] = "quotes"
        /\ IF corrections = <<>>
           THEN Step(i, "done", Fresh) /\ UNCHANGED troubled
           ELSE \E quotes \in embed(places) :
                  IF quotes = Wrong
                  THEN Fail(i)
                  ELSE /\ Step(i, "lookup", [work[i] EXCEPT !.quotes = quotes])
                       /\ UNCHANGED troubled
        /\ UNCHANGED <<givenVars, storeVars, countVars>>

\* The next correction's candidates; a lookup that fails passes it over.
LookUp(i) ==
    LET w == work[i]
        r == Corrections(i)[w.next]
    IN  /\ stage[i] = "lookup"
        /\ w.next <= Len(Corrections(i))
        /\ \/ /\ Step(i, "retire", [w EXCEPT !.hits = RetiredBy(r, w.quotes[w.next], w.own)])
              /\ UNCHANGED troubled
           \/ Step(i, "lookup", [w EXCEPT !.next = @ + 1]) /\ Trouble(i)
        /\ UNCHANGED <<givenVars, storeVars, countVars>>

CorrectionId(i) ==
    (CHOOSE row \in stored : /\ row.id \in work[i].own
                             /\ row.line = Corrections(i)[work[i].next].line).id

\* retire() of the next candidate, by its id alone; a failure is logged.
Retire(i) ==
    LET w == work[i]
        Retired(row) == IF row.id = Head(w.hits)
                        THEN [row EXCEPT !.status = "superseded", !.by = CorrectionId(i)]
                        ELSE row
    IN  /\ stage[i] = "retire"
        /\ w.hits # <<>>
        /\ Step(i, "retire", [w EXCEPT !.hits = Tail(@)])
        /\ \/ /\ facts' = [n \in DOMAIN facts |-> Retired(facts[n])]
              /\ UNCHANGED troubled
           \/ Trouble(i) /\ UNCHANGED facts
        /\ UNCHANGED <<givenVars, stored, countVars>>

NextCorrection(i) ==
    /\ stage[i] = "retire"
    /\ work[i].hits = <<>>
    /\ Step(i, "lookup", [work[i] EXCEPT !.next = @ + 1])
    /\ UNCHANGED <<givenVars, storeVars, countVars, troubled>>

\* The mark advances; only then do the turns count as distilled.
Advance(i) ==
    /\ stage[i] = "lookup"
    /\ work[i].next > Len(Corrections(i))
    /\ Step(i, "done", Fresh)
    /\ UNCHANGED <<givenVars, storeVars, countVars, troubled>>

\* The next task of the session takes the pending turns up again.
RetryIngestion(i) ==
    /\ stage[i] = "failed"
    /\ retries < MaxRetries
    /\ retries' = retries + 1
    /\ Step(i, "ready", Fresh)
    /\ UNCHANGED <<givenVars, storeVars, wiped, open, troubled>>

\* deleteUserMemory, or the facts' share of eraseScope.  The sessions go too:
\* turns still pending are never read again, while an ingestion under way holds
\* its own copy.
(* Plausible bug: only the rows that are still active are erased. *)
EraseActiveFacts ==
    /\ wiped < MaxFactErases
    /\ wiped' = wiped + 1
    /\ facts' = SelectSeq(facts, LAMBDA row : row.status # "active")
    /\ stage' = [i \in Ingestion |-> IF stage[i] \in {"ready", "failed"} THEN "gone" ELSE stage[i]]
    /\ open' = {i \in Ingestion : UnderWay(i)}
    /\ UNCHANGED <<givenVars, work, retries, stored, troubled>>

EraseFacts ==
    /\ wiped < MaxFactErases
    /\ wiped' = wiped + 1
    /\ facts' = <<>>
    /\ stage' = [i \in Ingestion |-> IF stage[i] \in {"ready", "failed"} THEN "gone" ELSE stage[i]]
    /\ open' = {i \in Ingestion : UnderWay(i)}
    /\ UNCHANGED <<givenVars, work, retries, stored, troubled>>

FactsNext ==
    \/ \E i \in Ingestion :
          \/ BeginIngestion(i) \/ Extract(i) \/ Embed(i) \/ ReadKnown(i) \/ Probe(i) \/ Insert(i)
          \/ EmbedQuotes(i) \/ LookUp(i) \/ Retire(i) \/ NextCorrection(i) \/ Advance(i)
          \/ RetryIngestion(i)
    \/ EraseFacts

FactsSpec == FactsInit /\ [][FactsNext]_factsVars

(***************************************************************************)
(* Properties.                                                              *)
(***************************************************************************)

\* A stored row's vector is that of its own line, whatever order the service
\* answered in.
VectorsAreTheirOwn == \A row \in stored : row.at = PlaceOf[row.line]

\* A row is retired only by a correction of another ingestion that was stored,
\* and what it quotes is at least nearly the row.
RetiredForCause ==
    \A n \in DOMAIN facts : facts[n].status = "superseded" =>
        \E c \in stored : /\ c.id = facts[n].by
                          /\ c.tag = "CORRECTION"
                          /\ Similarity(facts[n].at, PlaceOf["f1"]) >= 60
                          /\ facts[n].id > c.id => facts[n].from # c.from

\* A turn counts as distilled only once each of its records is stored, or a
\* record of its tag that says the same.
KeptOrKnown ==
    \A i \in Ingestion : stage[i] = "lookup" =>
        \A n \in DOMAIN work[i].records :
            LET r == work[i].records[n]
            IN  \E row \in stored : \/ row.line = r.line
                                    \/ /\ row.tag = r.tag
                                       /\ Similarity(row.at, PlaceOf[r.line]) >= 93

\* After an erase, the user's facts come only from ingestions that were under
\* way then, or began later.
EraseHolds ==
    wiped > 0 => \A n \in DOMAIN facts : facts[n].from \in open

\* A search says of every retired row that it is one, and ranks no retired row
\* before the same words in an active one.
SearchTellsRetired ==
    \A query \in Queries :
        LET found == searchSupabase(query)
        IN  \A m, n \in DOMAIN found :
                /\ found[n].label = found[n].row.status
                /\ (m < n /\ found[m].row.line = found[n].row.line
                      /\ found[n].row.status = "active") => found[m].row.status = "active"

\* The facts a user's store holds are sound while ingestions overlap, calls fail
\* and the user is erased.
FactsSound ==
    VectorsAreTheirOwn /\ RetiredForCause /\ KeptOrKnown /\ EraseHolds /\ SearchTellsRetired

\* A correction that is stored has retired every older active row that is
\* nearly what it quotes, once its ingestion is over, unless one of its steps
\* failed, another ingestion was under way meanwhile, or the store holds more
\* rows that near than the five a correction looks at.
CorrectionRetires ==
    LET Quoted(row) == Similarity(row.at, PlaceOf["f1"]) >= 85
        quoted == {n \in DOMAIN facts : Quoted(facts[n])}
    IN  \A i \in Ingestion : stage[i] = "done" /\ ~troubled[i] /\ Cardinality(quoted) <= 5 =>
            \A n \in DOMAIN facts : facts[n].from = i /\ facts[n].tag = "CORRECTION" =>
                \A m \in quoted : m < n /\ facts[m].from # i => facts[m].status # "active"

\* What the memory keeps of the sessions of a user.
MemoryIsKept == FactsSound /\ CorrectionRetires
=============================================================================
