------------------------------ MODULE WikiDive -------------------------------
(* wiki_search and wiki_dive: the documents that match a task's words, and *)
(* a reading plan from them within a budget of words. What a document says *)
(* is, for each field, the words of the task it holds, and how often its   *)
(* body has each. Scores are in eighths, a context's in hundredths of one. *)
EXTENDS WikiVault

Weight == [title |-> 5, tags |-> 4, description |-> 3, headings |-> 2, path |-> 2, type |-> 3]
MaxSeeds == 5

(* One word against one document; the body counts, five times at most,     *)
(* only where no field has the word.                                       *)
WordScore(says, word) ==
  LET fields == {f \in DOMAIN Weight : word \in says.fields[f]}
      found == IF says.body[word] > 5 THEN 5 ELSE says.body[word]
  IN  IF fields # {} THEN 8 * SumFunctionOnSet(Weight, fields) ELSE 4 * found
(* scoreDocs: each further word that matches adds a quarter.               *)
Score(says) ==
  LET each == [word \in DOMAIN says.body |-> WordScore(says, word)]
      matched == {word \in DOMAIN each : each[word] > 0}
  IN  IF Cardinality(matched) > 1 THEN (SumFunction(each) * (3 + Cardinality(matched))) \div 4 ELSE SumFunction(each)
(* The matching concepts, best first; order is the vault's, for the equal. *)
Ranked(paths, order, score) ==
  SortSeq(SelectSeq(order, LAMBDA p : p \in paths), LAMBDA p, q : score[p] > score[q])
scoreDocs(vault, order, said) ==
  LET score == [p \in DOMAIN said |-> Score(said[p])]
  IN  Ranked({p \in DOMAIN said : vault[p].kind = "concept" /\ score[p] > 0}, order, score)

(* A seed's score goes to the documents within two links of it, two fifths *)
(* of it at each; a document keeps the best it was given.                  *)
Propagated(vault, graph, seeds, said) ==
  LET share(dist) == IF dist = 1 THEN 40 ELSE 16
      given(path) == {Score(said[seed]) * share(n.distance) :
                        <<seed, n>> \in UNION {{seed} \X {m \in neighborhood(graph, seed, 2, "both") : m.path = path} : seed \in seeds}}
      reached == UNION {{n.path : n \in neighborhood(graph, seed, 2, "both")} : seed \in seeds}
  IN  [path \in reached |-> Max(given(path))]

(* push: a document already in is let be; one that does not fit goes to    *)
(* the overflow, and only the first stop may exceed the budget.            *)
(* Plausible bug: a document that would just fill the budget does not fit. *)
FitsLoosely(plan, doc, budget) == plan.total <= budget \/ plan.stops = <<>>
Fits(plan, doc, budget) == plan.total + doc.text.words <= budget \/ plan.stops = <<>>
Push(vault, budget, role, plan, path) ==
  IF \E i \in DOMAIN plan.stops : plan.stops[i].path = path THEN plan
  ELSE IF Fits(plan, vault[path], budget)
       THEN [plan EXCEPT !.stops = Append(@, [path |-> path, role |-> role]), !.total = @ + vault[path].text.words]
       ELSE [plan EXCEPT !.overflow = Append(@, path)]
PushAll(vault, budget, role, plan, paths) == FoldLeft(LAMBDA done, p : Push(vault, budget, role, done, p), plan, paths)

repoDive(vault, order, said, budget) ==
  LET graph == buildGraph(vault)
      scored == scoreDocs(vault, order, said)
      seeds == SubSeq(scored, 1, IF Len(scored) < MaxSeeds THEN Len(scored) ELSE MaxSeeds)
      near == Propagated(vault, graph, ToSet(seeds), said)
      above == FoldLeft(LAMBDA done, p : LET index == IndexOf(dirname(p))
                                         IN  IF index \in DOMAIN vault /\ ~Contains(done, index) THEN Append(done, index) ELSE done,
                        <<>>, seeds)
      oriented == PushAll(vault, budget, "orient", [stops |-> <<>>, total |-> 0, overflow |-> <<>>],
                          SelectSeq(<<<<"index.md">>>>, LAMBDA p : p \in DOMAIN vault) \o above)
      cored == PushAll(vault, budget, "core", oriented, seeds)
      context == {p \in DOMAIN near : vault[p].kind # "log" /\ \A i \in DOMAIN cored.stops : cored.stops[i].path # p}
  IN  PushAll(vault, budget, "context", cored, Ranked(context, order, near))

(* Three concepts and their index, of some lengths, linked in some ways.   *)
DiveOrder == <<<<"guides", "a.md">>, <<"guides", "b.md">>, <<"guides", "c.md">>, <<"guides", "index.md">>, <<"index.md">>>>
NoFields == [f \in DOMAIN Weight |-> {}]
DiveAsks == [title : SUBSET {"w", "v"}, heading : SUBSET {"w"}, body : 0 .. 1, length : {1, 4}, chain : {{}, {1}, {2}, {1, 2}}, budget : {1, 4, 7}]
DiveVault(ask) ==
  loadVault([p \in ToSet(DiveOrder) |-> [PlainText EXCEPT
    !.front = IF classifyDoc(p) = "concept" THEN "good" ELSE "none",
    !.words = IF p = DiveOrder[2] THEN ask.length ELSE 2,
    !.links = {Target("absolute", DiveOrder[i + 1], FALSE, FALSE) : i \in {j \in ask.chain : p = DiveOrder[j]}}]])
DiveSaid(ask) ==
  [p \in ToSet(DiveOrder) |->
    [fields |-> IF p = DiveOrder[1] THEN [NoFields EXCEPT !.title = ask.title]
                ELSE IF p = DiveOrder[3] THEN [NoFields EXCEPT !.headings = ask.heading] ELSE NoFields,
     body |-> [w |-> IF p = DiveOrder[2] THEN 6 * ask.body ELSE 0, v |-> IF p = DiveOrder[2] THEN ask.body ELSE 0]]]

(* A reading plan keeps to its budget unless its first stop alone is over; *)
(* no document is in it twice or both in it and left over; the maps come   *)
(* before the matches and these before their context; every match is in it *)
(* or named as left over; and what is context is within two links of a     *)
(* match.                                                                  *)
PlanFits(ask) ==
  LET vault == DiveVault(ask)
      said == DiveSaid(ask)
      plan == repoDive(vault, DiveOrder, said, ask.budget)
      matches == scoreDocs(vault, DiveOrder, said)
      at(role) == {i \in DOMAIN plan.stops : plan.stops[i].role = role}
      planned == {plan.stops[i].path : i \in DOMAIN plan.stops}
  IN  /\ plan.total = SumFunction([i \in DOMAIN plan.stops |-> vault[plan.stops[i].path].text.words])
      /\ plan.total <= ask.budget \/ Len(plan.stops) = 1
      /\ Cardinality(planned) = Len(plan.stops) /\ planned \cap ToSet(plan.overflow) = {}
      /\ \A i \in at("orient"), j \in at("core") \cup at("context") : i < j
      /\ \A i \in at("core"), j \in at("context") : i < j
      /\ ToSet(matches) \subseteq planned \cup ToSet(plan.overflow)
      /\ \A i \in at("context") : \E m \in ToSet(matches) :
           \E n \in neighborhood(buildGraph(vault), m, 2, "both") : n.path = plan.stops[i].path
=============================================================================
