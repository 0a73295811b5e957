------------------------------ MODULE WikiGraph ------------------------------
(* The entity graph of the wiki: typed relations between documents and the *)
(* things they are about, merged from a derived and an asserted layer,     *)
(* walked by the tools and linted by the build. A graph is its nodes, id   *)
(* to [kind, private], and its edges; the order of a layer, which settles  *)
(* only what is reported first, is abstracted.                             *)
EXTENDS Integers, Sequences, FiniteSets, SequencesExt

Anything == {}   \* no constraint on the kind of an end
Extracted == [contains |-> [from |-> Anything, to |-> Anything], uses_model |-> [from |-> Anything, to |-> {"model"}],
              routes_to |-> [from |-> {"model"}, to |-> {"provider"}], requires_env |-> [from |-> Anything, to |-> {"env"}],
              uses_tool |-> [from |-> Anything, to |-> {"tool"}], delegates_to |-> [from |-> {"agent"}, to |-> {"syndicate"}],
              connects_mcp |-> [from |-> {"agent"}, to |-> {"mcp-server"}],
              defined_in |-> [from |-> Anything, to |-> {"module", "file"}], imports |-> [from |-> Anything, to |-> Anything],
              reads_table |-> [from |-> Anything, to |-> {"table"}], runs |-> [from |-> Anything, to |-> Anything],
              documents |-> [from |-> {"doc"}, to |-> Anything], derives_from |-> [from |-> {"doc"}, to |-> Anything],
              references |-> [from |-> Anything, to |-> Anything], links_to |-> [from |-> {"doc"}, to |-> {"doc"}]]
Inferred == {"depends_on", "constrains", "supersedes", "explains", "alternative_to", "mitigates", "contradicts"}

tierOf(rel) == IF rel \in Inferred THEN "inferred" ELSE IF rel \in DOMAIN Extracted THEN "extracted" ELSE "none"
EndsOf(rel) == IF rel \in DOMAIN Extracted THEN Extracted[rel] ELSE [from |-> Anything, to |-> Anything]

Edge(from, rel, to) == [from |-> from, rel |-> rel, to |-> to]

(* A node that several layers give: private if one of them says so.        *)
mergeNode(a, b) == [kind |-> b.kind, private |-> a.private \/ b.private]

buildEntityGraph(nodes, edges) ==
  LET ids == {nodes[i].id : i \in DOMAIN nodes}
      of(id) == SelectSeq(nodes, LAMBDA n : n.id = id)
  IN  [nodes |-> [id \in ids |-> FoldLeft(mergeNode, Head(of(id)), Tail(of(id)))],
       edges |-> {edges[i] : i \in DOMAIN edges}]

Ends(edge) == {edge.from, edge.to}
(* What a walk may step over from id, and where it gets.                   *)
Moves(graph, id, direction) ==
  {[edge |-> e, other |-> e.to] : e \in {f \in graph.edges : direction # "in" /\ f.from = id}}
  \cup {[edge |-> e, other |-> e.from] : e \in {f \in graph.edges : direction # "out" /\ f.to = id}}

(* Plausible bug: an edge whose other end was already reached is skipped.  *)
NewMovesOnce(moves, walk) == {m \in moves : m.other \notin walk.expanded}
NewMoves(moves, walk) == {m \in moves : m.edge \notin walk.reported}

(* neighbors: every relation within depth, at the distance it was first    *)
(* met; allowed is empty for every relation.                               *)
neighbors(graph, origin, depth, direction, allowed) ==
  LET grow(walk, d) ==
        LET moves == {m \in UNION {Moves(graph, id, direction) : id \in walk.frontier} :
                        (allowed = {} \/ m.edge.rel \in allowed) /\ m.other \in DOMAIN graph.nodes}
            met == NewMoves(moves, walk)
        IN  [reported |-> walk.reported \cup {m.edge : m \in met},
             steps |-> walk.steps \cup {[edge |-> m.edge, distance |-> d] : m \in met},
             frontier |-> {m.other : m \in met} \ walk.expanded,
             expanded |-> walk.expanded \cup {m.other : m \in met}]
      level[d \in 0 .. depth] ==
        IF d = 0 THEN [reported |-> {}, steps |-> {}, frontier |-> {origin}, expanded |-> {origin}]
        ELSE grow(level[d - 1], d)
  IN  level[depth].steps

(* shortestPath: the chain of ids, as a set of at most one; breadth first, *)
(* over the ends of relations whether they are nodes or not.               *)
shortestPath(graph, from, to, maxDepth) ==
  LET grow(walk) ==
        LET fresh == {m.other : m \in UNION {Moves(graph, id, "both") : id \in DOMAIN walk.frontier}} \ walk.seen
            by(x) == CHOOSE id \in DOMAIN walk.frontier : \E m \in Moves(graph, id, "both") : m.other = x
        IN  [seen |-> walk.seen \cup fresh,
             frontier |-> [x \in fresh |-> Append(walk.frontier[by(x)], x)]]
      level[d \in 0 .. maxDepth] ==
        IF d = 0 THEN [seen |-> {from}, frontier |-> [x \in {from} |-> <<from>>]] ELSE grow(level[d - 1])
      found == {d \in 0 .. maxDepth : to \in DOMAIN level[d].frontier}
  IN  IF {from, to} \subseteq DOMAIN graph.nodes /\ found # {}
      THEN {level[d].frontier[to] : d \in found} ELSE {}

(* findNodes for one term: what it is to each node, the best ones first.   *)
Score(match) ==
  CASE match = "id" -> 100 [] match = "label" -> 90 [] match = "name" -> 80
    [] match = "in id" -> 40 [] match = "in label" -> 30 [] match = "in source" -> 10 [] OTHER -> 0
findNodes(matches) ==
  {id \in DOMAIN matches : Score(matches[id]) > 0 /\ \A other \in DOMAIN matches : Score(matches[other]) <= Score(matches[id])}

isPrivateNode(node) == node.private

(* One relation's findings: [severity, rule].                              *)
LintEdge(graph, tier, e) ==
  IF ~(Ends(e) \subseteq DOMAIN graph.nodes) THEN {<<"error", "dangling-endpoint">>}
  ELSE LET from == graph.nodes[e.from]
           to == graph.nodes[e.to]
           spec == EndsOf(e.rel)
       IN  (IF tierOf(e.rel) = "none" THEN {<<"info", "unknown-relation">>}
            ELSE (IF tierOf(e.rel) # tier THEN {<<"warning", "tier-mismatch">>} ELSE {})
                 \cup (IF \/ spec.from # Anything /\ from.kind \notin spec.from
                          \/ spec.to # Anything /\ to.kind \notin spec.to
                       THEN {<<"warning", "kind-constraint">>} ELSE {}))
           \cup (IF from.kind = "doc" /\ ~isPrivateNode(from) /\ isPrivateNode(to) THEN {<<"error", "private-closure">>} ELSE {})
           \cup (IF e.from = e.to THEN {<<"warning", "self-loop">>} ELSE {})

lintEntityGraph(graph, asserted) ==
  UNION {LintEdge(graph, IF e \in asserted THEN "inferred" ELSE "extracted", e) : e \in graph.edges}

entityStats(graph) ==
  [nodes |-> Cardinality(DOMAIN graph.nodes), edges |-> Cardinality(graph.edges),
   isolated |-> Cardinality({id \in DOMAIN graph.nodes : \A e \in graph.edges : id \notin Ends(e)})]

(* Four nodes, one id that is none, and the relations between them.        *)
SmallNodes == [a |-> [kind |-> "doc", private |-> FALSE], b |-> [kind |-> "doc", private |-> FALSE],
               c |-> [kind |-> "module", private |-> FALSE], x |-> [kind |-> "doc", private |-> TRUE]]
SmallEdges == {Edge("a", "links_to", "b"), Edge("b", "links_to", "a"), Edge("b", "documents", "c"), Edge("c", "imports", "c"),
               Edge("x", "explains", "c"), Edge("x", "links_to", "a"), Edge("a", "explains", "gone")}
GraphAsks == [edges : SUBSET SmallEdges, from : DOMAIN SmallNodes, direction : {"out", "in", "both"}, allowed : {{}, {"links_to"}}]

(* The ids within n steps of an id, by definition.                         *)
Within(graph, id, direction, n) ==
  LET near[d \in 0 .. n] ==
        IF d = 0 THEN {id} ELSE near[d - 1] \cup {m.other : m \in UNION {Moves(graph, k, direction) : k \in near[d - 1]}}
  IN  near[n]

(* A walk reports each relation that starts from an id within reach, once, *)
(* at the distance of its nearer end, a loop and a way back included; the  *)
(* chain it finds between two nodes follows relations and is as short as   *)
(* any, and there is none only where no chain of six joins them.           *)
WalksAreExact(ask) ==
  LET graph == [nodes |-> SmallNodes, edges |-> {e \in ask.edges : ask.allowed = {} \/ e.rel \in ask.allowed}]
      inside == [graph EXCEPT !.edges = {e \in @ : e.to # "gone"}]
      steps == neighbors([graph EXCEPT !.edges = ask.edges], ask.from, 2, ask.direction, ask.allowed)
      starts(n) == Within(inside, ask.from, ask.direction, n)
      due(e, n) == (ask.direction # "in" /\ e.from \in starts(n)) \/ (ask.direction # "out" /\ e.to \in starts(n))
  IN  /\ steps = {[edge |-> e, distance |-> 1] : e \in {f \in inside.edges : due(f, 0)}}
                 \cup {[edge |-> e, distance |-> 2] : e \in {f \in inside.edges : due(f, 1) /\ ~due(f, 0)}}
      /\ \A to \in DOMAIN SmallNodes :
           LET chains == shortestPath(graph, ask.from, to, 6)
           IN  /\ chains = {} <=> to \notin Within(graph, ask.from, "both", 6)
               /\ \A chain \in chains :
                    /\ chain[1] = ask.from /\ chain[Len(chain)] = to
                    /\ \A i \in 1 .. Len(chain) - 1 : \E m \in Moves(graph, chain[i], "both") : m.other = chain[i + 1]
                    /\ Len(chain) > 1 => to \notin Within(graph, ask.from, "both", Len(chain) - 2)
=============================================================================
