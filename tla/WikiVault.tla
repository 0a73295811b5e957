------------------------------ MODULE WikiVault ------------------------------
(* The documents of a wiki bundle: what a file is by its name and place,   *)
(* where a link leads, what the lint says of a document and of the whole,  *)
(* and the graph of links the tools walk. A path is the sequence of its    *)
(* names; a vault is a function from paths to documents. Line numbers,     *)
(* titles and wording are left out.                                        *)
EXTENDS Integers, Sequences, FiniteSets, SequencesExt

dirname(path) == Front(path)
basename(path) == Last(path)
isReservedFilename(name) == name \in {"index.md", "log.md"}
isPrivatePath(path) == Len(path) > 1 /\ Head(path) = "private"
classifyDoc(path) ==
  IF basename(path) = "index.md" THEN "index" ELSE IF basename(path) = "log.md" THEN "log" ELSE "concept"
IndexOf(dir) == Append(dir, "index.md")

(* A link as written, and a file's text: the state of its frontmatter, who *)
(* verified it, its links, and the flaws the parser or the lint looks for. *)
Target(sort, at, slash, isImage) == [sort |-> sort, at |-> at, slash |-> slash, isImage |-> isImage]
PlainText == [front |-> "good", typed |-> TRUE, stale |-> FALSE, verified |-> {}, links |-> {}, words |-> 1,
              wikilink |-> FALSE, unclosed |-> FALSE, forbidden |-> FALSE, oddEntry |-> FALSE, slot |-> "none"]

(* makeWikiDoc: only a concept must have frontmatter that fits the schema. *)
makeWikiDoc(path, text) ==
  LET kind == classifyDoc(path)
      flawed == text.front = "unparsable" \/ (kind = "concept" /\ text.front # "good")
  IN  [kind |-> kind, isPrivate |-> isPrivatePath(path), fm |-> kind = "concept" /\ ~flawed, fmIssues |-> flawed, text |-> text]
loadVault(files) == [path \in DOMAIN files |-> makeWikiDoc(path, files[path])]

trustTier(verified) ==
  IF verified = {} THEN "unverified" ELSE IF "human" \in verified THEN "human-reviewed" ELSE "machine-confirmed"

(* resolveLinkTarget: ".." at the top stays there, so no link escapes and  *)
(* the code's "escapes-bundle" is never returned.                          *)
Normalized(names) ==
  LET done[n \in 0 .. Len(names)] ==
        IF n = 0 THEN <<>>
        ELSE IF names[n] # ".." THEN Append(done[n - 1], names[n])
        ELSE IF done[n - 1] = <<>> THEN <<>> ELSE Front(done[n - 1])
  IN  done[Len(names)]
resolveLinkTarget(from, target) ==
  IF target.sort \in {"anchor", "external"} THEN [kind |-> target.sort, path |-> <<>>]
  ELSE LET at == Normalized(IF target.sort = "absolute" THEN target.at ELSE dirname(from) \o target.at)
       IN  [kind |-> "internal", path |-> IF target.slash \/ at = <<>> THEN IndexOf(at) ELSE at]

(* The document at a path, or the index of the directory it names.         *)
EndsMd(path) == basename(path) \in {"index.md", "log.md", "a.md", "b.md", "c.md", "x.md", "gone.md"}
lookupTarget(vault, path) ==
  IF path \in DOMAIN vault THEN {path}
  ELSE IF ~EndsMd(path) /\ IndexOf(path) \in DOMAIN vault THEN {IndexOf(path)} ELSE {}

docsInDirectory(vault, dir) == {path \in DOMAIN vault : dirname(path) = dir}
Internal(vault, path, links) ==
  {t \in links : resolveLinkTarget(path, t).kind = "internal"}
At(path, t) == resolveLinkTarget(path, t).path

Finding(severity, rule, path) == [severity |-> severity, rule |-> rule, path |-> path]
If(condition, finding) == IF condition THEN {finding} ELSE {}

(* Plausible bug: a target that exists is not asked whether it is private. *)
LintLinkExisting(vault, path, t) ==
  LET at == At(path, t)
  IN  IF at \in DOMAIN vault THEN {}
      ELSE If(~t.isImage /\ lookupTarget(vault, at) = {}, Finding("warning", "broken-link", path))
           \cup If(~vault[path].isPrivate /\ isPrivatePath(at), Finding("error", "private-closure", path))
LintLink(vault, path, t) ==
  LET at == At(path, t)
  IN  If(~t.isImage /\ at \notin DOMAIN vault /\ lookupTarget(vault, at) = {}, Finding("warning", "broken-link", path))
      \cup If(~vault[path].isPrivate /\ isPrivatePath(at), Finding("error", "private-closure", path))
      \cup If(t.sort = "relative" /\ ~t.isImage, Finding("info", "relative-link", path))

lintDoc(vault, path) ==
  LET doc == vault[path]
      text == doc.text
  IN  If(doc.fmIssues, Finding("error", "frontmatter", path))
      \cup If(text.wikilink, Finding("error", "wikilink-syntax", path))
      \cup If(text.unclosed, Finding("error", "unclosed-marker", path))
      \cup UNION {LintLink(vault, path, t) : t \in Internal(vault, path, text.links)}
      \cup If(doc.fm /\ ~text.typed, Finding("info", "unknown-type", path))
      \cup If(doc.fm /\ text.stale, Finding("warning", "stale", path))
      \cup If(doc.kind = "log" /\ text.oddEntry, Finding("warning", "log-format", path))
      \cup If(~doc.isPrivate /\ text.forbidden, Finding("error", "forbidden-term", path))

(* lintIndexCoverage: what an index lists is where its links really lead.  *)
Listed(vault, index) ==
  UNION {LET at == At(index, t) IN IF lookupTarget(vault, at) = {} THEN {at} ELSE lookupTarget(vault, at) :
         t \in Internal(vault, index, vault[index].text.links)}
LintDirectory(vault, dir) ==
  LET index == IndexOf(dir)
  IN  IF index \notin DOMAIN vault THEN {Finding("warning", "missing-index", index)}
      ELSE {Finding("warning", "index-coverage", path) : path \in
              {p \in docsInDirectory(vault, dir) : /\ vault[p].kind = "concept"
                                                   /\ vault[p].isPrivate = vault[index].isPrivate
                                                   /\ p \notin Listed(vault, index)}}
lintIndexCoverage(vault) ==
  UNION {LintDirectory(vault, dir) : dir \in {dirname(path) : path \in DOMAIN vault} \cup {<<>>}}

lintOrphans(vault) ==
  LET inbound == UNION {Listed(vault, path) \ {path} : path \in DOMAIN vault}
  IN  {Finding("warning", "orphan", path) : path \in {p \in DOMAIN vault : vault[p].kind = "concept" /\ p \notin inbound}}

lintVault(vault) ==
  UNION {lintDoc(vault, path) : path \in DOMAIN vault} \cup lintIndexCoverage(vault) \cup lintOrphans(vault)

(* buildGraph: the links between documents, images left out.               *)
Link(source, target, resolved) == [source |-> source, target |-> target, resolved |-> resolved]
Edges(vault, path, t) ==
  LET at == At(path, t)
  IN  {Link(path, target, TRUE) : target \in lookupTarget(vault, at)}
      \cup If(lookupTarget(vault, at) = {}, Link(path, at, FALSE))
buildGraph(vault) ==
  UNION {UNION {Edges(vault, path, t) : t \in {u \in Internal(vault, path, vault[path].text.links) : ~u.isImage}} :
         path \in DOMAIN vault}
brokenEdges(graph) == {e \in graph : ~e.resolved}
orphanConcepts(vault, graph) ==
  {p \in DOMAIN vault : vault[p].kind = "concept" /\ \A e \in graph : e.resolved /\ e.target = p => e.source = p}
graphStats(vault, graph) ==
  [documents |-> Cardinality(DOMAIN vault), concepts |-> Cardinality({p \in DOMAIN vault : vault[p].kind = "concept"}),
   brokenLinks |-> Cardinality(brokenEdges(graph)), orphans |-> Cardinality(orphanConcepts(vault, graph))]

(* neighborhood: each document within depth links of the origin, once, at  *)
(* the distance it was first met.                                          *)
Met(graph, from, direction) ==
  {e.target : e \in {f \in graph : direction # "in" /\ f.resolved /\ f.source \in from}}
  \cup {e.source : e \in {f \in graph : direction # "out" /\ f.resolved /\ f.target \in from}}
neighborhood(graph, origin, depth, direction) ==
  LET level[d \in 0 .. depth] ==
        IF d = 0 THEN [seen |-> {origin}, frontier |-> {origin}, found |-> {}]
        ELSE LET walk == level[d - 1]
                 fresh == Met(graph, walk.frontier, direction) \ walk.seen
             IN  [seen |-> walk.seen \cup fresh, frontier |-> fresh,
                  found |-> walk.found \cup {[path |-> p, distance |-> d] : p \in fresh}]
  IN  level[depth].found

(* wiki_read and wiki_links: the document a path names, from the root.     *)
DocNamed(vault, path, slash) == lookupTarget(vault, At(<<"index.md">>, Target("absolute", path, slash, FALSE)))
LinksAround(vault, path, slash, depth, direction) ==
  UNION {neighborhood(buildGraph(vault), doc, depth, direction) : doc \in DocNamed(vault, path, slash)}

(* A bundle of two directories and the annex, with what links between them *)
(* the inputs give.                                                        *)
A == <<"guides", "a.md">>
B == <<"guides", "b.md">>
X == <<"private", "x.md">>
SomeTargets == {Target("absolute", A, FALSE, FALSE), Target("relative", <<"b.md">>, FALSE, FALSE),
                Target("absolute", <<"private">>, FALSE, FALSE), Target("relative", <<"..", "..", "private">>, TRUE, FALSE),
                Target("absolute", X, FALSE, TRUE), Target("absolute", <<"guides", "gone.md">>, FALSE, FALSE),
                Target("anchor", <<>>, FALSE, FALSE)}
VaultOf(ask) ==
  loadVault([path \in {A, B, X, IndexOf(<<"guides">>), IndexOf(<<"private">>), <<"index.md">>} |->
    CASE path = A -> [PlainText EXCEPT !.links = ask.links, !.front = ask.front]
      [] path = X -> [PlainText EXCEPT !.links = {Target("absolute", B, FALSE, ask.image)}]
      [] path = IndexOf(<<"guides">>) -> [PlainText EXCEPT !.links = ask.listing, !.front = "none"]
      [] OTHER -> [PlainText EXCEPT !.front = "none"]])
VaultAsks == [links : SUBSET SomeTargets, listing : SUBSET {Target("relative", <<"a.md">>, FALSE, FALSE), Target("absolute", <<"private">>, TRUE, FALSE)},
              front : {"good", "odd"}, image : BOOLEAN]

(* Lint and the graph, which find their links apart, say the same of a     *)
(* bundle: the same broken links, the same orphans but for a document that *)
(* only an image refers to; and no link of the graph leads from a public   *)
(* document into the annex without an error, but the one that names the    *)
(* annex's directory bare, which the lint compares as it is written.       *)
LintAndGraphAgree(ask) ==
  LET vault == VaultOf(ask)
      graph == buildGraph(vault)
      says(rule) == {f.path : f \in {g \in lintVault(vault) : g.rule = rule}}
      shown == UNION {{lookupTarget(vault, At(p, t)) : t \in {u \in vault[p].text.links : u.isImage}} : p \in DOMAIN vault}
      bare == {p \in DOMAIN vault : \E t \in Internal(vault, p, vault[p].text.links) : At(p, t) = <<"private">>}
      leaks == {e.source : e \in {f \in graph : f.resolved /\ ~vault[f.source].isPrivate /\ vault[f.target].isPrivate}}
  IN  /\ says("broken-link") = {e.source : e \in brokenEdges(graph)}
      /\ says("orphan") \subseteq orphanConcepts(vault, graph)
      /\ orphanConcepts(vault, graph) \ says("orphan") \subseteq UNION shown
      /\ leaks \ bare \subseteq says("private-closure")
      /\ says("frontmatter") = {p \in DOMAIN vault : vault[p].kind = "concept" /\ vault[p].text.front # "good"}
=============================================================================
