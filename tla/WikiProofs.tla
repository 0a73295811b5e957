----------------------------- MODULE WikiProofs -----------------------------
(* The wiki's writers: the bundle of documents and the store of relations,  *)
(* for every number of saves and edits and every set of documents; together *)
(* WikiWritesStand of Stores.                                               *)
(*                                                                          *)
(* WikiRelations. What the gate asks of an assertion names no state of the  *)
(* bundle (LetIn), so it stays true of it whatever becomes of the bundle.   *)
EXTENDS Stores, SequenceTheorems, WellFoundedInduction, TLAPS

Documents == Public \cup Private

RelationsTyped ==
  /\ docs \subseteq Documents
  /\ snapshot.nodes \subseteq Documents
  /\ DOMAIN asserted = {"form", "rows"}
  /\ asserted.rows \subseteq Relations

(* What the gate asked of an assertion stays true of it: it names no state *)
(* of the bundle.                                                          *)
LetIn(r) == tierOf(r.rel) = "inferred" /\ r.from # r.to /\ (r.from \in Public => r.to \in Public)
RowsLetIn == \A r \in asserted.rows : LetIn(r)

RelationsInv == RelationsTyped /\ RowsLetIn /\ findings \subseteq {<<"error", "dangling-endpoint">>}

(* An inferred relation has no derived twin that would constrain its ends. *)
LEMMA InferredIsOpen ==
  ASSUME NEW rel, tierOf(rel) = "inferred"
  PROVE  EndsOf(rel) = [from |-> Anything, to |-> Anything]
<1>1. rel \in Inferred
  BY DEF tierOf
<1>2. rel \notin DOMAIN Extracted
  BY <1>1 DEF Inferred, Extracted
<1> QED BY <1>2 DEF EndsOf

LEMMA DocPrivate ==
  ASSUME NEW node, NEW id, node = [kind |-> "doc", private |-> id \in Private]
  PROVE  node.kind = "doc" /\ (isPrivateNode(node) <=> id \in Private)
BY DEF isPrivateNode

LEMMA NodePrivate ==
  ASSUME NEW ids, NEW id \in ids
  PROVE  DocNodes(ids)[id].kind = "doc" /\ (isPrivateNode(DocNodes(ids)[id]) <=> id \in Private)
<1>1. DocNodes(ids)[id] = [kind |-> "doc", private |-> id \in Private]
  BY DEF DocNodes
<1> QED BY <1>1, DocPrivate, Zenon

(* The lint of one relation the gate let in, over any set of documents.    *)
LEMMA LintOfLetIn ==
  ASSUME NEW ids, ids \subseteq Documents, NEW edges, NEW e \in Relations, LetIn(e)
  PROVE  LintEdge([nodes |-> DocNodes(ids), edges |-> edges], "inferred", e) \subseteq {<<"error", "dangling-endpoint">>}
<1> DEFINE graph == [nodes |-> DocNodes(ids), edges |-> edges]
<1>1. graph.nodes = DocNodes(ids) /\ DOMAIN DocNodes(ids) = ids
  BY DEF DocNodes
<1>2. CASE ~(Ends(e) \subseteq ids)
  BY <1>1, <1>2 DEF LintEdge
<1>3. CASE Ends(e) \subseteq ids
  <2>1. e.from \in ids /\ e.to \in ids /\ e.from \in Documents /\ e.to \in Documents
    BY <1>3 DEF Ends
  <2>2. /\ isPrivateNode(graph.nodes[e.from]) <=> e.from \in Private
        /\ isPrivateNode(graph.nodes[e.to]) <=> e.to \in Private
    BY <1>1, <2>1, NodePrivate, Zenon
  <2>3. ~(graph.nodes[e.from].kind = "doc" /\ ~isPrivateNode(graph.nodes[e.from]) /\ isPrivateNode(graph.nodes[e.to]))
    BY <2>1, <2>2, RelationsAssumption DEF Documents, LetIn
  <2>4. EndsOf(e.rel).from = Anything /\ EndsOf(e.rel).to = Anything
    BY InferredIsOpen DEF LetIn
  <2> HIDE DEF graph
  <2>5. LintEdge(graph, "inferred", e) = {}
    BY <1>1, <1>3, <2>3, <2>4 DEF LintEdge, LetIn
  <2> QED BY <2>5 DEF graph
<1> QED BY <1>2, <1>3

LEMMA RelationsStep == RelationsInv /\ [RelationsNext]_relationsVars => RelationsInv'
<1> SUFFICES ASSUME RelationsInv, [RelationsNext]_relationsVars PROVE RelationsInv'
  OBVIOUS
<1> USE DEF RelationsInv, RelationsTyped, RowsLetIn
<1>1. ASSUME NEW d \in Documents, AddDoc(d) PROVE RelationsInv'
  BY <1>1 DEF AddDoc
<1>2. ASSUME NEW d \in Documents, RemoveDoc(d) PROVE RelationsInv'
  BY <1>2 DEF RemoveDoc
<1>3. CASE Build
  <2> DEFINE records == loadRelations(asserted)
             graph == [nodes |-> DocNodes(docs), edges |-> relationEdges(records)]
  <2>1. records \subseteq asserted.rows
    BY DEF loadRelations
  <2>2. \A e \in records : LintEdge(graph, "inferred", e) \subseteq {<<"error", "dangling-endpoint">>}
    BY <2>1, LintOfLetIn
  <2>3. graph.edges = records
    BY DEF relationEdges
  <2>4. findings' = lintEntityGraph(graph, records)
    BY <1>3 DEF Build
  <2> HIDE DEF graph, records
  <2>5. findings' \subseteq {<<"error", "dangling-endpoint">>}
    BY <2>2, <2>3, <2>4 DEF lintEntityGraph
  <2>6. snapshot' = [taken |-> TRUE, nodes |-> docs] /\ asserted' = asserted /\ docs' = docs
    BY <1>3 DEF Build
  <2> QED BY <2>5, <2>6
<1>4. ASSUME NEW r \in Relations, Relate(r) PROVE RelationsInv'
  <2> DEFINE records == loadRelations(asserted)
  <2>1. records \subseteq asserted.rows
    BY DEF loadRelations
  <2>2. /\ ~RefusesRelation(loadEntityGraph, r) /\ asserted' = [form |-> "good", rows |-> records \cup {r}]
        /\ UNCHANGED <<docs, snapshot, findings>>
    BY <1>4 DEF Relate, saveRelations
  <2>3. LetIn(r)
    <3> DEFINE nodes == DocNodes(snapshot.nodes)
    <3>1. loadEntityGraph.nodes = nodes /\ DOMAIN nodes = snapshot.nodes
      BY DEF loadEntityGraph, DocNodes
    <3>2. /\ tierOf(r.rel) = "inferred" /\ r.from # r.to /\ Ends(r) \subseteq snapshot.nodes
          /\ ~(nodes[r.from].kind = "doc" /\ ~isPrivateNode(nodes[r.from]) /\ isPrivateNode(nodes[r.to]))
      BY <2>2, <3>1 DEF RefusesRelation
    <3>3. r.from \in snapshot.nodes /\ r.to \in snapshot.nodes /\ r.to \in Documents
      BY <3>2 DEF Ends
    <3>4. /\ nodes[r.from].kind = "doc"
          /\ isPrivateNode(nodes[r.from]) <=> r.from \in Private
          /\ isPrivateNode(nodes[r.to]) <=> r.to \in Private
      BY <3>3, NodePrivate, Zenon
    <3>5. r.from \in Private \/ r.to \notin Private
      BY <3>2, <3>4
    <3> QED BY <3>2, <3>3, <3>5, RelationsAssumption DEF LetIn, Documents
  <2> HIDE DEF records
  <2> QED BY <2>1, <2>2, <2>3
<1>5. ASSUME NEW form, EditStore(form) PROVE RelationsInv'
  BY <1>5 DEF EditStore
<1>6. CASE UNCHANGED relationsVars
  BY <1>6 DEF relationsVars
<1> QED BY <1>1, <1>2, <1>3, <1>4, <1>5, <1>6 DEF RelationsNext, Documents

(* All a build's lint finds against what wiki_relate let in is that a      *)
(* document is gone, and no public document was ever said to have to do    *)
(* with the annex (entities.ts, wikiTools.ts), for any documents and any   *)
(* order of relates, builds, edits and removals.                           *)
THEOREM GateAlwaysAgrees == RelationsSpec => []GateAgreesWithLint
<1>1. RelationsInit => RelationsInv
  BY DEF RelationsInit, RelationsInv, RelationsTyped, RowsLetIn, Documents, NoSnapshot
<1>2. RelationsInv => GateAgreesWithLint
  BY DEF RelationsInv, RowsLetIn, LetIn, GateAgreesWithLint
<1> QED BY <1>1, <1>2, RelationsStep, PTL DEF RelationsSpec

(* WikiBundle. A path without ".." leads where it says (PlainNames), so the *)
(* links a document can hold are known by their targets (LinkAt), and each  *)
(* write is of an index, whose listing is a look at its directory           *)
(* (IndexWritten), or of a concept (ConceptWritten). The inductive          *)
(* invariant has four parts, a lemma each: what the writers hold on to is   *)
(* what a read of the bundle gives (BundleTyped); what the gate or an index *)
(* wrote leads nowhere private, nor does a copy the build will write back   *)
(* (BundleApart); a document that is not unlisted has its link in its       *)
(* directory's index, or its save will write it, and no index in the making *)
(* leaves it out (BundleListed); and a save stands on disk and in the       *)
(* build's copies but where the save came over the copy (BundleStands).     *)
LEMMA Least ==
  ASSUME NEW S, S \subseteq Nat, S # {}
  PROVE  \E i \in S : \A j \in S : i <= j
<1> DEFINE R == OpToRel(<, Nat)
<1>1. IsWellFoundedOn(R, Nat)
  BY NatLessThanWellFounded
<1>2. \A i, j \in Nat : <<j, i>> \notin R => i <= j
  BY DEF OpToRel
<1> HIDE DEF R
<1>3. PICK i \in S : \A j \in S : ~(<<j, i>> \in R)
  BY <1>1, WFMin
<1>4. \A j \in S : i <= j
  <2> TAKE j \in S
  <2>1. i \in Nat /\ j \in Nat /\ <<j, i>> \notin R
    BY <1>3
  <2> QED BY <2>1, <1>2
<1> QED BY <1>4

\* Counting up to n, from zero.
LEMMA Counting ==
  ASSUME NEW n \in Nat, NEW good, 0 \in good, \A i \in 0 .. n - 1 : i \in good => i + 1 \in good
  PROVE  \A i \in 0 .. n : i \in good
<1> DEFINE bad == {i \in 0 .. n : i \notin good}
<1>1. ASSUME bad # {} PROVE FALSE
  <2>0. bad \subseteq Nat
    OBVIOUS
  <2>1. PICK i \in bad : \A j \in bad : i <= j
    BY <1>1, <2>0, Least
  <2>2. i \in 0 .. n /\ i # 0 /\ i - 1 \in 0 .. n - 1 /\ i - 1 \notin bad
    BY <2>1
  <2> QED BY <2>1, <2>2
<1> QED BY <1>1

Names == {"guides", "private", "index.md", "a.md", "b.md", "x.md"}
PlainPaths == Seq(Names)
DocPaths == PlainPaths \ {<<>>}

\* A path without ".." is where it leads.
LEMMA PlainNames ==
  ASSUME NEW names \in PlainPaths
  PROVE  Normalized(names) = names
<1> DEFINE n == Len(names)
           Next(done, i) == IF names[i] # ".." THEN Append(done, names[i]) ELSE IF done = <<>> THEN <<>> ELSE Front(done)
           Is(m, f) == f = [i \in 0 .. m |-> IF i = 0 THEN <<>> ELSE Next(f[i - 1], i)]
           g == [i \in 0 .. n |-> SubSeq(names, 1, i)]
<1>1. n \in Nat /\ names \in Seq(Names) /\ \A i \in 1 .. n : names[i] # ".."
  BY DEF PlainPaths, Names
<1>2. Is(n, g)
  <2>1. g[0] = <<>>
    BY <1>1
  <2>2. \A i \in 1 .. n : SubSeq(names, 1, i) = Append(SubSeq(names, 1, i - 1), names[i])
    BY <1>1
  <2>3. \A i \in 1 .. n : g[i] = Next(g[i - 1], i)
    <3> TAKE i \in 1 .. n
    <3>1. i \in 0 .. n /\ i - 1 \in 0 .. n /\ names[i] # ".."
      BY <1>1
    <3>2. g[i] = Append(SubSeq(names, 1, i - 1), names[i]) /\ g[i - 1] = SubSeq(names, 1, i - 1)
      BY <2>2, <3>1
    <3> QED BY <3>1, <3>2
  <2>4. \A i \in 0 .. n : i = 0 \/ i \in 1 .. n
    BY <1>1
  <2>5. \A i \in 0 .. n : g[i] = IF i = 0 THEN <<>> ELSE Next(g[i - 1], i)
    BY <2>1, <2>3, <2>4
  <2>6. g = [i \in 0 .. n |-> g[i]]
    OBVIOUS
  <2> HIDE DEF g, Next
  <2> QED BY <2>5, <2>6
<1> DEFINE f == CHOOSE f : Is(n, f)
<1>3. Is(n, f)
  BY <1>2
<1>4. Normalized(names) = f[n]
  BY DEF Normalized
<1> HIDE DEF f, g
<1>5. \A i \in 0 .. n : f[i] = SubSeq(names, 1, i)
  <2> DEFINE good == {i \in Nat : i <= n => f[i] = SubSeq(names, 1, i)}
  <2>1. 0 \in good
    BY <1>1, <1>3
  <2>2. ASSUME NEW i \in 0 .. n - 1, i \in good PROVE i + 1 \in good
    <3>1. i + 1 \in 1 .. n /\ f[i] = SubSeq(names, 1, i) /\ (i + 1) - 1 = i /\ i + 1 \in Nat
      BY <1>1, <2>2
    <3>2. f[i + 1] = Append(f[i], names[i + 1])
      <4>1. f[i + 1] = Next(f[(i + 1) - 1], i + 1)
        <5>1. i + 1 \in 0 .. n /\ i + 1 # 0
          BY <3>1
        <5> HIDE DEF Next
        <5> QED BY <1>3, <5>1
      <4> QED BY <1>1, <3>1, <4>1
    <3>3. SubSeq(names, 1, i + 1) = Append(SubSeq(names, 1, i), names[i + 1])
      BY <1>1, <3>1
    <3> QED BY <3>1, <3>2, <3>3
  <2> HIDE DEF good
  <2>3. \A i \in 0 .. n : i \in good
    BY <1>1, <2>1, <2>2, Counting
  <2> QED BY <1>1, <2>3 DEF good
<1>6. SubSeq(names, 1, n) = names
  BY <1>1
<1> QED BY <1>1, <1>4, <1>5, <1>6

\* The paths of a bundle: a document's directory, a directory's index.
LEMMA IndexPath ==
  ASSUME NEW d \in PlainPaths
  PROVE  /\ IndexOf(d) \in DocPaths /\ dirname(IndexOf(d)) = d /\ basename(IndexOf(d)) = "index.md"
         /\ d # <<>> => (isPrivatePath(IndexOf(d)) <=> Head(d) = "private")
         /\ d = <<>> => ~isPrivatePath(IndexOf(d))
<1>1. d \in Seq(Names) /\ "index.md" \in Names
  BY DEF PlainPaths, Names
<1>2. /\ IndexOf(d) \in Seq(Names) /\ Len(IndexOf(d)) = Len(d) + 1 /\ IndexOf(d)[Len(d) + 1] = "index.md"
      /\ \A i \in 1 .. Len(d) : IndexOf(d)[i] = d[i]
  BY <1>1 DEF IndexOf
<1>3. dirname(IndexOf(d)) = d
  BY <1>1 DEF IndexOf, dirname, Front
<1>4. IndexOf(d) \in DocPaths
  BY <1>1, <1>2 DEF DocPaths, PlainPaths
<1>5. basename(IndexOf(d)) = "index.md"
  BY <1>1, <1>2 DEF basename, Last
<1>6. Head(IndexOf(d)) = IndexOf(d)[1]
  BY <1>2
<1> QED BY <1>1, <1>2, <1>3, <1>4, <1>5, <1>6 DEF isPrivatePath

LEMMA Fronts ==
  ASSUME NEW S, NEW p \in Seq(S), p # <<>>
  PROVE  /\ Front(p) \in Seq(S) /\ Len(p) \in Nat \ {0} /\ Len(Front(p)) = Len(p) - 1
         /\ \A i \in 1 .. Len(p) - 1 : Front(p)[i] = p[i]
<1>1. SubSeq(p, 1, Len(p) - 1) \in Seq(S)
  OBVIOUS
<1>2. Len(p) \in Nat \ {0}
  OBVIOUS
<1>3. Len(SubSeq(p, 1, Len(p) - 1)) = Len(p) - 1
  OBVIOUS
<1>4. \A i \in 1 .. Len(p) - 1 : SubSeq(p, 1, Len(p) - 1)[i] = p[i]
  OBVIOUS
<1> QED BY <1>1, <1>2, <1>3, <1>4 DEF Front

LEMMA DocPath ==
  ASSUME NEW p \in DocPaths
  PROVE  /\ dirname(p) \in PlainPaths /\ Len(p) \in Nat \ {0} /\ Len(dirname(p)) = Len(p) - 1
         /\ Len(p) > 1 => dirname(p) # <<>> /\ Head(dirname(p)) = Head(p)
<1>1. p \in Seq(Names) /\ p # <<>>
  BY DEF DocPaths, PlainPaths
<1>2. /\ Front(p) \in Seq(Names) /\ Len(p) \in Nat \ {0} /\ Len(Front(p)) = Len(p) - 1
      /\ \A i \in 1 .. Len(p) - 1 : Front(p)[i] = p[i]
  BY <1>1, Fronts
<1>3. dirname(p) = Front(p)
  BY DEF dirname
<1>4. ASSUME Len(p) > 1 PROVE Front(p) # <<>> /\ Head(Front(p)) = Head(p)
  <2>1. Len(Front(p)) > 0 /\ 1 \in 1 .. Len(p) - 1
    BY <1>2, <1>4
  <2> QED BY <1>1, <1>2, <2>1
<1> QED BY <1>2, <1>3, <1>4 DEF PlainPaths

LEMMA ThreePaths ==
  ASSUME NEW a \in Seq(Names), NEW b \in Seq(Names), NEW x \in Seq(Names), Len(a) = 2, a[2] = "a.md", Len(b) = 2, b[2] = "b.md",
         Len(x) = 2, x[2] = "x.md"
  PROVE  /\ {a, b, x} \subseteq DocPaths /\ a # b /\ a # x /\ b # x
         /\ \A p \in {a, b, x} : classifyDoc(p) = "concept" /\ Len(p) > 1 /\ basename(p) # "index.md"
<1>0. a # <<>> /\ b # <<>> /\ x # <<>>
  OBVIOUS
<1>5. Len(a) > 1 /\ Len(b) > 1 /\ Len(x) > 1
  OBVIOUS
<1>1. \A p \in {a, b, x} : p \in Seq(Names) /\ Len(p) > 1 /\ p # <<>>
  BY <1>0, <1>5, Zenon
<1>2. \A p \in {a, b, x} : p[Len(p)] # "index.md" /\ p[Len(p)] # "log.md"
  OBVIOUS
<1>3. \A p \in {a, b, x} : classifyDoc(p) = "concept" /\ basename(p) # "index.md"
  BY <1>2 DEF classifyDoc, basename, Last
<1> QED BY <1>1, <1>3 DEF DocPaths, PlainPaths

LEMMA ConceptPaths ==
  /\ Concepts \subseteq DocPaths /\ Generated \subseteq Concepts /\ A # B /\ A # X /\ B # X
  /\ \A p \in Concepts : classifyDoc(p) = "concept" /\ Len(p) > 1 /\ basename(p) # "index.md"
<1>1. A \in Seq(Names) /\ B \in Seq(Names) /\ X \in Seq(Names)
  BY DEF A, B, X, Names
<1>2. /\ Len(A) = 2 /\ A[2] = "a.md" /\ Len(B) = 2 /\ B[2] = "b.md" /\ Len(X) = 2 /\ X[2] = "x.md"
  BY DEF A, B, X
<1> QED BY <1>1, <1>2, ThreePaths DEF Concepts, Generated

\* The links a document of the bundle holds, and where they lead.
Links == {To(p) : p \in DocPaths} \cup {ToDir(d) : d \in PlainPaths}
IsText(text) == DOMAIN text = DOMAIN PlainText /\ text.links \subseteq Links
IsTexts(fs) == DOMAIN fs \subseteq DocPaths /\ \A p \in DOMAIN fs : IsText(fs[p])

LEMMA ToAt ==
  ASSUME NEW p
  PROVE  /\ \A q \in DocPaths : resolveLinkTarget(p, To(q)).kind = "internal" /\ At(p, To(q)) = q
         /\ \A d \in PlainPaths : resolveLinkTarget(p, ToDir(d)).kind = "internal" /\ At(p, ToDir(d)) = IndexOf(d)
<1>1. ASSUME NEW q \in DocPaths PROVE resolveLinkTarget(p, To(q)) = [kind |-> "internal", path |-> q]
  <2>1. To(q).sort = "absolute" /\ To(q).at = q /\ To(q).slash = FALSE
    BY DEF To, Target
  <2>2. Normalized(q) = q /\ q # <<>>
    BY PlainNames DEF DocPaths
  <2> QED BY <2>1, <2>2 DEF resolveLinkTarget
<1>2. ASSUME NEW d \in PlainPaths PROVE resolveLinkTarget(p, ToDir(d)) = [kind |-> "internal", path |-> IndexOf(d)]
  <2>1. ToDir(d).sort = "absolute" /\ ToDir(d).at = d /\ ToDir(d).slash = TRUE
    BY DEF ToDir, Target
  <2>2. Normalized(d) = d
    BY PlainNames
  <2> QED BY <2>1, <2>2 DEF resolveLinkTarget
<1> QED BY <1>1, <1>2 DEF At

LEMMA LinkAt ==
  ASSUME NEW p, NEW t \in Links
  PROVE  /\ resolveLinkTarget(p, t).kind = "internal" /\ At(p, t) \in DocPaths
         /\ (\E q \in DocPaths : t = To(q) /\ At(p, t) = q) \/ (\E d \in PlainPaths : t = ToDir(d) /\ At(p, t) = IndexOf(d))
<1>1. (\E q \in DocPaths : t = To(q)) \/ (\E d \in PlainPaths : t = ToDir(d))
  BY DEF Links
<1> QED BY <1>1, ToAt, IndexPath

LEMMA TextWith ==
  ASSUME NEW text, IsText(text), NEW links \in SUBSET Links
  PROVE  /\ IsText([text EXCEPT !.links = links]) /\ [text EXCEPT !.links = links].links = links
         /\ \A v : /\ IsText([text EXCEPT !.slot = v]) /\ [text EXCEPT !.slot = v].links = text.links
                   /\ [text EXCEPT !.slot = v].slot = v
                   /\ IsText([text EXCEPT !.slot = v, !.links = links])
                   /\ [text EXCEPT !.slot = v, !.links = links].links = links /\ [text EXCEPT !.slot = v, !.links = links].slot = v
<1>1. "links" \in DOMAIN text /\ "slot" \in DOMAIN text
  BY DEF IsText, PlainText
<1> QED BY <1>1 DEF IsText

LEMMA PlainIsText ==
  /\ IsText(PlainText) /\ PlainText.links = {} /\ PlainText.slot = "none"
  /\ \A v : /\ IsText([PlainText EXCEPT !.front = v]) /\ [PlainText EXCEPT !.front = v].links = {}
            /\ [PlainText EXCEPT !.front = v].slot = "none"
BY DEF IsText, PlainText

LinksTo(entries, subdirs) == {To(p) : p \in entries} \cup {ToDir(e) : e \in subdirs}

LEMMA ListingLinks ==
  ASSUME NEW fs, IsTexts(fs), NEW d \in PlainPaths, NEW look, look.entries \subseteq DocPaths, look.subdirs \subseteq PlainPaths
  PROVE  /\ IsText(Listing(fs, d, look))
         /\ Listing(fs, d, look).links = LinksTo(look.entries, look.subdirs)
<1> DEFINE old == IF IndexOf(d) \in DOMAIN fs THEN fs[IndexOf(d)] ELSE [PlainText EXCEPT !.front = "none"]
           links == LinksTo(look.entries, look.subdirs)
<1>1. IsText(old)
  BY PlainIsText DEF IsTexts
<1>2. links \in SUBSET Links
  BY DEF Links, LinksTo
<1>3. Listing(fs, d, look) = [old EXCEPT !.links = links]
  BY DEF Listing, LinksTo
<1> HIDE DEF old, links
<1>4. IsText([old EXCEPT !.links = links]) /\ [old EXCEPT !.links = links].links = links
  BY <1>1, <1>2, TextWith
<1> QED BY <1>3, <1>4 DEF links

\* A directory and what is in it are on one side of the annex's wall.
LEMMA SameSide ==
  ASSUME NEW d \in PlainPaths, d # <<>>
  PROVE  /\ \A p \in DocPaths : dirname(p) = d => (isPrivatePath(p) <=> isPrivatePath(IndexOf(d)))
         /\ \A e \in PlainPaths : Len(e) = Len(d) + 1 /\ Front(e) = d => (isPrivatePath(IndexOf(e)) <=> isPrivatePath(IndexOf(d)))
<1>0. d \in Seq(Names) /\ Len(d) \in Nat \ {0}
  BY DEF PlainPaths
<1>1. ASSUME NEW p \in DocPaths, dirname(p) = d PROVE Len(p) > 1 /\ Head(p) = Head(d)
  BY <1>0, <1>1, DocPath
<1>2. \A p \in DocPaths : dirname(p) = d => (isPrivatePath(p) <=> Head(d) = "private")
  BY <1>1 DEF isPrivatePath
<1>3. isPrivatePath(IndexOf(d)) <=> Head(d) = "private"
  BY IndexPath
<1>4. ASSUME NEW e \in PlainPaths, Len(e) = Len(d) + 1, Front(e) = d PROVE e # <<>> /\ Head(e) = Head(d)
  <2>1. e \in DocPaths /\ e # <<>> /\ Len(e) > 1 /\ dirname(e) = d
    <3>1. e \in Seq(Names) /\ Len(e) > 1
      BY <1>0, <1>4 DEF PlainPaths
    <3>2. e # <<>>
      BY <3>1
    <3> QED BY <1>4, <3>1, <3>2 DEF DocPaths, dirname
  <2> QED BY <2>1, <1>1
<1>5. \A e \in PlainPaths : Len(e) = Len(d) + 1 /\ Front(e) = d => (isPrivatePath(IndexOf(e)) <=> Head(e) = "private")
  BY <1>4, IndexPath
<1> QED BY <1>2, <1>3, <1>4, <1>5

\* The directories of a bundle's paths.
LEMMA DirsOf ==
  ASSUME NEW fs, IsTexts(fs)
  PROVE  /\ Dirs(fs) \subseteq PlainPaths
         /\ \A p \in DOMAIN fs : Len(p) > 1 => dirname(p) \in Dirs(fs)
<1>1. ASSUME NEW p \in DocPaths, NEW n \in 1 .. Len(p) - 1 PROVE SubSeq(p, 1, n) \in PlainPaths
  <2>1. p \in Seq(Names)
    BY DEF DocPaths, PlainPaths
  <2> QED BY <2>1 DEF PlainPaths
<1>2. Dirs(fs) \subseteq PlainPaths
  <2>1. \A d \in Dirs(fs) : \E p \in DOMAIN fs : \E n \in 1 .. Len(p) - 1 : d = SubSeq(p, 1, n)
    BY DEF Dirs
  <2> QED BY <1>1, <2>1, ZenonT(60) DEF IsTexts
<1>3. ASSUME NEW p \in DOMAIN fs, Len(p) > 1 PROVE dirname(p) \in Dirs(fs)
  <2>1. Len(p) - 1 \in 1 .. Len(p) - 1 /\ dirname(p) = SubSeq(p, 1, Len(p) - 1)
    BY <1>3, DocPath DEF IsTexts, dirname, Front
  <2> QED BY <2>1 DEF Dirs
<1> QED BY <1>2, <1>3

LEMMA OneLong ==
  ASSUME NEW S, NEW e \in Seq(S), Len(e) = 1
  PROVE  e # <<>> /\ \A v : e # <<v>> => Head(e) # v
<1>1. e # <<>> /\ Head(e) = e[1]
  OBVIOUS
<1>2. e = <<e[1]>>
  BY SeqEqual, ElementOfSeq
<1> QED BY <1>1, <1>2

\* The indexes are none of the documents, and one directory has one.
LEMMA IndexApart ==
  ASSUME NEW p \in Concepts
  PROVE  /\ p \in DocPaths /\ dirname(p) \in PlainPaths /\ dirname(p) # <<>> /\ IndexOf(dirname(p)) \in DocPaths
         /\ IndexOf(dirname(p)) \notin Concepts /\ dirname(IndexOf(dirname(p))) = dirname(p)
<1>1. p \in DocPaths /\ Len(p) > 1
  BY ConceptPaths
<1>2. dirname(p) \in PlainPaths /\ dirname(p) # <<>>
  BY <1>1, DocPath
<1>3. IndexOf(dirname(p)) \in DocPaths /\ basename(IndexOf(dirname(p))) = "index.md" /\ dirname(IndexOf(dirname(p))) = dirname(p)
  BY <1>2, IndexPath
<1> QED BY <1>1, <1>2, <1>3, ConceptPaths

\* What the lint's gate and the indexes keep of a set of files, those a
\* person or a fill wrote last left out; and where a document is listed.
Closed(fs, free) ==
  \A p \in DOMAIN fs \ free : ~isPrivatePath(p) => \A t \in fs[p].links : ~isPrivatePath(At(p, t))
ListedIn(fs, p) == IndexOf(dirname(p)) \in DOMAIN fs /\ To(p) \in fs[IndexOf(dirname(p))].links

\* What an index in the making knows of its directory: documents and
\* directories that are in it, and of the root's, nothing of the annex.
IsLook(d, look) ==
  /\ look.entries \subseteq DocPaths /\ \A p \in look.entries : dirname(p) = d
  /\ look.subdirs \subseteq PlainPaths /\ \A e \in look.subdirs : Len(e) = Len(d) + 1 /\ Front(e) = d
  /\ d = <<>> => look.entries = {} /\ <<"private">> \notin look.subdirs

LEMMA LookIsLook ==
  ASSUME NEW fs, IsTexts(fs), NEW d \in PlainPaths
  PROVE  /\ IsLook(d, Look(fs, d))
         /\ \A p \in DOMAIN fs \cap Concepts : dirname(p) = d => p \in Look(fs, d).entries
<1>1. ConceptsIn(fs, d) \subseteq DocPaths /\ \A p \in ConceptsIn(fs, d) : dirname(p) = d
  BY DEF ConceptsIn, docsInDirectory, IsTexts
<1>2. SubdirsOf(fs, d) \subseteq PlainPaths /\ \A e \in SubdirsOf(fs, d) : Len(e) = Len(d) + 1 /\ Front(e) = d
  BY DirsOf DEF SubdirsOf
<1>3. \A p \in DOMAIN fs \cap Concepts : dirname(p) = d => d # <<>> /\ p \in ConceptsIn(fs, d)
  BY IndexApart, ConceptPaths DEF ConceptsIn, docsInDirectory
<1>4. CASE d = <<>>
  <2>1. Look(fs, d).entries = {} /\ Look(fs, d).subdirs = SubdirsOf(fs, d) \ {<<"private">>}
    BY <1>4 DEF Look
  <2> QED BY <1>2, <1>3, <1>4, <2>1 DEF IsLook
<1>5. CASE d # <<>>
  <2>1. Look(fs, d).entries = ConceptsIn(fs, d) /\ Look(fs, d).subdirs = SubdirsOf(fs, d)
    BY <1>5 DEF Look
  <2> QED BY <1>1, <1>2, <1>3, <1>5, <2>1 DEF IsLook
<1> QED BY <1>4, <1>5

\* No public index leads into the annex.
LEMMA LookApart ==
  ASSUME NEW d \in PlainPaths, NEW look, IsLook(d, look), ~isPrivatePath(IndexOf(d)), NEW t \in LinksTo(look.entries, look.subdirs)
  PROVE  ~isPrivatePath(At(IndexOf(d), t))
<1>1. CASE \E p \in look.entries : t = To(p)
  <2>1. PICK p \in look.entries : t = To(p)
    BY <1>1
  <2>2. p \in DocPaths /\ dirname(p) = d /\ d # <<>> /\ At(IndexOf(d), t) = p
    BY <2>1, ToAt DEF IsLook
  <2> QED BY <2>2, SameSide
<1>2. CASE \E e \in look.subdirs : t = ToDir(e)
  <2>1. PICK e \in look.subdirs : t = ToDir(e)
    BY <1>2
  <2>2. e \in PlainPaths /\ Len(e) = Len(d) + 1 /\ Front(e) = d /\ At(IndexOf(d), t) = IndexOf(e)
    BY <2>1, ToAt DEF IsLook
  <2>3. CASE d # <<>>
    BY <2>2, <2>3, SameSide
  <2>4. CASE d = <<>>
    <3>1. Len(e) = 1 /\ e # <<"private">> /\ e \in Seq(Names)
      BY <2>1, <2>2, <2>4 DEF IsLook, PlainPaths
    <3>2. e # <<>> /\ Head(e) # "private"
      BY <3>1, OneLong
    <3> QED BY <2>2, <3>2, IndexPath
  <2> QED BY <2>3, <2>4
<1> QED BY <1>1, <1>2 DEF LinksTo

LEMMA Loaded ==
  ASSUME NEW fs
  PROVE  /\ DOMAIN loadVault(fs) = DOMAIN fs
         /\ \A p \in DOMAIN fs : /\ loadVault(fs)[p] = makeWikiDoc(p, fs[p])
                                 /\ loadVault(fs)[p].text = fs[p] /\ loadVault(fs)[p].isPrivate = isPrivatePath(p)
<1>1. DOMAIN loadVault(fs) = DOMAIN fs /\ \A p \in DOMAIN fs : loadVault(fs)[p] = makeWikiDoc(p, fs[p])
  BY DEF loadVault
<1>2. \A p \in DOMAIN fs : makeWikiDoc(p, fs[p]).text = fs[p] /\ makeWikiDoc(p, fs[p]).isPrivate = isPrivatePath(p)
  BY DEF makeWikiDoc
<1> QED BY <1>1, <1>2

\* What the gate lets through leads nowhere private.
LEMMA GateCloses ==
  ASSUME NEW fs, IsTexts(fs), NEW path \in DocPaths, NEW draft, IsText(draft), Gate(fs, path, draft) = {}
  PROVE  ~isPrivatePath(path) => \A t \in draft.links : ~isPrivatePath(At(path, t))
<1> DEFINE vault == loadVault(WriteDoc(fs, path, draft))
<1>1. SUFFICES ASSUME ~isPrivatePath(path), NEW t \in draft.links, isPrivatePath(At(path, t)) PROVE FALSE
  OBVIOUS
<1>2. vault[path].text = draft /\ vault[path].isPrivate = isPrivatePath(path)
  <2>1. path \in DOMAIN WriteDoc(fs, path, draft) /\ WriteDoc(fs, path, draft)[path] = draft
    BY DEF WriteDoc
  <2> DEFINE written == WriteDoc(fs, path, draft)
  <2> HIDE DEF written
  <2>2. loadVault(written)[path].text = written[path] /\ loadVault(written)[path].isPrivate = isPrivatePath(path)
    BY <2>1, Loaded DEF written
  <2> QED BY <2>1, <2>2 DEF written
<1> HIDE DEF vault
<1>3. t \in Internal(vault, path, vault[path].text.links)
  BY <1>2, LinkAt DEF IsText, Internal
<1>4. Finding("error", "private-closure", path) \in LintLink(vault, path, t)
  <2>1. ~vault[path].isPrivate
    BY <1>1, <1>2
  <2> QED BY <1>1, <2>1 DEF LintLink, If
<1>5. Finding("error", "private-closure", path) \in lintDoc(vault, path)
  BY <1>3, <1>4 DEF lintDoc
<1>6. Finding("error", "private-closure", path).severity = "error"
  BY DEF Finding
<1>7. Finding("error", "private-closure", path) \in Gate(fs, path, draft)
  BY <1>5, <1>6 DEF Gate, vault
<1> QED BY <1>7

\* An index written among the files, and a concept.
LEMMA IndexWritten ==
  ASSUME NEW fs, IsTexts(fs), NEW d \in PlainPaths, NEW look, IsLook(d, look)
  PROVE  /\ IsTexts(WriteDoc(fs, IndexOf(d), Listing(fs, d, look)))
         /\ \A free : Closed(fs, free) => Closed(WriteDoc(fs, IndexOf(d), Listing(fs, d, look)), free)
<1> DEFINE index == Listing(fs, d, look)
           new == WriteDoc(fs, IndexOf(d), index)
<1>1. IsText(index) /\ index.links = LinksTo(look.entries, look.subdirs)
  BY ListingLinks DEF IsLook
<1> HIDE DEF index
<1>2. /\ DOMAIN new = DOMAIN fs \cup {IndexOf(d)} /\ new[IndexOf(d)] = index
      /\ \A p \in DOMAIN fs \ {IndexOf(d)} : new[p] = fs[p]
  BY DEF WriteDoc
<1>3. IndexOf(d) \in DocPaths
  BY IndexPath
<1> HIDE DEF new
<1>4. IsTexts(new)
  BY <1>1, <1>2, <1>3 DEF IsTexts
<1>5. ASSUME NEW free, Closed(fs, free) PROVE Closed(new, free)
  <2>1. SUFFICES ASSUME NEW p \in DOMAIN new \ free, ~isPrivatePath(p), NEW t \in new[p].links PROVE ~isPrivatePath(At(p, t))
    BY DEF Closed
  <2>2. CASE p = IndexOf(d)
    BY <1>1, <1>2, <2>1, <2>2, LookApart
  <2>3. CASE p # IndexOf(d)
    BY <1>2, <1>5, <2>1, <2>3 DEF Closed
  <2> QED BY <2>2, <2>3
<1> QED BY <1>4, <1>5 DEF new, index

LEMMA IndexLists ==
  ASSUME NEW fs, IsTexts(fs), NEW d \in PlainPaths, NEW look, IsLook(d, look), NEW p \in Concepts,
         p \in look.entries \/ (dirname(p) # d /\ ListedIn(fs, p))
  PROVE  ListedIn(WriteDoc(fs, IndexOf(d), Listing(fs, d, look)), p)
<1> DEFINE index == Listing(fs, d, look)
           new == WriteDoc(fs, IndexOf(d), index)
<1>1. index.links = LinksTo(look.entries, look.subdirs)
  BY ListingLinks DEF IsLook
<1> HIDE DEF index
<1>2. /\ DOMAIN new = DOMAIN fs \cup {IndexOf(d)} /\ new[IndexOf(d)] = index
      /\ \A q \in DOMAIN fs \ {IndexOf(d)} : new[q] = fs[q]
  BY DEF WriteDoc
<1> HIDE DEF new
<1>3. ASSUME p \in look.entries PROVE ListedIn(new, p)
  <2>1. dirname(p) = d
    BY <1>3 DEF IsLook
  <2> QED BY <1>1, <1>2, <1>3, <2>1 DEF ListedIn, LinksTo
<1>4. ASSUME dirname(p) # d, ListedIn(fs, p) PROVE ListedIn(new, p)
  <2>1. IndexOf(dirname(p)) # IndexOf(d)
    BY <1>4, IndexApart, IndexPath
  <2> QED BY <1>2, <1>4, <2>1 DEF ListedIn
<1> QED BY <1>3, <1>4 DEF new, index

\* A concept's place is no index's.
LEMMA ConceptsStay ==
  ASSUME NEW fs, NEW d \in PlainPaths, NEW text, NEW p \in Concepts
  PROVE  /\ p \in DOMAIN WriteDoc(fs, IndexOf(d), text) <=> p \in DOMAIN fs
         /\ p \in DOMAIN fs => WriteDoc(fs, IndexOf(d), text)[p] = fs[p]
<1>1. p # IndexOf(d)
  BY IndexPath, ConceptPaths
<1> QED BY <1>1 DEF WriteDoc

LEMMA ConceptWritten ==
  ASSUME NEW fs, IsTexts(fs), NEW path \in Concepts, NEW text, IsText(text)
  PROVE  IsTexts(WriteDoc(fs, path, text))
BY ConceptPaths DEF IsTexts, WriteDoc

LEMMA ConceptGone ==
  ASSUME NEW fs, IsTexts(fs), NEW path
  PROVE  IsTexts(Without(fs, path))
BY DEF IsTexts, Without

\* Neither touches what an index lists.
LEMMA ListedStays ==
  ASSUME NEW fs, NEW path \in Concepts, NEW p \in Concepts, ListedIn(fs, p)
  PROVE  /\ \A text : ListedIn(WriteDoc(fs, path, text), p)
         /\ ListedIn(Without(fs, path), p)
<1>1. IndexOf(dirname(p)) # path
  BY IndexApart
<1> QED BY <1>1 DEF ListedIn, WriteDoc, Without

\* What a run of wiki_save holds on to: what the gate let through, and a
\* look at its directory that lists it.
IsSave(s) ==
  /\ DOMAIN s = {"at", "path", "draft", "written", "look"}
  /\ s.path \in Concepts /\ IsText(s.draft)
  /\ ~isPrivatePath(s.path) => \A t \in s.draft.links : ~isPrivatePath(At(s.path, t))
  /\ IsLook(dirname(s.path), s.look) /\ s.path \in s.look.entries
IsBuild(b) ==
  /\ DOMAIN b = DOMAIN Idle
  /\ IsTexts(b.held) /\ DOMAIN b.held \subseteq Concepts
  /\ \A d \in DOMAIN b.indexes : d \in PlainPaths /\ IsLook(d, b.indexes[d])
\* The least a save leaves of itself: its links, and its slot if it has one.
Keeps(text, old) == old.links \subseteq text.links /\ (old.slot # "none" => text.slot # "none")
LogApart(log) == \A entry \in log : entry[1] = "/log.md" => ~isPrivatePath(entry[2])

BundleTyped == IsTexts(files) /\ IsBuild(build) /\ (\A s \in saving : IsSave(s)) /\ DOMAIN saved \subseteq Concepts
BundleApart == Closed(files, loose) /\ (build.phase = "upsert" => Closed(build.held, build.lax)) /\ LogApart(logged)
BundleListed ==
  \A p \in (DOMAIN files \cap Concepts) \ unlisted :
    /\ ~MissedBy(saving, build.indexes, p)
    /\ ListedIn(files, p) \/ \E s \in saving : s.written /\ s.path = p
BundleStands ==
  \A p \in DOMAIN saved :
    /\ p \in DOMAIN files /\ Keeps(files[p], saved[p])
    /\ Held(p) /\ p \notin overtaken => p \in DOMAIN build.held /\ Keeps(build.held[p], saved[p])
BundleInv == BundleTyped /\ BundleApart /\ BundleListed /\ BundleStands

LEMMA SomeTexts ==
  /\ \A path : \A draft \in Drafts(path) : IsText(draft)
  /\ IsText([PlainText EXCEPT !.links = {To(X)}])
  /\ IsText([PlainText EXCEPT !.slot = "todo"]) /\ [PlainText EXCEPT !.slot = "todo"].links = {}
<1>1. To(X) \in Links /\ To(<<"private">>) \in Links
  <2>1. X \in DocPaths
    BY ConceptPaths DEF Concepts
  <2>2. <<"private">> \in Seq(Names)
    BY DEF Names
  <2>3. <<"private">> # <<>>
    OBVIOUS
  <2> QED BY <2>1, <2>2, <2>3 DEF Links, DocPaths, PlainPaths
<1>2. {To(X)} \in SUBSET Links /\ {To(<<"private">>)} \in SUBSET Links
  BY <1>1
<1>3. \A links \in SUBSET Links : IsText([PlainText EXCEPT !.links = links])
  BY PlainIsText, TextWith
<1>4. ASSUME NEW links \in SUBSET Links, NEW slot PROVE IsText([PlainText EXCEPT !.links = links, !.slot = slot])
  BY DEF IsText, PlainText
<1>5. ASSUME NEW path, NEW draft \in Drafts(path) PROVE IsText(draft)
  <2>1. CASE draft = [PlainText EXCEPT !.links = {To(<<"private">>)}, !.slot = IF path \in Generated THEN "none" ELSE "todo"]
    BY <1>2, <1>4, <2>1
  <2>2. CASE draft = [PlainText EXCEPT !.links = {To(X)}]
    BY <1>2, <1>3, <2>2
  <2>3. CASE draft = [PlainText EXCEPT !.front = "odd"]
    BY <2>3, PlainIsText
  <2> QED BY <2>1, <2>2, <2>3 DEF Drafts
<1>6. IsText([PlainText EXCEPT !.slot = "todo"]) /\ [PlainText EXCEPT !.slot = "todo"].links = {}
  BY DEF IsText, PlainText
<1> QED BY <1>2, <1>3, <1>5, <1>6

\* The records the writers work with.
LEMMA SaveGoesOn ==
  ASSUME NEW s, IsSave(s), NEW t, t = [s EXCEPT !.written = TRUE]
  PROVE  IsSave(t) /\ t.path = s.path /\ t.look = s.look /\ t.written
BY DEF IsSave

LEMMA BuildGoesOn ==
  ASSUME NEW b, IsBuild(b)
  PROVE  /\ \A v : /\ IsTexts(v) /\ DOMAIN v \subseteq Concepts =>
                        /\ IsBuild([b EXCEPT !.held = v]) /\ IsBuild([b EXCEPT !.held = v, !.touched = TRUE])
                        /\ IsBuild([b EXCEPT !.phase = "fill", !.held = v])
                   /\ [b EXCEPT !.held = v].held = v /\ [b EXCEPT !.held = v].phase = b.phase
                   /\ [b EXCEPT !.held = v].indexes = b.indexes
                   /\ [b EXCEPT !.held = v, !.touched = TRUE].held = v /\ [b EXCEPT !.held = v, !.touched = TRUE].phase = b.phase
                   /\ [b EXCEPT !.held = v, !.touched = TRUE].indexes = b.indexes
                   /\ [b EXCEPT !.phase = "fill", !.held = v].held = v /\ [b EXCEPT !.phase = "fill", !.held = v].phase = "fill"
                   /\ [b EXCEPT !.phase = "fill", !.held = v].indexes = b.indexes
         /\ \A v : /\ (\A d \in DOMAIN v : d \in PlainPaths /\ IsLook(d, v[d])) =>
                        IsBuild([b EXCEPT !.indexes = v]) /\ IsBuild([b EXCEPT !.phase = "indexes", !.indexes = v])
                   /\ [b EXCEPT !.indexes = v].indexes = v /\ [b EXCEPT !.indexes = v].held = b.held
                   /\ [b EXCEPT !.indexes = v].phase = b.phase
                   /\ [b EXCEPT !.phase = "indexes", !.indexes = v].indexes = v /\ [b EXCEPT !.phase = "indexes", !.indexes = v].held = b.held
                   /\ [b EXCEPT !.phase = "indexes", !.indexes = v].phase = "indexes"
<1>1. DOMAIN b = {"phase", "held", "lax", "touched", "indexes"}
  BY DEF IsBuild, Idle
<1> QED BY <1>1 DEF IsBuild, Idle

LEMMA BuildAnew ==
  /\ IsBuild(Idle) /\ Idle.held = <<>> /\ Idle.indexes = <<>> /\ Idle.phase = "idle"
  /\ \A build1 : build1 = [Idle EXCEPT !.phase = "look"] =>
       IsBuild(build1) /\ build1.held = <<>> /\ build1.indexes = <<>> /\ build1.phase = "look"
  /\ \A held, lax : IsTexts(held) /\ DOMAIN held \subseteq Concepts =>
       /\ IsBuild([Idle EXCEPT !.phase = "upsert", !.held = held, !.lax = lax])
       /\ [Idle EXCEPT !.phase = "upsert", !.held = held, !.lax = lax].held = held
       /\ [Idle EXCEPT !.phase = "upsert", !.held = held, !.lax = lax].lax = lax
       /\ [Idle EXCEPT !.phase = "upsert", !.held = held, !.lax = lax].indexes = <<>>
       /\ [Idle EXCEPT !.phase = "upsert", !.held = held, !.lax = lax].phase = "upsert"
BY DEF Idle, IsBuild, IsTexts

\* An edge of the graph that leads somewhere is a link of a document, to
\* where it leads or to the index of the directory it names bare.
LEMMA EdgeOfLink ==
  ASSUME NEW fs, IsTexts(fs), NEW e \in buildGraph(loadVault(fs)), e.resolved
  PROVE  \E t \in fs[e.source].links : /\ e.source \in DOMAIN fs
                                       /\ e.target = At(e.source, t) \/ e.target = IndexOf(At(e.source, t))
<1> DEFINE vault == loadVault(fs)
<1>1. DOMAIN vault = DOMAIN fs /\ \A p \in DOMAIN fs : vault[p].text = fs[p]
  BY Loaded
<1>2. PICK p \in DOMAIN vault : \E t \in Internal(vault, p, vault[p].text.links) : e \in Edges(vault, p, t)
  BY DEF buildGraph
<1> HIDE DEF vault
<1>3. PICK t \in Internal(vault, p, vault[p].text.links) : e \in Edges(vault, p, t)
  BY <1>2
<1>4. t \in fs[p].links
  BY <1>1, <1>3 DEF Internal
<1>5. e \in {Link(p, target, TRUE) : target \in lookupTarget(vault, At(p, t))} \/ e = Link(p, At(p, t), FALSE)
  BY <1>3 DEF Edges, If
<1>6. ~Link(p, At(p, t), FALSE).resolved
  BY DEF Link
<1>7. PICK target \in lookupTarget(vault, At(p, t)) : e = Link(p, target, TRUE)
  BY <1>5, <1>6
<1>8. e.source = p /\ e.target = target
  BY <1>7 DEF Link
<1>9. target = At(p, t) \/ target = IndexOf(At(p, t))
  BY <1>7 DEF lookupTarget
<1> QED BY <1>1, <1>4, <1>8, <1>9

\* A link that leads into the annex and names nothing private names its
\* directory bare.
LEMMA BareLink ==
  ASSUME NEW p, NEW t \in Links, ~isPrivatePath(At(p, t)), isPrivatePath(IndexOf(At(p, t)))
  PROVE  t = To(<<"private">>)
<1> DEFINE at == At(p, t)
<1>1. at \in DocPaths /\ at \in Seq(Names) /\ at # <<>> /\ at \in PlainPaths
  BY LinkAt DEF DocPaths, PlainPaths
<1>2. Head(at) = "private"
  BY <1>1, IndexPath
<1>3. Len(at) = 1
  <2>1. ~(Len(at) > 1)
    BY <1>2 DEF isPrivatePath
  <2>2. Len(at) \in Nat \ {0}
    BY <1>1, DocPath
  <2> HIDE DEF at
  <2> QED BY <2>1, <2>2
<1>4. at = <<"private">>
  BY <1>1, <1>2, <1>3, OneLong
<1>5. CASE \E q \in DocPaths : t = To(q) /\ at = q
  BY <1>4, <1>5
<1>6. CASE \E d \in PlainPaths : t = ToDir(d) /\ at = IndexOf(d)
  <2>1. PICK d \in PlainPaths : at = IndexOf(d)
    BY <1>6
  <2>2. basename(at) = "index.md"
    BY <2>1, IndexPath
  <2>3. basename(<<"private">>) = "private"
    BY DEF basename, Last
  <2> QED BY <1>4, <2>2, <2>3
<1> QED BY <1>5, <1>6, LinkAt

\* A document's index lists it for the lint when it has a link to it.
LEMMA ListedByLink ==
  ASSUME NEW fs, IsTexts(fs), NEW p \in DOMAIN fs \cap Concepts, ListedIn(fs, p)
  PROVE  IndexOf(dirname(p)) \in DOMAIN fs /\ p \in Listed(loadVault(fs), IndexOf(dirname(p)))
<1> DEFINE index == IndexOf(dirname(p))
           vault == loadVault(fs)
<1>1. index \in DOMAIN fs /\ To(p) \in fs[index].links
  BY DEF ListedIn
<1>2. vault[index].text = fs[index] /\ p \in DOMAIN vault
  BY <1>1, Loaded
<1> HIDE DEF vault, index
<1>3. To(p) \in Internal(vault, index, vault[index].text.links) /\ At(index, To(p)) = p
  BY <1>1, <1>2, ToAt, ConceptPaths DEF Internal
<1>4. lookupTarget(vault, p) = {p}
  BY <1>2 DEF lookupTarget
<1>5. p \in Listed(vault, index)
  BY <1>3, <1>4 DEF Listed
<1> QED BY <1>1, <1>5 DEF vault, index

\* What a build writes back of its copies.
LEMMA UpsertText ==
  ASSUME IsBuild(build), NEW path \in Generated
  PROVE  /\ IsText(Upserted(path))
         /\ path \in DOMAIN build.held => Upserted(path).links = build.held[path].links /\ Keeps(Upserted(path), build.held[path])
         /\ path \notin DOMAIN build.held => Upserted(path).links = {}
<1>1. CASE path \in DOMAIN build.held
  <2> DEFINE text == build.held[path]
  <2>1. IsText(text) /\ Upserted(path) = Refreshed(text)
    BY <1>1 DEF IsBuild, IsTexts, Upserted
  <2> HIDE DEF text
  <2>2. IsText(Refreshed(text)) /\ Refreshed(text).links = text.links /\ (text.slot # "none" => Refreshed(text).slot # "none")
    BY <2>1 DEF Refreshed, IsText, PlainText
  <2> QED BY <1>1, <2>1, <2>2 DEF Keeps, text
<1>2. CASE path \notin DOMAIN build.held
  <2>1. Upserted(path) = [PlainText EXCEPT !.slot = "todo"]
    BY <1>2 DEF Upserted
  <2> QED BY <1>2, <2>1, SomeTexts
<1> QED BY <1>1, <1>2

LEMMA FilledText ==
  ASSUME NEW old, IsText(old), NEW text, text = [old EXCEPT !.slot = "filled", !.links = @ \cup {To(X)}]
  PROVE  IsText(text) /\ Keeps(text, old)
<1>1. DOMAIN old = DOMAIN PlainText /\ "links" \in DOMAIN old /\ "slot" \in DOMAIN old
  BY DEF IsText, PlainText
<1>2. DOMAIN text = DOMAIN old /\ text.links = old.links \cup {To(X)} /\ text.slot = "filled"
  BY <1>1
<1>3. To(X) \in Links
  BY ConceptPaths DEF Links, Concepts
<1> QED BY <1>1, <1>2, <1>3 DEF IsText, Keeps

LEMMA LooksAreLooks ==
  ASSUME NEW fs, IsTexts(fs)
  PROVE  /\ \A d \in DOMAIN Looks(fs) : d \in PlainPaths /\ Looks(fs)[d] = Look(fs, d) /\ IsLook(d, Looks(fs)[d])
         /\ \A p \in DOMAIN fs \cap Concepts : dirname(p) \in DOMAIN Looks(fs) => p \in Looks(fs)[dirname(p)].entries
<1>1. DOMAIN Looks(fs) = Dirs(fs) \cup {<<>>} /\ \A d \in DOMAIN Looks(fs) : Looks(fs)[d] = Look(fs, d)
  BY DEF Looks
<1>2. <<>> \in PlainPaths
  BY DEF PlainPaths
<1>3. DOMAIN Looks(fs) \subseteq PlainPaths
  BY <1>1, <1>2, DirsOf
<1> QED BY <1>1, <1>3, LookIsLook

LEMMA ReadSave ==
  ASSUME BundleTyped, NEW path \in Concepts, NEW draft \in Drafts(path), Gate(files, path, draft) = {}, NEW at, NEW s,
         s = [at |-> at, path |-> path, draft |-> draft, written |-> FALSE, look |-> [entries |-> Siblings(files, path), subdirs |-> {}]]
  PROVE  /\ IsSave(s) /\ s.path = path /\ ~s.written
         /\ \A p \in DOMAIN files \cap Concepts : dirname(p) = dirname(path) => p \in s.look.entries
<1>1. path \in DocPaths /\ dirname(path) # <<>>
  BY IndexApart
<1>2. IsText(draft) /\ (~isPrivatePath(path) => \A t \in draft.links : ~isPrivatePath(At(path, t)))
  BY <1>1, SomeTexts, GateCloses DEF BundleTyped
<1>3. /\ Siblings(files, path) \subseteq DocPaths /\ path \in Siblings(files, path) /\ \A p \in Siblings(files, path) : dirname(p) = dirname(path)
      /\ \A p \in DOMAIN files \cap Concepts : dirname(p) = dirname(path) => p \in Siblings(files, path)
  BY <1>1, ConceptPaths DEF BundleTyped, IsTexts, Siblings, ConceptsIn, docsInDirectory
<1>4. s.look.entries = Siblings(files, path) /\ s.look.subdirs = {}
  OBVIOUS
<1>5. IsLook(dirname(path), s.look)
  BY <1>1, <1>3, <1>4 DEF IsLook
<1> QED BY <1>2, <1>3, <1>4, <1>5 DEF IsSave

\* A copy the build writes back changes one concept.
LEMMA WrittenBack ==
  ASSUME BundleTyped, NEW path \in Concepts, NEW text, IsText(text), WriteBack(path, text)
  PROVE  /\ IsTexts(files') /\ DOMAIN files' = DOMAIN files \cup {path} /\ files'[path] = text
         /\ \A p \in DOMAIN files \ {path} : files'[p] = files[p]
         /\ \A p \in Concepts : ListedIn(files, p) => ListedIn(files', p)
         /\ DOMAIN saved' \subseteq DOMAIN saved /\ \A p \in DOMAIN saved' : saved'[p] = saved[p]
         /\ path \in overtaken => path \notin DOMAIN saved'
         /\ overtaken' = overtaken \ {path}
         /\ unlisted \subseteq unlisted' /\ (path \notin DOMAIN files => path \in unlisted')
<1>1. files' = WriteDoc(files, path, text)
  BY DEF WriteBack
<1>2. IsTexts(files')
  BY <1>1, ConceptWritten DEF BundleTyped
<1>3. /\ DOMAIN files' = DOMAIN files \cup {path} /\ files'[path] = text
      /\ \A p \in DOMAIN files \ {path} : files'[p] = files[p]
  BY <1>1 DEF WriteDoc
<1>4. \A p \in Concepts : ListedIn(files, p) => ListedIn(files', p)
  BY <1>1, ListedStays
<1> QED BY <1>2, <1>3, <1>4 DEF WriteBack, Without

LEMMA TypedStep ==
  ASSUME BundleTyped, [BundleNext]_bundleVars
  PROVE  BundleTyped'
<1>0. IsTexts(files) /\ IsBuild(build) /\ (\A s \in saving : IsSave(s)) /\ DOMAIN saved \subseteq Concepts
  BY DEF BundleTyped
<1>1. ASSUME NEW path \in Concepts, NEW draft \in Drafts(path), SaveReads(path, draft) PROVE BundleTyped'
  <2>1. \A s \in saving' : IsSave(s)
    BY <1>0, <1>1, ReadSave DEF SaveReads
  <2> QED BY <1>0, <1>1, <2>1 DEF SaveReads, BundleTyped
<1>2. ASSUME NEW s \in saving, SaveWrites(s) PROVE BundleTyped'
  <2>1. IsSave(s) /\ s.path \in Concepts /\ IsText(s.draft)
    BY <1>0 DEF IsSave
  <2>2. IsTexts(files')
    BY <1>0, <1>2, <2>1, ConceptWritten DEF SaveWrites
  <2>3. \A t \in saving' : IsSave(t)
    BY <1>0, <1>2, <2>1, SaveGoesOn DEF SaveWrites
  <2>4. DOMAIN saved' \subseteq Concepts
    BY <1>0, <1>2, <2>1 DEF SaveWrites, WriteDoc
  <2> QED BY <1>0, <1>2, <2>2, <2>3, <2>4 DEF SaveWrites, BundleTyped
<1>3. ASSUME NEW s \in saving, SaveIndexes(s) PROVE BundleTyped'
  <2>1. dirname(s.path) \in PlainPaths /\ IsLook(dirname(s.path), s.look)
    BY <1>0, IndexApart DEF IsSave
  <2>2. IsTexts(files')
    BY <1>0, <1>3, <2>1, IndexWritten DEF SaveIndexes
  <2> QED BY <1>0, <1>3, <2>2 DEF SaveIndexes, BundleTyped
<1>4. ASSUME NEW s \in saving, SaveDies(s) PROVE BundleTyped'
  BY <1>0, <1>4 DEF SaveDies, BundleTyped
<1>5. ASSUME NEW path \in Concepts, EditByHand(path, [PlainText EXCEPT !.links = {To(X)}]) PROVE BundleTyped'
  <2>1. IsTexts(files')
    BY <1>0, <1>5, SomeTexts, ConceptWritten DEF EditByHand
  <2> QED BY <1>0, <1>5, <2>1 DEF EditByHand, Without, BundleTyped
<1>6. ASSUME NEW path \in Concepts, RemoveByHand(path) PROVE BundleTyped'
  <2>1. IsTexts(files')
    BY <1>0, <1>6, ConceptGone DEF RemoveByHand
  <2> QED BY <1>0, <1>6, <2>1 DEF RemoveByHand, Without, BundleTyped
<1>7. CASE BuildReads
  <2> DEFINE held == [p \in Generated \cap DOMAIN files |-> files[p]]
  <2>1. IsTexts(held) /\ DOMAIN held \subseteq Concepts
    BY <1>0, ConceptPaths DEF IsTexts
  <2>2. build' = [Idle EXCEPT !.phase = "upsert", !.held = held, !.lax = loose \cap Generated]
    BY <1>7 DEF BuildReads
  <2> HIDE DEF held
  <2>3. IsBuild(build')
    BY <2>1, <2>2, BuildAnew
  <2> QED BY <1>0, <1>7, <2>3 DEF BuildReads, BundleTyped
<1>8. CASE BuildUpserts
  <2>1. PICK path \in Generated : WriteBack(path, Upserted(path))
    BY <1>8 DEF BuildUpserts
  <2>2. IsTexts(files') /\ DOMAIN saved' \subseteq DOMAIN saved
    BY <1>0, <2>1, UpsertText, WrittenBack, ConceptPaths
  <2>3. IsBuild(build')
    BY <1>8, BuildAnew DEF BuildUpserts
  <2> QED BY <1>0, <1>8, <2>2, <2>3 DEF BuildUpserts, BundleTyped
<1>9. CASE NothingToUpsert
  <2>1. IsBuild(build')
    BY <1>9, BuildAnew DEF NothingToUpsert
  <2> QED BY <1>0, <1>9, <2>1 DEF NothingToUpsert, BundleTyped
<1>10. CASE RefreshReads
  <2>1. IsBuild(build')
    BY <1>0, <1>10, BuildGoesOn, LooksAreLooks DEF RefreshReads
  <2> QED BY <1>0, <1>10, <2>1 DEF RefreshReads, BundleTyped
<1>11. ASSUME NEW dir \in DOMAIN build.indexes, RefreshWrites(dir) PROVE BundleTyped'
  <2>1. dir \in PlainPaths /\ IsLook(dir, build.indexes[dir])
    BY <1>0 DEF IsBuild
  <2>2. IsTexts(files')
    BY <1>0, <1>11, <2>1, IndexWritten DEF RefreshWrites
  <2>3. \A d \in DOMAIN Without(build.indexes, dir) : d \in PlainPaths /\ IsLook(d, Without(build.indexes, dir)[d])
    BY <1>0 DEF IsBuild, Without
  <2>4. IsBuild(build')
    BY <1>0, <1>11, <2>3, BuildGoesOn DEF RefreshWrites
  <2> QED BY <1>0, <1>11, <2>2, <2>4 DEF RefreshWrites, BundleTyped
<1>12. CASE FillReads
  <2> DEFINE held == [p \in candidates(files) |-> files[p]]
  <2>1. IsTexts(held) /\ DOMAIN held \subseteq Concepts
    BY <1>0 DEF IsTexts, candidates
  <2>2. build' = [build EXCEPT !.phase = "fill", !.held = held]
    BY <1>12 DEF FillReads
  <2> HIDE DEF held
  <2>3. IsBuild(build')
    BY <1>0, <2>1, <2>2, BuildGoesOn
  <2> QED BY <1>0, <1>12, <2>3 DEF FillReads, BundleTyped
<1>13. ASSUME NEW path \in DOMAIN build.held PROVE IsTexts(Without(build.held, path)) /\ DOMAIN Without(build.held, path) \subseteq Concepts
  BY <1>0 DEF IsBuild, IsTexts, Without
<1>14. ASSUME NEW path \in DOMAIN build.held, SlotFails(path) PROVE BundleTyped'
  <2>1. build' = [build EXCEPT !.held = Without(build.held, path)]
    BY <1>14 DEF SlotFails
  <2>2. IsBuild(build')
    BY <1>0, <1>13, <2>1, BuildGoesOn
  <2> QED BY <1>0, <1>14, <2>2 DEF SlotFails, BundleTyped
<1>15. ASSUME NEW path \in DOMAIN build.held, SlotFilled(path) PROVE BundleTyped'
  <2>1. /\ build' = [build EXCEPT !.held = Without(build.held, path), !.touched = TRUE]
        /\ WriteBack(path, [build.held[path] EXCEPT !.slot = "filled", !.links = @ \cup {To(X)}])
    BY <1>15 DEF SlotFilled
  <2>2. IsBuild(build')
    BY <1>0, <1>13, <2>1, BuildGoesOn
  <2>3. path \in Concepts /\ IsText(build.held[path])
    BY <1>0 DEF IsBuild, IsTexts
  <2>4. IsTexts(files') /\ DOMAIN saved' \subseteq DOMAIN saved
    BY <2>1, <2>3, FilledText, WrittenBack
  <2> QED BY <1>0, <1>15, <2>2, <2>4 DEF SlotFilled, BundleTyped
<1>16. CASE BuildEnds \/ BuildDies
  BY <1>0, <1>16, BuildAnew DEF BuildEnds, BuildDies, BundleTyped
<1>17. CASE UNCHANGED bundleVars
  BY <1>0, <1>17 DEF bundleVars, BundleTyped
<1> QED BY <1>1, <1>2, <1>3, <1>4, <1>5, <1>6, <1>7, <1>8, <1>9, <1>10, <1>11, <1>12, <1>14, <1>15, <1>16, <1>17 DEF BundleNext

LEMMA ApartStep ==
  ASSUME BundleTyped, BundleApart, [BundleNext]_bundleVars
  PROVE  BundleApart'
<1>0. /\ IsTexts(files) /\ IsBuild(build) /\ \A s \in saving : IsSave(s)
      /\ Closed(files, loose) /\ (build.phase = "upsert" => Closed(build.held, build.lax)) /\ LogApart(logged)
  BY DEF BundleTyped, BundleApart
<1>1. ASSUME NEW path \in Concepts, NEW draft \in Drafts(path), SaveReads(path, draft) PROVE BundleApart'
  BY <1>0, <1>1 DEF SaveReads, BundleApart
<1>2. ASSUME NEW s \in saving, SaveWrites(s) PROVE BundleApart'
  <2>1. ~isPrivatePath(s.path) => \A t \in s.draft.links : ~isPrivatePath(At(s.path, t))
    BY <1>0 DEF IsSave
  <2>2. files' = WriteDoc(files, s.path, s.draft) /\ loose' = loose \ {s.path}
    BY <1>2 DEF SaveWrites
  <2>3. Closed(files', loose')
    BY <1>0, <2>1, <2>2 DEF Closed, WriteDoc
  <2> QED BY <1>0, <1>2, <2>3 DEF SaveWrites, BundleApart
<1>3. ASSUME NEW s \in saving, SaveIndexes(s) PROVE BundleApart'
  <2>1. dirname(s.path) \in PlainPaths /\ IsLook(dirname(s.path), s.look)
    BY <1>0, IndexApart DEF IsSave
  <2>2. Closed(files', loose)
    BY <1>0, <1>3, <2>1, IndexWritten DEF SaveIndexes
  <2>3. LogApart(logged')
    BY <1>0, <1>3 DEF SaveIndexes, LogApart, logTargetFor
  <2> QED BY <1>0, <1>3, <2>2, <2>3 DEF SaveIndexes, BundleApart
<1>4. ASSUME NEW s \in saving, SaveDies(s) PROVE BundleApart'
  BY <1>0, <1>4 DEF SaveDies, BundleApart
<1>5. ASSUME NEW path \in Concepts, NEW draft, EditByHand(path, draft) PROVE BundleApart'
  <2>1. files' = WriteDoc(files, path, draft) /\ loose' = loose \cup {path}
    BY <1>5 DEF EditByHand
  <2>2. Closed(files', loose')
    BY <1>0, <2>1 DEF Closed, WriteDoc
  <2> QED BY <1>0, <1>5, <2>2 DEF EditByHand, BundleApart
<1>6. ASSUME NEW path \in Concepts, RemoveByHand(path) PROVE BundleApart'
  <2>1. files' = Without(files, path) /\ loose' = loose \ {path}
    BY <1>6 DEF RemoveByHand
  <2>2. Closed(files', loose')
    BY <1>0, <2>1 DEF Closed, Without
  <2> QED BY <1>0, <1>6, <2>2 DEF RemoveByHand, BundleApart
<1>7. CASE BuildReads
  <2> DEFINE held == [p \in Generated \cap DOMAIN files |-> files[p]]
  <2>2. build' = [Idle EXCEPT !.phase = "upsert", !.held = held, !.lax = loose \cap Generated]
    BY <1>7 DEF BuildReads
  <2>3. Closed(held, loose \cap Generated)
    BY <1>0 DEF Closed
  <2> HIDE DEF held
  <2>4. build'.held = held /\ build'.lax = loose \cap Generated
    BY <2>2 DEF Idle
  <2> QED BY <1>0, <1>7, <2>3, <2>4 DEF BuildReads, BundleApart
<1>8. CASE BuildUpserts
  <2>1. PICK path \in Generated : WriteBack(path, Upserted(path)) /\ loose' = (loose \ {path}) \cup build.lax
    BY <1>8 DEF BuildUpserts
  <2>2. files' = WriteDoc(files, path, Upserted(path))
    BY <2>1 DEF WriteBack
  <2>3. Closed(build.held, build.lax) /\ build'.phase # "upsert" /\ logged' = logged
    BY <1>0, <1>8, BuildAnew DEF BuildUpserts
  <2>4. ASSUME path \notin build.lax, ~isPrivatePath(path), NEW t \in Upserted(path).links PROVE ~isPrivatePath(At(path, t))
    BY <1>0, <2>3, <2>4, UpsertText DEF Closed
  <2>5. Closed(files', loose')
    <3>1. SUFFICES ASSUME NEW p \in DOMAIN files' \ loose', ~isPrivatePath(p), NEW t \in files'[p].links PROVE ~isPrivatePath(At(p, t))
      BY DEF Closed
    <3>2. CASE p = path
      BY <2>1, <2>2, <2>4, <3>1, <3>2 DEF WriteDoc
    <3>3. CASE p # path
      BY <1>0, <2>1, <2>2, <3>1, <3>3 DEF WriteDoc, Closed
    <3> QED BY <3>2, <3>3
  <2> QED BY <1>0, <2>3, <2>5 DEF BundleApart
<1>9. CASE NothingToUpsert
  <2>1. build'.phase # "upsert"
    BY <1>9, BuildAnew DEF NothingToUpsert
  <2> QED BY <1>0, <1>9, <2>1 DEF NothingToUpsert, BundleApart
<1>10. CASE RefreshReads
  <2>1. build'.phase # "upsert"
    BY <1>0, <1>10, BuildGoesOn DEF RefreshReads
  <2> QED BY <1>0, <1>10, <2>1 DEF RefreshReads, BundleApart
<1>11. ASSUME NEW dir \in DOMAIN build.indexes, RefreshWrites(dir) PROVE BundleApart'
  <2>1. dir \in PlainPaths /\ IsLook(dir, build.indexes[dir])
    BY <1>0 DEF IsBuild
  <2>2. Closed(files', loose)
    BY <1>0, <1>11, <2>1, IndexWritten DEF RefreshWrites
  <2>3. build'.phase # "upsert"
    BY <1>0, <1>11, BuildGoesOn DEF RefreshWrites
  <2> QED BY <1>0, <1>11, <2>2, <2>3 DEF RefreshWrites, BundleApart
<1>12. CASE FillReads
  <2>1. build'.phase # "upsert"
    BY <1>0, <1>12, BuildGoesOn DEF FillReads
  <2> QED BY <1>0, <1>12, <2>1 DEF FillReads, BundleApart
<1>13. ASSUME NEW path \in DOMAIN build.held, SlotFails(path) PROVE BundleApart'
  <2>1. build'.phase # "upsert"
    BY <1>0, <1>13, BuildGoesOn DEF SlotFails
  <2> QED BY <1>0, <1>13, <2>1 DEF SlotFails, BundleApart
<1>14. ASSUME NEW path \in DOMAIN build.held, SlotFilled(path) PROVE BundleApart'
  <2>0. build.phase = "fill" /\ build' = [build EXCEPT !.held = Without(build.held, path), !.touched = TRUE]
    BY <1>14 DEF SlotFilled
  <2>1. build'.phase # "upsert"
    BY <1>0, <2>0 DEF IsBuild, Idle
  <2>2. PICK text : files' = WriteDoc(files, path, text)
    BY <1>14 DEF SlotFilled, WriteBack
  <2>3. Closed(files', loose')
    BY <1>0, <1>14, <2>2 DEF SlotFilled, Closed, WriteDoc
  <2> QED BY <1>0, <1>14, <2>1, <2>3 DEF SlotFilled, BundleApart
<1>15. CASE BuildEnds \/ BuildDies
  <2>1. build'.phase # "upsert"
    BY <1>15, BuildAnew DEF BuildEnds, BuildDies
  <2> QED BY <1>0, <1>15, <2>1 DEF BuildEnds, BuildDies, BundleApart
<1>16. CASE UNCHANGED bundleVars
  BY <1>0, <1>16 DEF bundleVars, BundleApart
<1> QED BY <1>1, <1>2, <1>3, <1>4, <1>5, <1>6, <1>7, <1>8, <1>9, <1>10, <1>11, <1>12, <1>13, <1>14, <1>15, <1>16 DEF BundleNext

\* What fewer writers miss, with fewer indexes to write.
LEMMA MissedLess ==
  ASSUME NEW saves, NEW fewer \in SUBSET saves, NEW indexes, NEW p, ~MissedBy(saves, indexes, p)
  PROVE  ~MissedBy(fewer, indexes, p) /\ ~MissedBy(saves, <<>>, p) /\ \A d : ~MissedBy(saves, Without(indexes, d), p)
BY DEF MissedBy, Without

LEMMA ListedStep ==
  ASSUME BundleTyped, BundleListed, [BundleNext]_bundleVars
  PROVE  BundleListed'
<1> DEFINE Due(fs, saves, indexes, p) ==
             ~MissedBy(saves, indexes, p) /\ (ListedIn(fs, p) \/ \E s \in saves : s.written /\ s.path = p)
<1>0. /\ IsTexts(files) /\ IsBuild(build) /\ \A s \in saving : IsSave(s)
      /\ \A p \in Concepts : p \in DOMAIN files /\ p \notin unlisted => Due(files, saving, build.indexes, p)
  BY DEF BundleTyped, BundleListed
<1>00. SUFFICES ASSUME NEW p \in Concepts, p \in DOMAIN files', p \notin unlisted' PROVE Due(files', saving', build'.indexes, p)
  BY DEF BundleListed
<1> USE <1>00
<1> DEFINE Holds == Due(files', saving', build'.indexes, p)
<1>1. ASSUME NEW path \in Concepts, NEW draft \in Drafts(path), SaveReads(path, draft) PROVE Holds
  <2> DEFINE s == [at |-> writes, path |-> path, draft |-> draft, written |-> FALSE,
                   look |-> [entries |-> Siblings(files, path), subdirs |-> {}]]
  <2>1. /\ Gate(files, path, draft) = {} /\ saving' = saving \cup {s}
        /\ files' = files /\ unlisted' = unlisted /\ build' = build
    BY <1>1 DEF SaveReads
  <2>2. s.path = path /\ (dirname(p) = dirname(path) => p \in s.look.entries)
    BY <2>1, ReadSave
  <2> HIDE DEF s
  <2> QED BY <1>0, <2>1, <2>2 DEF MissedBy, Misses
<1>2. ASSUME NEW s \in saving, SaveWrites(s) PROVE Holds
  <2> DEFINE t == [s EXCEPT !.written = TRUE]
  <2>1. /\ ~s.written /\ files' = WriteDoc(files, s.path, s.draft) /\ saving' = (saving \ {s}) \cup {t} /\ build' = build
        /\ unlisted' = IF s.path \notin DOMAIN files /\ MissedBy(saving \ {s}, build.indexes, s.path)
                       THEN unlisted \cup {s.path} ELSE unlisted
    BY <1>2 DEF SaveWrites
  <2>2. IsSave(s) /\ t.path = s.path /\ t.look = s.look /\ t.written
    BY <1>0, SaveGoesOn
  <2> HIDE DEF t
  <2>3. s.path \in Concepts /\ s.path \in s.look.entries
    BY <2>2 DEF IsSave
  <2>4. MissedBy(saving', build.indexes, p) <=> MissedBy(saving, build.indexes, p)
    BY <2>1, <2>2 DEF MissedBy
  <2>5. CASE p \in DOMAIN files
    <3>1. Due(files, saving, build.indexes, p)
      BY <1>0, <2>1, <2>5
    <3>2. ListedIn(files, p) => ListedIn(files', p)
      BY <2>1, <2>3, ListedStays
    <3>3. (\E u \in saving : u.written /\ u.path = p) => \E u \in saving' : u.written /\ u.path = p
      BY <2>1
    <3> QED BY <2>1, <2>4, <3>1, <3>2, <3>3
  <2>6. CASE p \notin DOMAIN files
    <3>1. p = s.path
      BY <2>1, <2>6 DEF WriteDoc
    <3>2. ~MissedBy(saving \ {s}, build.indexes, p)
      BY <2>1, <2>6, <3>1
    <3>3. ~MissedBy(saving', build.indexes, p)
      BY <2>1, <2>2, <2>3, <3>1, <3>2 DEF MissedBy, Misses
    <3> QED BY <2>1, <2>2, <3>1, <3>3
  <2> QED BY <2>5, <2>6
<1>3. ASSUME NEW s \in saving, SaveIndexes(s) PROVE Holds
  <2> DEFINE d == dirname(s.path)
  <2>1. /\ files' = WriteDoc(files, IndexOf(d), Listing(files, d, s.look)) /\ saving' = saving \ {s} /\ build' = build
        /\ unlisted' = unlisted \ ListedFor(s.look, saving \ {s}, build.indexes)
    BY <1>3 DEF SaveIndexes
  <2>2. IsSave(s) /\ d \in PlainPaths
    BY <1>0, IndexApart DEF IsSave
  <2>3. IsLook(d, s.look)
    BY <2>2 DEF IsSave
  <2> HIDE DEF d
  <2>4. p \in DOMAIN files
    BY <2>1, <2>2, ConceptsStay
  <2>5. CASE p \in unlisted
    <3>1. p \in s.look.entries /\ ~MissedBy(saving \ {s}, build.indexes, p)
      BY <2>1, <2>5 DEF ListedFor
    <3>2. ListedIn(files', p)
      BY <1>0, <2>1, <2>2, <2>3, <3>1, IndexLists
    <3> QED BY <2>1, <3>1, <3>2
  <2>6. CASE p \notin unlisted
    <3>1. Due(files, saving, build.indexes, p)
      BY <1>0, <2>4, <2>6
    <3>2. ~MissedBy(saving', build'.indexes, p)
      BY <2>1, <3>1, MissedLess
    <3>3. CASE dirname(p) = d
      <4>1. p \in s.look.entries
        BY <3>1, <3>3 DEF MissedBy, Misses, d
      <4>2. ListedIn(files', p)
        BY <1>0, <2>1, <2>2, <2>3, <4>1, IndexLists
      <4> QED BY <3>2, <4>2
    <3>4. CASE dirname(p) # d
      <4>1. ListedIn(files, p) => ListedIn(files', p)
        BY <1>0, <2>1, <2>2, <2>3, <3>4, IndexLists
      <4>2. \A u \in saving : u.path = p => u \in saving'
        BY <2>1, <3>4 DEF d
      <4> QED BY <3>1, <3>2, <4>1, <4>2
    <3> QED BY <3>3, <3>4
  <2> QED BY <2>5, <2>6
<1>4. ASSUME NEW s \in saving, SaveDies(s) PROVE Holds
  <2>1. /\ saving' = saving \ {s} /\ files' = files /\ build' = build
        /\ unlisted' = IF s.written THEN unlisted \cup {s.path} ELSE unlisted
    BY <1>4 DEF SaveDies
  <2>2. Due(files, saving, build.indexes, p)
    BY <1>0, <2>1
  <2>3. ~MissedBy(saving', build.indexes, p)
    BY <2>1, <2>2, MissedLess
  <2> QED BY <2>1, <2>2, <2>3
<1>5. ASSUME NEW path \in Concepts, NEW draft, EditByHand(path, draft) PROVE Holds
  <2>1. /\ files' = WriteDoc(files, path, draft) /\ saving' = saving /\ build' = build
        /\ p \in DOMAIN files /\ p \notin unlisted
    BY <1>5 DEF EditByHand, WriteDoc
  <2>2. ListedIn(files, p) => ListedIn(files', p)
    BY <2>1, <1>5, ListedStays
  <2> QED BY <1>0, <2>1, <2>2
<1>6. ASSUME NEW path \in Concepts, RemoveByHand(path) PROVE Holds
  <2>1. /\ files' = Without(files, path) /\ saving' = saving /\ build' = build
        /\ p \in DOMAIN files /\ p \notin unlisted
    BY <1>6 DEF RemoveByHand, Without
  <2>2. ListedIn(files, p) => ListedIn(files', p)
    BY <2>1, <1>6, ListedStays
  <2> QED BY <1>0, <2>1, <2>2
<1>7. ASSUME build'.indexes = <<>>, saving' = saving, files' = files, unlisted' = unlisted PROVE Holds
  <2>1. Due(files, saving, build.indexes, p)
    BY <1>0, <1>7
  <2>2. ~MissedBy(saving, <<>>, p)
    BY <2>1, MissedLess
  <2> QED BY <1>7, <2>1, <2>2
<1>8. ASSUME build'.indexes \in {build.indexes, <<>>}, saving' = saving,
             NEW path \in Concepts, NEW text, IsText(text), WriteBack(path, text) PROVE Holds
  <2>1. p \in DOMAIN files /\ p \notin unlisted /\ (ListedIn(files, p) => ListedIn(files', p))
    BY <1>8, WrittenBack
  <2>2. Due(files, saving, build.indexes, p)
    BY <1>0, <2>1
  <2>3. ~MissedBy(saving, build'.indexes, p)
    BY <1>8, <2>2, MissedLess
  <2> QED BY <1>8, <2>1, <2>2, <2>3
<1>9. CASE BuildReads
  <2>1. build'.indexes = <<>>
    BY <1>9 DEF BuildReads, Idle
  <2> QED BY <1>7, <1>9, <2>1 DEF BuildReads
<1>10. CASE BuildUpserts
  <2>1. PICK path \in Generated : WriteBack(path, Upserted(path))
    BY <1>10 DEF BuildUpserts
  <2>2. path \in Concepts /\ IsText(Upserted(path))
    BY <1>0, UpsertText, ConceptPaths
  <2>3. build'.indexes = <<>> /\ saving' = saving
    BY <1>10, BuildAnew DEF BuildUpserts
  <2> QED BY <1>8, <2>1, <2>2, <2>3
<1>11. CASE NothingToUpsert
  <2>1. build'.indexes = <<>>
    BY <1>11, BuildAnew DEF NothingToUpsert
  <2> QED BY <1>7, <1>11, <2>1 DEF NothingToUpsert
<1>12. CASE RefreshReads
  <2>1. build'.indexes = Looks(files)
    BY <1>0, <1>12 DEF RefreshReads, IsBuild, Idle
  <2>2. files' = files /\ saving' = saving /\ unlisted' = unlisted
    BY <1>12 DEF RefreshReads
  <2>3. Due(files, saving, build.indexes, p)
    BY <1>0, <2>2
  <2>4. dirname(p) \in DOMAIN Looks(files) => p \in Looks(files)[dirname(p)].entries
    BY <1>0, <2>2, LooksAreLooks
  <2>5. ~MissedBy(saving, Looks(files), p)
    BY <2>3, <2>4 DEF MissedBy, Misses
  <2> QED BY <2>1, <2>2, <2>3, <2>5
<1>13. ASSUME NEW dir \in DOMAIN build.indexes, RefreshWrites(dir) PROVE Holds
  <2> DEFINE look == build.indexes[dir]
             rest == Without(build.indexes, dir)
  <2>1. /\ files' = WriteDoc(files, IndexOf(dir), Listing(files, dir, look)) /\ saving' = saving
        /\ build' = [build EXCEPT !.indexes = rest] /\ unlisted' = unlisted \ ListedFor(look, saving, rest)
    BY <1>13 DEF RefreshWrites
  <2>2. build'.indexes = rest
    BY <1>0, <2>1 DEF IsBuild, Idle
  <2>3. dir \in PlainPaths /\ IsLook(dir, look)
    BY <1>0 DEF IsBuild
  <2>4. dirname(p) = dir => (p \in look.entries \/ MissedBy(saving, build.indexes, p))
    BY DEF MissedBy, Misses
  <2> HIDE DEF look, rest
  <2>5. p \in DOMAIN files
    BY <2>1, <2>3, ConceptsStay
  <2>6. CASE p \in unlisted
    <3>1. p \in look.entries /\ ~MissedBy(saving, rest, p)
      BY <2>1, <2>6 DEF ListedFor
    <3>2. ListedIn(files', p)
      BY <1>0, <2>1, <2>3, <3>1, IndexLists
    <3> QED BY <2>1, <2>2, <3>1, <3>2
  <2>7. CASE p \notin unlisted
    <3>1. Due(files, saving, build.indexes, p)
      BY <1>0, <2>5, <2>7
    <3>2. ~MissedBy(saving, rest, p)
      BY <3>1, MissedLess DEF rest
    <3>3. ListedIn(files, p) => ListedIn(files', p)
      BY <1>0, <2>1, <2>3, <2>4, <3>1, IndexLists
    <3> QED BY <2>1, <2>2, <3>1, <3>2, <3>3
  <2> QED BY <2>6, <2>7
<1>14. CASE FillReads
  <2>1. build'.indexes = build.indexes /\ files' = files /\ saving' = saving /\ unlisted' = unlisted
    BY <1>0, <1>14 DEF FillReads, IsBuild, Idle
  <2> QED BY <1>0, <2>1
<1>15. ASSUME NEW path \in DOMAIN build.held, SlotFails(path) PROVE Holds
  <2>1. build'.indexes = build.indexes /\ files' = files /\ saving' = saving /\ unlisted' = unlisted
    BY <1>0, <1>15 DEF SlotFails, IsBuild, Idle
  <2> QED BY <1>0, <2>1
<1>16. ASSUME NEW path \in DOMAIN build.held, SlotFilled(path) PROVE Holds
  <2>1. build'.indexes = build.indexes /\ saving' = saving
    BY <1>0, <1>16 DEF SlotFilled, IsBuild, Idle
  <2>2. WriteBack(path, [build.held[path] EXCEPT !.slot = "filled", !.links = @ \cup {To(X)}])
    BY <1>16 DEF SlotFilled
  <2>3. path \in Concepts /\ IsText(build.held[path])
    BY <1>0 DEF IsBuild, IsTexts
  <2> QED BY <1>8, <2>1, <2>2, <2>3, FilledText
<1>17. CASE BuildEnds \/ BuildDies
  <2>1. build'.indexes = <<>> /\ files' = files /\ saving' = saving /\ unlisted' = unlisted
    BY <1>17, BuildAnew DEF BuildEnds, BuildDies
  <2> QED BY <1>7, <2>1
<1>18. CASE UNCHANGED bundleVars
  BY <1>0, <1>18 DEF bundleVars
<1> QED BY <1>1, <1>2, <1>3, <1>4, <1>5, <1>6, <1>9, <1>10, <1>11, <1>12, <1>13, <1>14, <1>15, <1>16, <1>17, <1>18 DEF BundleNext

LEMMA StandsStep ==
  ASSUME BundleTyped, BundleStands, [BundleNext]_bundleVars
  PROVE  BundleStands'
<1> DEFINE Fair(fs, kept, held, phase, over, p) ==
             /\ p \in DOMAIN fs /\ Keeps(fs[p], kept[p])
             /\ (p \in DOMAIN held \/ (phase = "upsert" /\ p \in Generated)) /\ p \notin over =>
                  p \in DOMAIN held /\ Keeps(held[p], kept[p])
           Now(p) == Fair(files, saved, build.held, build.phase, overtaken, p)
<1>0. /\ IsTexts(files) /\ IsBuild(build) /\ (\A s \in saving : IsSave(s)) /\ DOMAIN saved \subseteq Concepts
      /\ \A p \in DOMAIN saved : p \in Concepts /\ Now(p)
  BY DEF BundleTyped, BundleStands, Held
<1>00. SUFFICES ASSUME NEW p \in DOMAIN saved'
       PROVE  Fair(files', saved', build'.held, build'.phase, overtaken', p)
  BY DEF BundleStands, Held
<1> DEFINE Holds == Fair(files', saved', build'.held, build'.phase, overtaken', p)
<1>1. ASSUME NEW path \in Concepts, NEW draft \in Drafts(path), SaveReads(path, draft) PROVE Holds
  BY <1>0, <1>1 DEF SaveReads
<1>2. ASSUME NEW s \in saving, SaveWrites(s) PROVE Holds
  <2>1. /\ files' = WriteDoc(files, s.path, s.draft) /\ saved' = WriteDoc(saved, s.path, s.draft) /\ build' = build
        /\ overtaken' = IF Held(s.path) THEN overtaken \cup {s.path} ELSE overtaken
    BY <1>2 DEF SaveWrites
  <2>2. CASE p = s.path
    <3>1. p \in DOMAIN files' /\ files'[p] = s.draft /\ saved'[p] = s.draft
      BY <2>1, <2>2 DEF WriteDoc
    <3>2. Keeps(files'[p], saved'[p])
      BY <3>1 DEF Keeps
    <3>3. Held(p) => p \in overtaken'
      BY <2>1, <2>2
    <3> QED BY <2>1, <3>1, <3>2, <3>3 DEF Held
  <2>3. CASE p # s.path
    <3>1. p \in DOMAIN saved /\ saved'[p] = saved[p] /\ (p \in DOMAIN files => p \in DOMAIN files' /\ files'[p] = files[p])
      BY <2>1, <2>3 DEF WriteDoc
    <3>2. Now(p) /\ (p \in overtaken' <=> p \in overtaken)
      BY <1>0, <2>1, <2>3, <3>1
    <3> QED BY <2>1, <3>1, <3>2
  <2> QED BY <2>2, <2>3
<1>3. ASSUME NEW s \in saving, SaveIndexes(s) PROVE Holds
  <2>1. /\ files' = WriteDoc(files, IndexOf(dirname(s.path)), Listing(files, dirname(s.path), s.look))
        /\ saved' = saved /\ build' = build /\ overtaken' = overtaken
    BY <1>3 DEF SaveIndexes
  <2>2. dirname(s.path) \in PlainPaths
    BY <1>0, IndexApart DEF IsSave
  <2>3. Now(p) /\ p \in Concepts
    BY <1>0, <2>1
  <2>4. p \in DOMAIN files' /\ files'[p] = files[p]
    BY <2>1, <2>2, <2>3, ConceptsStay
  <2> QED BY <2>1, <2>3, <2>4
<1>4. ASSUME NEW s \in saving, SaveDies(s) PROVE Holds
  BY <1>0, <1>4 DEF SaveDies
<1>5. ASSUME NEW path \in Concepts, NEW draft, EditByHand(path, draft) PROVE Holds
  <2>1. /\ files' = WriteDoc(files, path, draft) /\ saved' = Without(saved, path) /\ build' = build /\ overtaken' = overtaken
    BY <1>5 DEF EditByHand
  <2>2. p \in DOMAIN saved /\ p # path /\ saved'[p] = saved[p]
    BY <2>1 DEF Without
  <2>3. p \in DOMAIN files => p \in DOMAIN files' /\ files'[p] = files[p]
    BY <2>1, <2>2 DEF WriteDoc
  <2> QED BY <1>0, <2>1, <2>2, <2>3
<1>6. ASSUME NEW path \in Concepts, RemoveByHand(path) PROVE Holds
  <2>1. /\ files' = Without(files, path) /\ saved' = Without(saved, path) /\ build' = build /\ overtaken' = overtaken
    BY <1>6 DEF RemoveByHand
  <2>2. p \in DOMAIN saved /\ p # path /\ saved'[p] = saved[p]
    BY <2>1 DEF Without
  <2>3. p \in DOMAIN files => p \in DOMAIN files' /\ files'[p] = files[p]
    BY <2>1, <2>2 DEF Without
  <2> QED BY <1>0, <2>1, <2>2, <2>3
<1>7. CASE BuildReads
  <2> DEFINE held == [q \in Generated \cap DOMAIN files |-> files[q]]
  <2>1. build'.held = held
    BY <1>7 DEF BuildReads, Idle
  <2>2. files' = files /\ saved' = saved
    BY <1>7 DEF BuildReads
  <2>3. p \in DOMAIN files /\ Keeps(files[p], saved[p])
    BY <1>0, <2>2
  <2>4. p \in Generated => p \in DOMAIN held /\ held[p] = files[p]
    BY <2>3
  <2>5. p \in DOMAIN held => p \in Generated
    OBVIOUS
  <2> HIDE DEF held
  <2> QED BY <2>1, <2>2, <2>3, <2>4, <2>5
\* A copy the build writes back and then holds no more: a save it came over
\* is no longer there, and the others it kept.
<1>8. ASSUME NEW path \in Concepts, NEW text, IsText(text), WriteBack(path, text),
             path \in DOMAIN build.held \/ (build.phase = "upsert" /\ path \in Generated),
             path \in DOMAIN build.held => Keeps(text, build.held[path])
      PROVE  /\ p \in DOMAIN saved /\ saved'[p] = saved[p]
             /\ p \in DOMAIN files' /\ Keeps(files'[p], saved[p])
             /\ p # path => (p \in overtaken' <=> p \in overtaken)
  <2>1. /\ DOMAIN files' = DOMAIN files \cup {path} /\ files'[path] = text
        /\ \A q \in DOMAIN files \ {path} : files'[q] = files[q]
        /\ p \in DOMAIN saved /\ saved'[p] = saved[p]
        /\ (p = path => p \notin overtaken) /\ overtaken' = overtaken \ {path}
    BY <1>8, WrittenBack
  <2>2. Now(p)
    BY <1>0, <2>1
  <2>3. CASE p = path
    <3>1. p \in DOMAIN build.held /\ Keeps(build.held[p], saved[p]) /\ Keeps(text, build.held[p])
      BY <1>8, <2>1, <2>2, <2>3
    <3>2. Keeps(text, saved[p])
      BY <3>1 DEF Keeps
    <3> QED BY <2>1, <2>3, <3>2
  <2>4. CASE p # path
    BY <2>1, <2>2, <2>4
  <2> QED BY <2>3, <2>4
<1>9. CASE BuildUpserts
  <2>1. PICK path \in Generated : WriteBack(path, Upserted(path))
    BY <1>9 DEF BuildUpserts
  <2>2. path \in Concepts /\ IsText(Upserted(path)) /\ (path \in DOMAIN build.held => Keeps(Upserted(path), build.held[path]))
    BY <1>0, UpsertText, ConceptPaths
  <2>3. build.phase = "upsert" /\ build'.held = <<>> /\ build'.phase = "look"
    BY <1>9, BuildAnew DEF BuildUpserts
  <2>4. saved'[p] = saved[p] /\ p \in DOMAIN files' /\ Keeps(files'[p], saved[p])
    BY <1>8, <2>1, <2>2, <2>3
  <2> QED BY <2>3, <2>4
<1>10. CASE NothingToUpsert
  <2>1. build'.held = <<>> /\ build'.phase = "look" /\ files' = files /\ saved' = saved
    BY <1>10, BuildAnew DEF NothingToUpsert
  <2> QED BY <1>0, <2>1
<1>11. CASE RefreshReads
  <2>1. build'.held = build.held /\ build'.phase = "indexes" /\ files' = files /\ saved' = saved /\ overtaken' = overtaken
    BY <1>0, <1>11 DEF RefreshReads, IsBuild, Idle
  <2>2. Now(p)
    BY <1>0, <2>1
  <2> QED BY <2>1, <2>2
<1>12. ASSUME NEW dir \in DOMAIN build.indexes, RefreshWrites(dir) PROVE Holds
  <2>1. /\ files' = WriteDoc(files, IndexOf(dir), Listing(files, dir, build.indexes[dir]))
        /\ build'.held = build.held /\ build'.phase = build.phase /\ saved' = saved /\ overtaken' = overtaken
    BY <1>0, <1>12 DEF RefreshWrites, IsBuild, Idle
  <2>2. dir \in PlainPaths
    BY <1>0 DEF IsBuild
  <2>3. Now(p) /\ p \in Concepts
    BY <1>0, <2>1
  <2>4. p \in DOMAIN files' /\ files'[p] = files[p]
    BY <2>1, <2>2, <2>3, ConceptsStay
  <2> QED BY <2>1, <2>3, <2>4
<1>13. CASE FillReads
  <2> DEFINE held == [q \in candidates(files) |-> files[q]]
  <2>1. build'.held = held /\ build'.phase = "fill" /\ files' = files /\ saved' = saved
    BY <1>0, <1>13 DEF FillReads, IsBuild, Idle
  <2>2. p \in DOMAIN held => held[p] = files[p]
    OBVIOUS
  <2> HIDE DEF held
  <2> QED BY <1>0, <2>1, <2>2
<1>14. ASSUME NEW path \in DOMAIN build.held PROVE \A q \in DOMAIN Without(build.held, path) : q # path /\ q \in DOMAIN build.held /\ Without(build.held, path)[q] = build.held[q]
  BY DEF Without
<1>15. ASSUME NEW path \in DOMAIN build.held, SlotFails(path) PROVE Holds
  <2>1. /\ build'.held = Without(build.held, path) /\ build'.phase = "fill" /\ build.phase = "fill"
        /\ files' = files /\ saved' = saved /\ overtaken' = overtaken \ {path}
    BY <1>0, <1>15 DEF SlotFails, IsBuild, Idle
  <2>2. Now(p)
    BY <1>0, <2>1
  <2>3. p \in DOMAIN build'.held => p # path /\ p \in DOMAIN build.held /\ build'.held[p] = build.held[p]
    BY <1>14, <2>1
  <2> QED BY <2>1, <2>2, <2>3
<1>16. ASSUME NEW path \in DOMAIN build.held, SlotFilled(path) PROVE Holds
  <2>1. build'.held = Without(build.held, path) /\ build'.phase = "fill"
    BY <1>0, <1>16 DEF SlotFilled, IsBuild, Idle
  <2>2. WriteBack(path, [build.held[path] EXCEPT !.slot = "filled", !.links = @ \cup {To(X)}])
    BY <1>16 DEF SlotFilled
  <2>3. path \in Concepts /\ IsText(build.held[path])
    BY <1>0 DEF IsBuild, IsTexts
  <2>4. /\ p \in DOMAIN saved /\ saved'[p] = saved[p] /\ p \in DOMAIN files' /\ Keeps(files'[p], saved[p])
        /\ p # path => (p \in overtaken' <=> p \in overtaken)
    BY <1>8, <2>2, <2>3, FilledText
  <2>5. p \in DOMAIN build'.held => p # path /\ p \in DOMAIN build.held /\ build'.held[p] = build.held[p]
    BY <1>14, <2>1
  <2>6. Now(p)
    BY <1>0, <2>4
  <2> QED BY <2>1, <2>4, <2>5, <2>6
<1>17. CASE BuildEnds \/ BuildDies
  <2>1. build'.held = <<>> /\ build'.phase = "idle" /\ files' = files /\ saved' = saved
    BY <1>17, BuildAnew DEF BuildEnds, BuildDies
  <2> QED BY <1>0, <2>1
<1>18. CASE UNCHANGED bundleVars
  BY <1>0, <1>18 DEF bundleVars
<1> QED BY <1>1, <1>2, <1>3, <1>4, <1>5, <1>6, <1>7, <1>9, <1>10, <1>11, <1>12, <1>13, <1>15, <1>16, <1>17, <1>18 DEF BundleNext

LEMMA BundleStart ==
  ASSUME BundleInit
  PROVE  BundleInv
<1> DEFINE plain == [p \in {A, X} |-> PlainText]
<1>1. DOMAIN plain = {A, X} /\ (\A p \in {A, X} : plain[p] = PlainText) /\ {A, X} \subseteq Concepts
  BY DEF Concepts
<1>2. /\ files = Built(plain) /\ logged = {} /\ saving = {} /\ build = Idle /\ loose = {} /\ saved = <<>> /\ unlisted = {}
  BY DEF BundleInit
<1> HIDE DEF plain
<1>3. IsTexts(plain) /\ \A p \in DOMAIN plain : plain[p].links = {} /\ p \in Concepts
  BY <1>1, PlainIsText, ConceptPaths DEF IsTexts
<1> DEFINE dirs == DOMAIN Looks(plain)
           indexes == {IndexOf(dir) : dir \in dirs}
<1>4. \A d \in dirs : d \in PlainPaths /\ IsLook(d, Looks(plain)[d])
  BY <1>3, LooksAreLooks
<1>5. \A p \in indexes : p \in DocPaths /\ dirname(p) \in dirs /\ p = IndexOf(dirname(p)) /\ p \notin Concepts
  BY <1>4, IndexPath, ConceptPaths
<1>6. /\ DOMAIN files = DOMAIN plain \cup indexes /\ \A p \in DOMAIN plain : files[p] = plain[p]
      /\ \A p \in indexes : files[p] = Listing(plain, dirname(p), Looks(plain)[dirname(p)])
  BY <1>2, <1>3, <1>5 DEF Built
<1> HIDE DEF dirs
<1>7. ASSUME NEW p \in indexes
      PROVE  /\ IsText(files[p]) /\ files[p].links = LinksTo(Looks(plain)[dirname(p)].entries, Looks(plain)[dirname(p)].subdirs)
             /\ ~isPrivatePath(p) => \A t \in files[p].links : ~isPrivatePath(At(p, t))
  <2> DEFINE d == dirname(p)
             look == Looks(plain)[d]
  <2>1. d \in PlainPaths /\ IsLook(d, look) /\ p = IndexOf(d) /\ files[p] = Listing(plain, d, look)
    BY <1>4, <1>5, <1>6, <1>7
  <2> HIDE DEF d, look
  <2>2. IsText(Listing(plain, d, look)) /\ Listing(plain, d, look).links = LinksTo(look.entries, look.subdirs)
    BY <1>3, <2>1, ListingLinks DEF IsLook
  <2>3. ~isPrivatePath(p) => \A t \in files[p].links : ~isPrivatePath(At(p, t))
    BY <2>1, <2>2, LookApart
  <2> QED BY <2>1, <2>2, <2>3 DEF d, look
<1>8. IsTexts(files)
  BY <1>3, <1>5, <1>6, <1>7 DEF IsTexts
<1>9. BundleTyped
  <2>1. IsBuild(build)
    BY <1>2, BuildAnew
  <2>2. DOMAIN saved = {}
    BY <1>2
  <2> QED BY <1>2, <1>8, <2>1, <2>2 DEF BundleTyped
<1>10. BundleApart
  <2>1. Closed(files, loose)
    BY <1>3, <1>6, <1>7 DEF Closed
  <2> QED BY <1>2, <2>1, BuildAnew DEF BundleApart, LogApart
<1>11. BundleListed
  <2>1. SUFFICES ASSUME NEW p \in DOMAIN plain PROVE ListedIn(files, p) /\ ~MissedBy({}, <<>>, p)
    <3>1. saving = {} /\ build.indexes = <<>> /\ unlisted = {}
      BY <1>2, BuildAnew
    <3> HIDE DEF indexes
    <3>2. \A p \in DOMAIN files \cap Concepts : p \in DOMAIN plain
      BY <1>5, <1>6
    <3> QED BY <2>1, <3>1, <3>2 DEF BundleListed
  <2>2. p \in Concepts /\ p \in DocPaths /\ Len(p) > 1
    BY <1>3, ConceptPaths
  <2>3. dirname(p) \in dirs
    BY <1>3, <2>2, DirsOf DEF dirs, Looks
  <2>4. p \in Looks(plain)[dirname(p)].entries
    BY <1>3, <2>2, <2>3, LooksAreLooks DEF dirs
  <2>5. IndexOf(dirname(p)) \in indexes /\ dirname(IndexOf(dirname(p))) = dirname(p)
    BY <2>2, <2>3, IndexApart
  <2>6. To(p) \in files[IndexOf(dirname(p))].links
    BY <1>7, <2>4, <2>5 DEF LinksTo
  <2>7. ~MissedBy({}, <<>>, p)
    BY DEF MissedBy
  <2> HIDE DEF indexes
  <2> QED BY <1>6, <2>5, <2>6, <2>7 DEF ListedIn
<1>12. BundleStands
  BY <1>2 DEF BundleStands
<1> QED BY <1>9, <1>10, <1>11, <1>12 DEF BundleInv

LEMMA ClosureHolds ==
  ASSUME BundleInv
  PROVE  PrivateClosure
<1> DEFINE vault == loadVault(files)
           crossing == {f \in buildGraph(vault) : f.resolved /\ ~isPrivatePath(f.source) /\ isPrivatePath(f.target)}
           leaks == {e.source : e \in crossing}
           bare == {p \in DOMAIN files : To(<<"private">>) \in files[p].links}
<1>0. IsTexts(files) /\ Closed(files, loose) /\ LogApart(logged)
  BY DEF BundleInv, BundleTyped, BundleApart
<1>1. ASSUME NEW p \in leaks, p \notin bare
      PROVE  /\ p \in DOMAIN files /\ ~isPrivatePath(p)
             /\ \E t \in files[p].links : t \in Links /\ isPrivatePath(At(p, t))
  <2>1. PICK e \in buildGraph(vault) : e.source = p /\ e.resolved /\ ~isPrivatePath(p) /\ isPrivatePath(e.target)
    BY <1>1
  <2>2. PICK t \in files[p].links : p \in DOMAIN files /\ (e.target = At(p, t) \/ e.target = IndexOf(At(p, t)))
    BY <1>0, <2>1, EdgeOfLink
  <2>3. t \in Links
    BY <1>0, <2>2 DEF IsTexts, IsText
  <2>4. t # To(<<"private">>)
    BY <1>1, <2>2
  <2>5. isPrivatePath(At(p, t))
    BY <2>1, <2>2, <2>3, <2>4, BareLink
  <2> QED BY <2>1, <2>2, <2>3, <2>5
<1>2. leaks \subseteq loose \cup bare
  BY <1>0, <1>1 DEF Closed
<1>3. ASSUME NEW p \in leaks \ bare PROVE Finding("error", "private-closure", p) \in lintVault(vault)
  <2>1. PICK t \in files[p].links : p \in DOMAIN files /\ ~isPrivatePath(p) /\ t \in Links /\ isPrivatePath(At(p, t))
    BY <1>1, <1>3
  <2>2. p \in DOMAIN vault /\ vault[p].text = files[p] /\ vault[p].isPrivate = isPrivatePath(p)
    BY <2>1, Loaded
  <2> HIDE DEF vault
  <2>4. t \in Internal(vault, p, vault[p].text.links)
    BY <2>1, <2>2, LinkAt DEF Internal
  <2>5. ~vault[p].isPrivate
    BY <2>1, <2>2
  <2>6. Finding("error", "private-closure", p) \in LintLink(vault, p, t)
    BY <2>1, <2>5 DEF LintLink, If
  <2>7. Finding("error", "private-closure", p) \in lintDoc(vault, p)
    BY <2>4, <2>6 DEF lintDoc
  <2> QED BY <2>2, <2>7 DEF lintVault
<1>4. \A entry \in logged : entry[1] = "/log.md" => ~isPrivatePath(entry[2])
  BY <1>0 DEF LogApart
<1> QED BY <1>2, <1>3, <1>4 DEF PrivateClosure

LEMMA CompleteHolds ==
  ASSUME BundleInv
  PROVE  IndexComplete
<1> DEFINE missing == {p \in DOMAIN files \cap Concepts :
                         IndexOf(dirname(p)) \notin DOMAIN files \/ p \notin Listed(loadVault(files), IndexOf(dirname(p)))}
<1>1. ASSUME NEW p \in missing PROVE ~ListedIn(files, p)
  BY <1>1, ListedByLink DEF BundleInv, BundleTyped
<1>2. ASSUME NEW p \in missing, p \notin unlisted PROVE \E s \in saving : s.written /\ s.path = p
  BY <1>1, <1>2 DEF BundleInv, BundleListed
<1>3. missing \subseteq unlisted \cup {s.path : s \in {t \in saving : t.written}}
  BY <1>2
<1> QED BY <1>3 DEF IndexComplete

(* A public file leads into the annex, a document is missing from its       *)
(* directory's index, and a save is undone, only where PrivateClosure,      *)
(* IndexComplete and SavesStand grant it, whatever saves, builds, fills and *)
(* edits there are, each a step at a time among those of the others, and    *)
(* whichever of them die (wikiTools.ts, build.ts, fill.ts).                 *)
THEOREM BundleStaysWhole == BundleSpec => [](PrivateClosure /\ IndexComplete /\ SavesStand)
<1>1. BundleInit => BundleInv
  BY BundleStart
<1>2. BundleInv /\ [BundleNext]_bundleVars => BundleInv'
  BY TypedStep, ApartStep, ListedStep, StandsStep DEF BundleInv
<1>3. BundleInv => SavesStand
  BY DEF BundleInv, BundleStands, Keeps, SavesStand
<1>4. BundleInv => PrivateClosure /\ IndexComplete /\ SavesStand
  BY <1>3, ClosureHolds, CompleteHolds
<1> QED BY <1>1, <1>2, <1>4, PTL DEF BundleSpec

(* Both stores together, each of them for every step of its own.           *)
THEOREM WikiStandsWhole == BundleSpec /\ RelationsSpec => []WikiWritesStand
<1>1. BundleSpec => [](PrivateClosure /\ IndexComplete /\ SavesStand)
  BY BundleStaysWhole
<1>2. RelationsSpec => []GateAgreesWithLint
  BY GateAlwaysAgrees
<1> QED BY <1>1, <1>2, PTL DEF WikiWritesStand
=============================================================================
