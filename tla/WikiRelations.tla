---------------------------- MODULE WikiRelations ----------------------------
(* The asserted layer of the entity graph: relations.json, which           *)
(* wiki_relate rewrites, people edit, and the build reads beside the       *)
(* snapshot it derives. A document is its node; the nodes that are not     *)
(* documents never change here and are left out.                           *)
EXTENDS WikiGraph

CONSTANTS
  Public, Private,   \* documents, outside and inside the annex
  MaxRelations       \* bound: assertions

ASSUME RelationsAssumption == MaxRelations \in Nat /\ Public \cap Private = {}

VARIABLES docs, snapshot, asserted, findings, relates
relationsVars == <<docs, snapshot, asserted, findings, relates>>

NoSnapshot == [taken |-> FALSE, nodes |-> {}]
Relations == [from : Public \cup Private, rel : {"explains", "mitigates", "imports", "near"}, to : Public \cup Private]

(* loadRelations: a store that does not parse, or one of whose rows does   *)
(* not fit the schema, gives no record at all.                             *)
loadRelations(file) == IF file.form = "good" THEN file.rows ELSE {}
relationEdges(records) == records
(* saveRelations: the file holds these records and nothing else.           *)
saveRelations(records) == [form |-> "good", rows |-> records]

DocNodes(ids) == [id \in ids |-> [kind |-> "doc", private |-> id \in Private]]
(* loadEntityGraph: the snapshot's nodes, the store's relations.           *)
loadEntityGraph == [nodes |-> DocNodes(snapshot.nodes), edges |-> relationEdges(loadRelations(asserted))]

RelationsInit ==
  /\ docs = Public \cup Private /\ snapshot = NoSnapshot
  /\ asserted = [form |-> "none", rows |-> {}] /\ findings = {} /\ relates = 0

AddDoc(d) == d \notin docs /\ docs' = docs \cup {d} /\ UNCHANGED <<snapshot, asserted, findings, relates>>
RemoveDoc(d) == d \in docs /\ docs' = docs \ {d} /\ UNCHANGED <<snapshot, asserted, findings, relates>>

(* entityPass with write: the graph of the documents as they are and the   *)
(* relations the store gives is linted; its nodes become the snapshot.     *)
Build ==
  LET records == loadRelations(asserted)
  IN  /\ snapshot' = [taken |-> TRUE, nodes |-> docs]
      /\ findings' = lintEntityGraph([nodes |-> DocNodes(docs), edges |-> relationEdges(records)], records)
      /\ UNCHANGED <<docs, asserted, relates>>

(* What wiki_relate refuses: no snapshot, a relation the build derives or  *)
(* none knows, an end that is no node, a loop, a public document's word    *)
(* about the annex.                                                        *)
(* Plausible bug: the ends are not asked which of them is private.         *)
RefusesOpenly(graph, r) ==
  \/ ~snapshot.taken \/ tierOf(r.rel) # "inferred" \/ ~(Ends(r) \subseteq DOMAIN graph.nodes) \/ r.from = r.to
RefusesRelation(graph, r) ==
  \/ ~snapshot.taken
  \/ tierOf(r.rel) # "inferred"
  \/ ~(Ends(r) \subseteq DOMAIN graph.nodes)
  \/ r.from = r.to
  \/ graph.nodes[r.from].kind = "doc" /\ ~isPrivateNode(graph.nodes[r.from]) /\ isPrivateNode(graph.nodes[r.to])

Relate(r) ==
  LET records == loadRelations(asserted)
  IN  /\ relates < MaxRelations
      /\ ~RefusesRelation(loadEntityGraph, r) /\ r \notin records
      /\ asserted' = saveRelations(records \cup {r})
      /\ relates' = relates + 1
      /\ UNCHANGED <<docs, snapshot, findings>>

(* A person's edit leaves the file unparsable, or one row short of the     *)
(* schema, and another puts it right.                                      *)
EditStore(form) ==
  /\ asserted.form # "none" /\ asserted.form # form
  /\ asserted' = [asserted EXCEPT !.form = form]
  /\ UNCHANGED <<docs, snapshot, findings, relates>>

RelationsNext ==
  \/ \E d \in Public \cup Private : AddDoc(d) \/ RemoveDoc(d)
  \/ Build
  \/ \E r \in Relations : Relate(r)
  \/ \E form \in {"good", "unparsable", "oddRow"} : EditStore(form)
RelationsSpec == RelationsInit /\ [][RelationsNext]_relationsVars

-----------------------------------------------------------------------------
(* What wiki_relate lets in over a snapshot that may be stale, a later     *)
(* build takes: all its lint finds against an assertion, whatever happened *)
(* to documents and store between, is that a document of it is gone; and   *)
(* no public document was ever said to have to do with the annex.          *)
GateAgreesWithLint ==
  /\ findings \subseteq {<<"error", "dangling-endpoint">>}
  /\ \A r \in asserted.rows : r.from \in Public => r.to \in Public

(* An assertion is "never machine-overwritten" (entities.ts:20): no step   *)
(* takes one out of the store.                                             *)
AssertionsKept == [][asserted.rows \subseteq asserted'.rows]_relationsVars
=============================================================================
