----------------------------- MODULE WikiEntities ----------------------------
(* What the build derives of the repository: the pages it specifies for    *)
(* the agent YAMLs, and the extracted layer of the entity graph, read out  *)
(* of YAMLs, tool contracts, SQL, modules, scripts and documents. An id is *)
(* a kind and a name, a document's its path; what a parser finds in a text *)
(* is given with the text.                                                 *)
EXTENDS WikiGraph

entityId(kind, name) == <<kind>> \o name
EntityNode(kind, name, private) == [id |-> entityId(kind, name), kind |-> kind, private |-> private]
Layer(nodes, edges) == [nodes |-> nodes, edges |-> edges]
Joined(layers) == Layer(UNION {l.nodes : l \in layers}, UNION {l.edges : l \in layers})

(* A YAML: its directory under config/agents, whether it is a syndicate,   *)
(* its members. A root copy of an example or a template is left out; what  *)
(* else lies at the root is a deployment's own, and private.               *)
loadSyndicates(repo) ==
  LET kept == {y \in repo.yamls : y.valid /\ ~(y.dir = <<>> /\ \E o \in repo.yamls : o.dir # <<>> /\ o.base = y.base)}
      private(y) == y.dir = <<>> \/ y.base \in repo.privateSyndicates
  IN  {[base |-> y.base, file |-> y.dir \o y.base, members |-> y.members, private |-> private(y),
        page |-> (IF private(y) THEN <<"private">> ELSE <<"agents">>) \o y.base] : y \in kept}
(* syndicateSpecs: a nested syndicate's page is linked by its bare name,   *)
(* whatever directory the reference names.                                 *)
syndicateSpecs(repo) ==
  LET loaded == loadSyndicates(repo)
  IN  {[page |-> s.page, private |-> s.private,
        links |-> {o.page : o \in {p \in loaded : \E m \in s.members : \E r \in m.refs : p.base = r.base}}] : s \in loaded}

(* docLayer: the concepts and the resolved links between them.             *)
docLayer(repo) ==
  Layer({[id |-> d.path, kind |-> "doc", private |-> d.private] : d \in repo.docs},
        {Edge(l[1], "links_to", l[2]) : l \in {k \in repo.links : ToSet(k) \subseteq {d.path : d \in repo.docs}}})

Providers(repo) ==
  LET keyed == {p \in DOMAIN repo.providers : repo.providers[p]}
  IN  Layer({EntityNode("provider", p, FALSE) : p \in DOMAIN repo.providers} \cup {EntityNode("env", p, FALSE) : p \in keyed},
            {Edge(entityId("provider", p), "requires_env", entityId("env", p)) : p \in keyed})
Models(repo, names) ==
  Layer({EntityNode("model", n, FALSE) : n \in names},
        {Edge(entityId("model", n), "routes_to", entityId("provider", repo.providerForModel[n])) : n \in names})

(* The tools of the families, with their module and page, and the built-in.*)
Families(repo) ==
  Layer({EntityNode("tool", f.tool, f.private) : f \in repo.families} \cup {EntityNode("tool", t, t \in repo.forbidden) : t \in repo.registry},
        {Edge(entityId("tool", f.tool), "defined_in", entityId("module", f.module)) : f \in repo.families}
        \cup {Edge(f.doc, "documents", entityId("tool", f.tool)) : f \in repo.families})
KnownTools(repo) == {f.tool : f \in repo.families} \cup repo.registry

(* Plausible bug: a delegation is drawn from the syndicate, not the agent. *)
DelegateOfSyndicate(s, m) == {Edge(entityId("syndicate", s.base), "delegates_to", entityId("syndicate", r.dir \o r.base)) : r \in m.refs}
Delegates(s, m) ==
  {Edge(entityId("agent", s.base \o m.name), "delegates_to", entityId("syndicate", r.dir \o r.base)) : r \in m.refs}
(* One member of a syndicate: what it uses, delegates to and connects to.  *)
Member(repo, s, m) ==
  LET agent == entityId("agent", s.base \o m.name)
  IN  Layer({EntityNode("agent", s.base \o m.name, s.private)}
            \cup {EntityNode("tool", t, FALSE) : t \in m.tools \ KnownTools(repo)}
            \cup {EntityNode("mcp-server", url, s.private) : url \in m.mcp},
            {Edge(entityId("syndicate", s.base), "contains", agent), Edge(agent, "uses_model", entityId("model", m.model))}
            \cup Delegates(s, m)
            \cup {Edge(agent, "uses_tool", entityId("tool", t)) : t \in m.tools}
            \cup {Edge(agent, "connects_mcp", entityId("mcp-server", url)) : url \in m.mcp})
Syndicate(repo, s) ==
  LET self == entityId("syndicate", s.base)
      file == entityId("file", s.file)
  IN  Joined({Layer({EntityNode("file", s.file, s.private), EntityNode("syndicate", s.base, s.private)},
                    {Edge(self, "defined_in", file), Edge(s.page, "documents", self)}),
              Models(repo, {m.model : m \in s.members})} \cup {Member(repo, s, m) : m \in s.members})

(* SQL: the tables a file creates, and those it refers to.                 *)
Tables(repo) ==
  Joined({Layer({EntityNode("file", f.file, FALSE)} \cup {EntityNode("table", t, FALSE) : t \in f.defined \cup f.referenced},
                {Edge(entityId("table", t), "defined_in", entityId("file", f.file)) : t \in f.defined}) : f \in repo.sql})
TableNames(repo) == UNION {f.defined \cup f.referenced : f \in repo.sql}

(* Modules: the imports that are modules too, the keys they read, the      *)
(* tables they name, the MCP server one may be.                            *)
Module(repo, f) ==
  LET self == entityId("module", f.file)
      private == f.file \in repo.privateModules
  IN  Layer({EntityNode("module", f.file, private)} \cup {EntityNode("env", v, v \in repo.forbidden) : v \in f.env}
            \cup {EntityNode("mcp-server", url, private) : url \in f.serves},
            {Edge(self, "imports", entityId("module", i)) : i \in (f.imports \ {f.file}) \cap {g.file : g \in repo.modules}}
            \cup {Edge(self, "requires_env", entityId("env", v)) : v \in f.env}
            \cup {Edge(self, "reads_table", entityId("table", t)) : t \in f.mentions \cap TableNames(repo)}
            \cup {Edge(entityId("mcp-server", url), "defined_in", self) : url \in f.serves})

(* npm scripts that start a module or name a syndicate.                    *)
Script(repo, s) ==
  IF s.entry = {} /\ s.syndicate = {} THEN Layer({}, {})
  ELSE Layer({EntityNode("script", s.name, FALSE)},
             {Edge(entityId("script", s.name), "runs", entityId("module", e)) : e \in s.entry \cap {g.file : g \in repo.modules}}
             \cup {Edge(entityId("script", s.name), "runs", entityId("syndicate", y)) : y \in s.syndicate})

(* resourceNode: what a document names among its sources.                  *)
Sources(d) ==
  Layer({EntityNode(s.kind, s.name, FALSE) : s \in {r \in d.sources : r.kind \in {"external", "file"}}},
        {Edge(d.path, IF s.kind = "syndicate" THEN "documents" ELSE "derives_from", entityId(s.kind, s.name)) : s \in d.sources})

entityLayer(repo) ==
  Joined({docLayer(repo), Providers(repo), Models(repo, repo.defaults), Families(repo), Tables(repo)}
         \cup {Syndicate(repo, s) : s \in loadSyndicates(repo)} \cup {Module(repo, f) : f \in repo.modules}
         \cup {Script(repo, s) : s \in repo.scripts} \cup {Sources(d) : d \in repo.docs})
InSomeOrder(set) == FoldSet(LAMBDA x, seq : Append(seq, x), <<>>, set)
entityGraph(repo) == LET layer == entityLayer(repo) IN buildEntityGraph(InSomeOrder(layer.nodes), InSomeOrder(layer.edges))

(* A small repository; the inputs say which YAMLs it has, what the nested  *)
(* reference is, which pages are written, what is private.                 *)
Ref(dir, base) == [dir |-> dir, base |-> base]
MemberOf(name, refs, tools, mcp) == [name |-> name, refs |-> refs, tools |-> tools, mcp |-> mcp, model |-> <<"grok">>]
YamlOf(dir, base, members) == [dir |-> dir, base |-> base, valid |-> TRUE, members |-> members]
YamlsOf(ask) ==
  {YamlOf(<<"examples">>, <<"desk">>, {MemberOf(<<"Lead">>, {ask.ref}, {<<"wiki_read">>, <<"lost">>}, {<<"url">>})}),
   YamlOf(<<>>, <<"desk">>, {}), YamlOf(<<>>, <<"ours">>, {MemberOf(<<"Own">>, {}, {<<"search">>}, {})})}
RepoOf(ask) ==
  [yamls |-> {y \in YamlsOf(ask) : <<y.dir, y.base>> \in ask.yamls}, privateSyndicates |-> ask.secret,
   docs |-> {[path |-> p, private |-> Head(p) = "private", sources |-> ask.sources] : p \in ask.pages},
   links |-> {<<<<"agents", "desk">>, <<"private", "ours">>>>},
   providers |-> (<<"xai">> :> TRUE @@ <<"ollama">> :> FALSE), providerForModel |-> (<<"grok">> :> <<"xai">>), defaults |-> {},
   families |-> {[tool |-> <<"wiki_read">>, module |-> <<"wikiTools">>, doc |-> <<"tools", "wiki">>, private |-> FALSE]},
   registry |-> {<<"search">>}, forbidden |-> {}, privateModules |-> {},
   sql |-> {[file |-> <<"db">>, defined |-> {<<"tasks">>}, referenced |-> {<<"auth">>}]},
   modules |-> {[file |-> <<"wikiTools">>, imports |-> {<<"wikiTools">>, <<"server">>, <<"absent">>}, env |-> {<<"KEY">>}, mentions |-> {<<"tasks">>}, serves |-> {}],
                [file |-> <<"server">>, imports |-> {}, env |-> {}, mentions |-> {}, serves |-> {<<"url">>}]},
   scripts |-> {[name |-> <<"chat">>, entry |-> {<<"server">>}, syndicate |-> {<<"desk">>}], [name |-> <<"lint">>, entry |-> {}, syndicate |-> {}]}]
EntityAsks ==
  [yamls : SUBSET {<<<<"examples">>, <<"desk">>>>, <<<<>>, <<"desk">>>>, <<<<>>, <<"ours">>>>},
   ref : {Ref(<<>>, <<"ours">>), Ref(<<>>, <<"none">>), Ref(<<"examples">>, <<"desk">>)}, secret : SUBSET {<<"desk">>},
   pages : SUBSET {<<"agents", "desk">>, <<"private", "ours">>, <<"tools", "wiki">>},
   sources : {{}, {[kind |-> "file", name |-> <<"README">>], [kind |-> "syndicate", name |-> <<"ours">>], [kind |-> "module", name |-> <<"server">>]}}]

(* Whatever the repository holds, the lint finds no relation of this layer *)
(* outside the vocabulary, in the wrong tier, between the wrong kinds or   *)
(* from a node to itself; an end is missing only for a page not written, a *)
(* syndicate that is not there, or a nested reference with its directory,  *)
(* which the page does link; and a public document points at something     *)
(* private only where its own text or sources name it.                     *)
LayerIsWellFormed(ask) ==
  LET repo == RepoOf(ask)
      graph == entityGraph(repo)
      loaded == loadSyndicates(repo)
      dangling == {e \in graph.edges : ~(Ends(e) \subseteq DOMAIN graph.nodes)}
      missing == UNION {Ends(e) \ DOMAIN graph.nodes : e \in dangling}
      leaks == {e \in graph.edges : <<"error", "private-closure">> \in LintEdge(graph, "extracted", e)}
  IN  /\ lintEntityGraph(graph, {}) \subseteq {<<"error", "dangling-endpoint">>, <<"error", "private-closure">>}
      /\ \A id \in missing : Head(id) \in {"agents", "private", "tools", "syndicate"}
      /\ \A id \in missing : Head(id) = "syndicate" => \A s \in loaded : id # entityId("syndicate", s.base)
      /\ \A e \in leaks : e.rel \in {"links_to", "documents"} /\ (e.rel = "documents" => ask.sources # {})
      /\ \A s \in loaded : s.private => \A m \in s.members : graph.nodes[entityId("agent", s.base \o m.name)].private
      /\ \A s \in syndicateSpecs(repo) : \A page \in s.links : Head(page) = "private" /\ ~s.private =>
           \E p \in loaded : p.page = page /\ p.private /\ p.base = ask.ref.base
=============================================================================
