-------------------------- MODULE SyndicateLoader --------------------------
(***************************************************************************)
(* From a syndicate's YAML to what runs (lib/loadSyndicate.ts,              *)
(* syndicateSchema.ts, compile.ts, dispatch.ts, guards/index.ts,            *)
(* toolRegistry.ts): tokens are replaced by bindings, the result is         *)
(* validated, guards are collected over nested syndicates, the agents are   *)
(* compiled, and a dispatch syndicate's route is resolved.  A file is a     *)
(* value: a map, a list, a string made of literals and {{tokens}}, or a     *)
(* number.  The file system is a function from names to values.             *)
(***************************************************************************)
EXTENDS Integers, Sequences, SequencesExt, FiniteSetsExt, TLC

Map(of) == [kind |-> "map", of |-> of]
List(of) == [kind |-> "list", of |-> of]
Num(n) == [kind |-> "number", of |-> n]
Str(pieces) == [kind |-> "string", of |-> pieces]
Lit(text) == [token |-> FALSE, is |-> text]
Token(name) == [token |-> TRUE, is |-> name]
Text(text) == Str(<<Lit(text)>>)

Has(v, key) == v.kind = "map" /\ key \in DOMAIN v.of
Kind(v, key) == IF Has(v, key) THEN v.of[key].kind ELSE "absent"
ItemsOf(v, key) == IF Kind(v, key) = "list" THEN v.of[key].of ELSE <<>>

(***************************************************************************)
(* Interpolation.                                                           *)
(***************************************************************************)

\* A string that is one token takes the binding's own type; elsewhere a token
\* becomes its text.  A token that nothing binds stays.
interpolateString(v, vars) ==
    LET Replaced(p) == IF p.token /\ p.is \in DOMAIN vars
                       THEN Lit(vars[p.is].of) ELSE p
    IN  IF Len(v.of) = 1 /\ v.of[1].token /\ v.of[1].is \in DOMAIN vars
        THEN IF vars[v.of[1].is].kind = "string" THEN Text(vars[v.of[1].is].of)
             ELSE vars[v.of[1].is]
        ELSE Str([n \in DOMAIN v.of |-> Replaced(v.of[n])])

RECURSIVE interpolateDeep(_, _)
interpolateDeep(v, vars) ==
    CASE v.kind = "string" -> interpolateString(v, vars)
      [] v.kind \in {"map", "list"} ->
           [v EXCEPT !.of = [x \in DOMAIN v.of |-> interpolateDeep(v.of[x], vars)]]
      [] OTHER -> v

\* A binding is a scalar: [kind |-> "string" or "number", of |-> its value].
Scalar(v) == v.kind = "number" \/ (v.kind = "string" /\ \A n \in DOMAIN v.of : ~v.of[n].token)

Bindings(raw, bindings) ==
    LET given == IF Kind(raw, "variables") = "map" THEN raw.of["variables"].of ELSE <<>>
        yaml == [x \in {y \in DOMAIN given : Scalar(given[y])} |->
                   IF given[x].kind = "string"
                   THEN [kind |-> "string", of |-> given[x].of[1].is]
                   ELSE given[x]]
    IN  bindings @@ yaml @@ ("current_date" :> [kind |-> "string", of |-> "today"])

(***************************************************************************)
(* Validation.                                                              *)
(***************************************************************************)

AgentKeys ==
    {"name", "description", "model", "instruction", "globalInstruction", "tools",
     "includeContents", "disallowTransferToParent", "disallowTransferToPeers",
     "outputKey", "generateContentConfig", "outputSchema", "mcp_server_url", "orchestration"}

Known(at) ==
    CASE at = "root" -> {"syndicate_name", "orchestrator", "subagents", "dispatch", "variables",
                         "memory_system", "guards", "memory_namespace",
                         "memory_extraction_rules", "max_steps"}
      [] at = "agent" -> AgentKeys
      [] at = "subagent" -> AgentKeys \cup {"yaml_reference", "a2a_agent_url"}
      [] at = "dispatch" -> {"default_route", "route_key", "reason_key", "route_overrides"}
      [] at = "override" -> {"route", "pattern", "flags", "reason"}

Required(at) ==
    CASE at = "root" -> {"syndicate_name", "orchestrator"}
      [] at = "agent" -> {"name", "model", "instruction"}
      [] at = "subagent" -> {"name", "description"}
      [] at = "dispatch" -> {"default_route"}
      [] at = "override" -> {"route", "pattern"}

IsName(v) ==
    v.kind = "string" /\ \A n \in DOMAIN v.of : ~v.of[n].token /\ v.of[n].is # "user"

\* The types of the values that the rest of the module reads.
WellTyped(key, v) ==
    CASE key = "name" -> IsName(v)
      [] key = "max_steps" -> v.kind = "number" /\ v.of > 0
      [] key \in {"guards", "tools"} ->
           v.kind = "list" /\ \A n \in DOMAIN v.of : v.of[n].kind = "string"
      [] key \in {"subagents", "route_overrides"} -> v.kind = "list"
      [] key \in {"orchestrator", "dispatch", "generateContentConfig"} -> v.kind = "map"
      [] key = "variables" -> v.kind = "map" /\ \A x \in DOMAIN v.of : Scalar(v.of[x])
      [] OTHER -> v.kind = "string"

Problem(what, at, key) == [what |-> what, at |-> at, key |-> key]

ShapeProblems(v, at) ==
    IF v.kind # "map" THEN {Problem("type", at, "")}
    ELSE {Problem("typo", at, key) : key \in DOMAIN v.of \ Known(at)}
         \cup {Problem("required", at, key) : key \in Required(at) \ DOMAIN v.of}
         \cup {Problem("type", at, key) :
                 key \in {k \in DOMAIN v.of \cap Known(at) : ~WellTyped(k, v.of[k])}}

SchemaProblems(raw) ==
    ShapeProblems(raw, "root")
    \cup (IF Has(raw, "orchestrator") THEN ShapeProblems(raw.of["orchestrator"], "agent") ELSE {})
    \cup UNION {ShapeProblems(sub, "subagent") : sub \in ToSet(ItemsOf(raw, "subagents"))}
    \cup (IF Has(raw, "dispatch")
          THEN ShapeProblems(raw.of["dispatch"], "dispatch")
               \cup UNION {ShapeProblems(o, "override") :
                             o \in ToSet(ItemsOf(raw.of["dispatch"], "route_overrides"))}
          ELSE {})

\* Letters and digits in lower case: what routes are compared by.
Norm(text) == CASE text \in {"Writer", "writer", "WRITER", "wri-ter"} -> "writer" [] OTHER -> text
NormOf(v) == [n \in DOMAIN v.of |-> Norm(v.of[n].is)]

Sane(url) == url.of[1].is \in {"https://remote"}

SubagentProblems(sub) ==
    LET ref == Kind(sub, "yaml_reference") = "string"
        remote == Kind(sub, "a2a_agent_url") = "string"
    IN  IF sub.kind # "map" THEN {} ELSE
        (IF ref /\ remote THEN {Problem("both", "subagent", "a2a_agent_url")} ELSE {})
        \cup (IF ~ref /\ ~remote /\ ~Has(sub, "instruction")
              THEN {Problem("required", "subagent", "instruction")} ELSE {})
        \cup (IF remote /\ ~Sane(sub.of["a2a_agent_url"])
                 /\ \A n \in DOMAIN sub.of["a2a_agent_url"].of :
                        ~sub.of["a2a_agent_url"].of[n].token
              THEN {Problem("url", "subagent", "a2a_agent_url")} ELSE {})

NamesOf(raw) ==
    LET subs == ItemsOf(raw, "subagents")
        all == (IF Has(raw, "orchestrator") THEN <<raw.of["orchestrator"]>> ELSE <<>>) \o subs
        named == SelectSeq(all, LAMBDA a : Kind(a, "name") = "string")
    IN  [n \in DOMAIN named |-> named[n].of["name"]]

SubNames(raw) ==
    LET named == SelectSeq(ItemsOf(raw, "subagents"), LAMBDA a : Kind(a, "name") = "string")
    IN  [n \in DOMAIN named |-> named[n].of["name"]]

(* Plausible bug: the default route is not looked up. *)
CrossFieldsLoosely(raw) ==
    UNION {SubagentProblems(sub) : sub \in ToSet(ItemsOf(raw, "subagents"))}
    \cup (IF IsInjective(NamesOf(raw)) THEN {} ELSE {Problem("duplicate", "root", "name")})

crossFieldProblems(raw) ==
    UNION {SubagentProblems(sub) : sub \in ToSet(ItemsOf(raw, "subagents"))}
    \cup (IF IsInjective(NamesOf(raw)) THEN {} ELSE {Problem("duplicate", "root", "name")})
    \cup (IF Has(raw, "dispatch") /\ Kind(raw.of["dispatch"], "default_route") = "string"
             /\ \A n \in DOMAIN SubNames(raw) :
                    NormOf(SubNames(raw)[n]) # NormOf(raw.of["dispatch"].of["default_route"])
          THEN {Problem("route", "dispatch", "default_route")} ELSE {})

Without(v, key) == Map(Restrict(v.of, DOMAIN v.of \ {key}))
Refused(problems) == [kind |-> "refused", of |-> problems]

\* validateSyndicateConfig: every problem of both kinds at once; a team left out
\* is an empty one.
validateSyndicateConfig(raw) ==
    IF raw.kind # "map" THEN Refused({Problem("type", "root", "")})
    ELSE LET problems == SchemaProblems(raw) \cup crossFieldProblems(raw)
         IN  IF problems # {} THEN Refused(problems)
             ELSE Map(raw.of @@ ("subagents" :> List(<<>>)))

\* resolveAndValidate: overrides replace whole keys, after the validation.
resolveAndValidate(raw, bindings, overrides) ==
    LET interpolated == IF raw.kind = "map" THEN interpolateDeep(raw, Bindings(raw, bindings))
                        ELSE raw
        valid == validateSyndicateConfig(interpolated)
    IN  IF valid.kind = "refused" THEN valid
        ELSE Map(overrides @@ Without(valid, "variables").of)

(***************************************************************************)
(* Files and guards.                                                        *)
(***************************************************************************)

Missing == Refused({Problem("missing", "root", "")})

\* A name is looked for in the agents directory, then among the shipped ones.
loadSyndicate(files, name, bindings, overrides) ==
    LET found == SelectSeq(<<"root", "examples", "templates">>,
                           LAMBDA dir : <<dir, name>> \in DOMAIN files)
    IN  IF found = <<>> THEN Missing
        ELSE resolveAndValidate(files[<<Head(found), name>>], bindings, overrides)

\* A nested syndicate is loaded with no bindings but its own.
Nested(files, ref) == loadSyndicate(files, ref, <<>>, <<>>)

RefOf(sub) == IF Kind(sub, "yaml_reference") = "string"
              THEN sub.of["yaml_reference"].of[1].is ELSE ""

OwnGuards(config) == {g.of[1].is : g \in ToSet(ItemsOf(config, "guards"))}

(* Plausible bug: only the guards of the syndicate itself. *)
GuardsOfTop(config, files, seen) == [names |-> OwnGuards(config), seen |-> seen]

\* The union over the composition; each reference once, and one that will not
\* load is left to the compiler to report.
RECURSIVE collectGuards(_, _, _)
collectGuards(config, files, seen) ==
    LET Visit(acc, sub) ==
            LET ref == RefOf(sub)
                nested == Nested(files, ref)
                below == collectGuards(nested, files, acc.seen \cup {ref})
            IN  IF ref = "" \/ ref \in acc.seen THEN acc
                ELSE IF nested.kind = "refused" THEN [acc EXCEPT !.seen = @ \cup {ref}]
                ELSE [names |-> acc.names \cup below.names, seen |-> below.seen]
    IN  FoldLeft(Visit, [names |-> OwnGuards(config), seen |-> seen],
                 ItemsOf(config, "subagents"))

resolveGuards(names, registered) == names \cap registered

(***************************************************************************)
(* Compilation.                                                             *)
(***************************************************************************)

isDispatchSyndicate(config) ==
    Has(config, "dispatch") /\ Kind(config.of["dispatch"], "default_route") = "string"

Registered == {"web_search", "load_memory"}
McpTools == <<"fetch", "web_search">>

\* Unknown names are skipped; an MCP server's tools come last, without those
\* whose name is taken.
resolveAgentTools(agent, mcp) ==
    LET names == ItemsOf(agent, "tools")
        own == SelectSeq([n \in DOMAIN names |-> names[n].of[1].is],
                         LAMBDA t : t \in Registered)
    IN  IF ~mcp \/ ~Has(agent, "mcp_server_url") THEN own
        ELSE own \o SelectSeq(McpTools, LAMBDA t : t \notin ToSet(own))

NameOf(agent) == agent.of["name"].of[1].is
Agent(name, tools) == [name |-> name, tools |-> tools, agents |-> <<>>]
Broken(name) == [name |-> name, tools |-> <<"broken">>, agents |-> <<>>]
Endless(name) == [name |-> name, tools |-> <<"endless">>, agents |-> <<>>]
Stuck(agent) == agent.tools \in {<<"broken">>, <<"endless">>}

\* compileGraph of a syndicate and compileSubagent of its team.  Nothing stops
\* syndicates that refer to each other in a circle: "depth" stands for the stack.
RECURSIVE compileGraph(_, _, _, _)
compileGraph(config, files, name, depth) ==
    LET subs == IF isDispatchSyndicate(config) THEN <<>> ELSE ItemsOf(config, "subagents")
        Compiled(sub) ==
            IF Has(sub, "a2a_agent_url") THEN Agent(NameOf(sub), <<"remote">>)
            ELSE IF RefOf(sub) = "" THEN Agent(NameOf(sub), resolveAgentTools(sub, TRUE))
            ELSE LET nested == Nested(files, RefOf(sub))
                 IN  IF nested.kind = "refused" THEN Broken(NameOf(sub))
                     ELSE compileGraph(nested, files, NameOf(sub), depth - 1)
        agents == [n \in DOMAIN subs |-> Compiled(subs[n])]
        bad == SelectSeq(agents, Stuck)
    IN  IF depth = 0 THEN Endless(name)
        ELSE IF bad # <<>> THEN Head(bad)
        ELSE [name |-> name, agents |-> agents,
              tools |-> resolveAgentTools(config.of["orchestrator"], FALSE)]

(***************************************************************************)
(* Dispatch.                                                                *)
(***************************************************************************)

\* The first subagent whose name is the candidate's but for case and signs.
matchSubagent(candidate, config) ==
    LET same == SelectSeq(ItemsOf(config, "subagents"),
                          LAMBDA s : NormOf(s.of["name"]) = NormOf(candidate))
    IN  IF candidate.of = <<>> \/ same = <<>> THEN "" ELSE NameOf(Head(same))

Resolution(route, fellBack, viaOverride) ==
    [route |-> route, fellBack |-> fellBack, viaOverride |-> viaOverride]

DefaultResolution(config) ==
    LET declared == matchSubagent(config.of["dispatch"].of["default_route"], config)
        subs == ItemsOf(config, "subagents")
        first == IF subs = <<>> THEN "" ELSE NameOf(subs[1])
    IN  Resolution(IF declared = "" THEN first ELSE declared, TRUE, FALSE)

\* The router's output: nothing, prose, or a JSON value, bare or fenced.
resolveRoute(output, config) ==
    LET dispatch == config.of["dispatch"]
        key == IF Has(dispatch, "route_key") THEN dispatch.of["route_key"].of[1].is ELSE "route"
    IN  IF Kind(output, key) # "string" THEN DefaultResolution(config)
        ELSE LET matched == matchSubagent(output.of[key], config)
             IN  IF matched = "" THEN DefaultResolution(config)
                 ELSE Resolution(matched, FALSE, FALSE)

Invalid == Text("[")

\* The first rule whose route is declared, whose pattern compiles and matches.
matchRouteOverride(message, config) ==
    LET Applies(o) == /\ matchSubagent(o.of["route"], config) # ""
                      /\ o.of["pattern"] # Invalid
                      /\ o.of["pattern"] = message
        rules == SelectSeq(ItemsOf(config.of["dispatch"], "route_overrides"), Applies)
    IN  IF rules = <<>> THEN Resolution("", TRUE, FALSE)
        ELSE Resolution(matchSubagent(rules[1].of["route"], config), FALSE, TRUE)

\* What a dispatch turn runs: an override before the router.
RouteOf(message, output, config) ==
    LET override == matchRouteOverride(message, config)
    IN  IF override.viaOverride THEN override ELSE resolveRoute(output, config)

(***************************************************************************)
(* Property.                                                                *)
(***************************************************************************)

Orchestrator == Map([name |-> Text("chief"), model |-> Text("m"), instruction |-> Text("i"),
                     tools |-> List(<<Text("web_search"), Text("nobody")>>)])

Sub(name, more) == Map([name |-> Text(name), description |-> Text("d")] @@ more)
Inline == [instruction |-> Text("i")]
To(file) == [yaml_reference |-> Text(file)]
Remote(url) == [a2a_agent_url |-> url]

Teams ==
    {<<Sub("Writer", Inline), Sub("b", To("q"))>>,
     <<Sub("b", To("q")), Sub("writer", To("r"))>>,
     <<Sub("b", Remote(Str(<<Token("url")>>))), Sub("writer", Inline @@ [mcp_server_url |-> Text("u")])>>,
     <<Sub("writer", Inline), Sub("chief", Inline)>>,
     <<Sub("writer", To("q") @@ Remote(Text("file")))>>,
     <<Sub("writer", [tols |-> Text("x")])>>,
     <<>>}

Rule(route, pattern) == Map([route |-> Text(route), pattern |-> pattern])

Dispatches ==
    {<<>>,
     [dispatch |-> Map([default_route |-> Text("wri-ter")])],
     [dispatch |-> Map([default_route |-> Text("b"), route_key |-> Text("to"),
                        route_overrides |-> List(<<Rule("nobody", Text("hello")), Rule("b", Invalid),
                                                   Rule("writer", Text("hello"))>>)])],
     [dispatch |-> Map([default_route |-> Text("nobody")])]}

Limits == {<<>>, [max_steps |-> Str(<<Token("n")>>)]}

Top(team, dispatch, limit) ==
    Map([syndicate_name |-> Text("s"), orchestrator |-> Orchestrator, subagents |-> List(team),
         guards |-> List(<<Text("g1")>>)] @@ dispatch @@ limit)

Inner(team, guard) ==
    Map([syndicate_name |-> Text("s"), orchestrator |-> Orchestrator,
         guards |-> List(<<Text(guard)>>), subagents |-> List(team)])

\* q refers to r, to itself or to the top; r stands alone, is missing or is not
\* a syndicate.
Libraries ==
    {files : files \in
        {(<<"root", "p">> :> Inner(<<Sub("c", To("q"))>>, "g1"))
         @@ (<<"examples", "q">> :> Inner(<<Sub("c", To(ref))>>, "g2"))
         @@ r : ref \in {"r", "q", "p"},
                r \in {<<>>, <<"templates", "r">> :> Inner(<<>>, "g3"),
                       <<"root", "r">> :> Text("prose")}}}

Outputs ==
    {Str(<<>>), Text("prose"), List(<<>>), Map([route |-> Text("WRITER")]),
     Map([route |-> Text("writer"), to |-> Text("b")]), Map([route |-> Num(1)])}

LoaderAsks ==
    [team : Teams, dispatch : Dispatches, limit : Limits, files : Libraries,
     bindings : {<<>>, [n |-> [kind |-> "number", of |-> 3],
                        url |-> [kind |-> "string", of |-> "https://remote"]]}]

ConfigOf(ask) == resolveAndValidate(Top(ask.team, ask.dispatch, ask.limit), ask.bindings, <<>>)

\* Reference: the files a composition reaches, those of them that load.
Loads(files, refs) == {ref \in refs : Nested(files, ref).kind = "map"}
RefsOf(config) == {RefOf(s) : s \in ToSet(ItemsOf(config, "subagents"))} \ {""}
Reached(config, files) ==
    LET Grow(refs) == refs \cup UNION {RefsOf(Nested(files, r)) : r \in Loads(files, refs)}
    IN  Grow(Grow(Grow(RefsOf(config))))

InCircle(ref, files) ==
    LET below == IF Nested(files, ref).kind = "map" THEN Reached(Nested(files, ref), files) ELSE {}
    IN  ref \in below

\* A syndicate that is accepted has distinct agent names; a dispatch turn of it
\* always runs a declared subagent, the default one when the router names none;
\* the guards that run are those of every nested file that loads, whatever circle
\* the files form; and it compiles to one agent for each of its team unless a
\* nested file is refused or refers back to itself.
LoadedRunsWhole(ask) ==
    LET config == ConfigOf(ask)
        reached == Reached(config, ask.files)
        team == ItemsOf(config, "subagents")
        names == {NameOf(s) : s \in ToSet(team)}
        agent == compileGraph(config, ask.files, "chief", 6)
    IN  config.kind = "map" =>
        /\ Cardinality(names \cup {"chief"}) = Len(team) + 1
        /\ collectGuards(config, ask.files, {}).names =
              OwnGuards(config)
              \cup UNION {OwnGuards(Nested(ask.files, r)) : r \in Loads(ask.files, reached)}
        /\ isDispatchSyndicate(config) =>
              \A message \in {Text("hello"), Text("bye")}, output \in Outputs :
                LET r == RouteOf(message, output, config)
                IN  /\ r.route \in names
                    /\ r.fellBack =>
                          NormOf(Text(r.route)) = NormOf(config.of["dispatch"].of["default_route"])
        /\ ~isDispatchSyndicate(config) =>
              /\ (agent.tools = <<"endless">> => \E r \in reached : InCircle(r, ask.files))
              /\ (~Stuck(agent) => [n \in DOMAIN agent.agents |-> agent.agents[n].name] =
                                   [n \in DOMAIN team |-> NameOf(team[n])])
              /\ (Stuck(agent) => \E r \in reached : r \notin Loads(ask.files, reached)
                                                     \/ InCircle(r, ask.files))
=============================================================================
