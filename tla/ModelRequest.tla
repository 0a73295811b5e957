---------------------------- MODULE ModelRequest ----------------------------
(* What each adapter puts on the wire for one request: the conversation,   *)
(* the tools and the output format. A part of the conversation is its kind *)
(* and its place; the words are left out.                                  *)
EXTENDS ModelRoute

PartKinds == {"text", "thought", "image", "call", "reply"}
Placed(contents, i) ==
  [j \in 1 .. Len(contents[i].kinds) |-> [kind |-> contents[i].kinds[j], at |-> <<i, j>>]]
OfKind(parts, kinds) == SelectSeq(parts, LAMBDA p : p.kind \in kinds)
Message(role, parts) == IF parts = <<>> THEN <<>> ELSE <<[role |-> role, parts |-> parts]>>

(* Chat completions: replies go out as they are met, then the content's    *)
(* text with its calls (model) or its images (user).                       *)
ChatMessages(role, parts) ==
  LET replies == OfKind(parts, {"reply"})
      texts == OfKind(parts, {"text"})
  IN  [i \in 1 .. Len(replies) |-> [role |-> "tool", parts |-> <<replies[i]>>]]
        \o IF role = "model"
           THEN Message("assistant", texts \o OfKind(parts, {"call"}))
           ELSE Message("user", texts \o OfKind(parts, {"image"}))

ClaudeMessages(role, parts) ==
  Message(IF role = "model" THEN "assistant" ELSE "user", OfKind(parts, {"text", "call", "reply"}))

(* Plausible bug: a content's reasoning is replayed with its text. *)
ClaudeWithThoughts(role, parts) ==
  Message(IF role = "model" THEN "assistant" ELSE "user",
          OfKind(parts, {"text", "thought", "call", "reply"}))

(* Responses: calls and replies are items of their own, before the         *)
(* content's message; images of the user only.                             *)
ResponsesItems(role, parts) ==
  LET items == OfKind(parts, {"call", "reply"}) IN
  [i \in 1 .. Len(items) |-> [role |-> items[i].kind, parts |-> <<items[i]>>]]
    \o IF role = "model" THEN Message("assistant", OfKind(parts, {"text"}))
       ELSE Message("user", OfKind(parts, {"text", "image"}))

Adapter(row) == CASE row = "anthropic" -> "claude" [] row \in {"openai", "xai"} -> "responses"
                  [] row \in {"ollama", "gateway"} -> "chat" [] row = "gemini" -> "gemini"

Messages(row, contents) ==
  LET of(i) == LET role == contents[i].role
                   parts == Placed(contents, i)
               IN  CASE role = "system" -> <<>>
                     [] role # "system" /\ Adapter(row) = "chat" -> ChatMessages(role, parts)
                     [] role # "system" /\ Adapter(row) = "claude" -> ClaudeMessages(role, parts)
                     [] OTHER -> ResponsesItems(role, parts)
  IN  FlattenSeq([i \in 1 .. Len(contents) |-> of(i)])

(* The system text: the configured instruction first, then the system      *)
(* contents in order.                                                      *)
SystemParts(contents, instruction) ==
  (IF instruction THEN <<"instruction">> ELSE <<>>)
    \o FlattenSeq([i \in 1 .. Len(contents) |->
         IF contents[i].role = "system" /\ OfKind(Placed(contents, i), {"text"}) # <<>>
         THEN <<i>> ELSE <<>>])

Sentinels == {"web_search", "x_search", "collections_search"}
Functions_ == {"web_extract", "load_memory"}

(* processLlmRequest of the sentinels: x_search and collections_search     *)
(* only for xAI; web_search through Gemini's own config, else as an entry. *)
ToolsDict(p, tools) ==
  {t \in tools : \/ t \in Functions_
                 \/ t = "web_search" /\ p # "gemini"
                 \/ t \in {"x_search", "collections_search"} /\ p = "xai"}
GoogleSearch(p, tools) == p = "gemini" /\ "web_search" \in tools

FunctionTools(dict) == dict \ Sentinels
buildAnthropicTools(dict) == FunctionTools(dict) \cup (dict \cap {"web_search"})
buildChatTools(dict) == FunctionTools(dict)
buildResponsesTools(dict, collectionIds) ==
  FunctionTools(dict) \cup (dict \cap {"web_search", "x_search"})
    \cup (IF collectionIds THEN dict \cap {"collections_search"} ELSE {})

(* Plausible bug: an OpenAI-compatible gateway is asked for native search. *)
buildChatToolsNative(dict) == FunctionTools(dict) \cup (dict \cap {"web_search"})

WireTools(row, p, tools, collectionIds) ==
  LET dict == ToolsDict(p, tools) IN
  CASE Adapter(row) = "chat" -> buildChatTools(dict)
    [] Adapter(row) = "claude" -> buildAnthropicTools(dict)
    [] Adapter(row) = "responses" -> buildResponsesTools(dict, collectionIds)
    [] Adapter(row) = "gemini" ->
         FunctionTools(dict) \cup (IF GoogleSearch(p, tools) THEN {"web_search"} ELSE {})

(* How an output schema is asked for. *)
OutputFormat(row, schema, json, thinks) ==
  CASE schema /\ row = "ollama" -> "json_object"
    [] schema /\ Adapter(row) \in {"chat", "responses"} -> "json_schema"
    [] schema /\ Adapter(row) = "claude" -> IF thinks THEN "offered_tool" ELSE "forced_tool"
    [] ~schema /\ json /\ Adapter(row) \in {"chat", "responses"} -> "json_object"
    [] OTHER -> "text"

(* Claude: the budget is at least the minimum, and leaves room to answer.  *)
ClaudeLimits(maxOutputTokens, budget) ==
  LET most == IF maxOutputTokens = 0 THEN 4096 ELSE maxOutputTokens
      least(a, b) == IF a < b THEN b ELSE a
  IN  IF budget <= 0 THEN [maxTokens |-> most, budget |-> 0]
      ELSE [budget |-> least(budget, 1024), maxTokens |-> least(most, least(budget, 1024) + 2048)]

(* Plausible bug: the minimum budget is not counted into the answer's room. *)
ClaudeLimitsTight(maxOutputTokens, budget) ==
  LET most == IF maxOutputTokens = 0 THEN 4096 ELSE maxOutputTokens IN
  [maxTokens |-> most, budget |-> budget]

(* ADK builds conversations in which calls are the model's, replies the    *)
(* user's.                                                                 *)
KindsOf(role) == CASE role = "model" -> {"text", "thought", "image", "call"}
                   [] role = "user" -> {"text", "image", "reply"}
                   [] role = "system" -> {"text"}
ContentsOf(role) == {[role |-> role, kinds |-> k] :
  k \in {<<a>> : a \in KindsOf(role)} \cup {<<a, b>> : a, b \in KindsOf(role)}}
RequestAsks ==
  LET all == UNION {ContentsOf(r) : r \in {"model", "user", "system"}} IN
  {<<c>> : c \in all} \cup {<<c, d>> : c, d \in all}

AllParts(contents) == FlattenSeq([i \in 1 .. Len(contents) |->
  IF contents[i].role = "system" THEN <<>> ELSE Placed(contents, i)])
WireParts(row, contents) ==
  FlattenSeq([i \in 1 .. Len(Messages(row, contents)) |-> Messages(row, contents)[i].parts])

(* Whatever the adapter, the conversation arrives with no reasoning in it, *)
(* every text once and in order, every tool call and reply once and in     *)
(* order, so that a reply still follows its call; and the user's images    *)
(* arrive exactly where the capability matrix says the adapter can see.    *)
TalkSurvives(contents) ==
  \A row \in Rows \ {"gemini"} :
    LET wire == WireParts(row, contents)
        whole == AllParts(contents)
        usersImages == SelectSeq(whole, LAMBDA p : p.kind = "image" /\ contents[p.at[1]].role = "user")
    IN  /\ OfKind(wire, {"thought"}) = <<>>
        /\ OfKind(wire, {"text"}) = OfKind(whole, {"text"})
        /\ OfKind(wire, {"call", "reply"}) = OfKind(whole, {"call", "reply"})
        /\ OfKind(wire, {"image"}) =
             IF CAPABILITY_MATRIX[row]["vision"] = "supported" THEN usersImages ELSE <<>>

(* The tools the report calls native are the server-side tools the request *)
(* carries (collections_search only with collections configured), and the  *)
(* matrix's native search, structured output and thinking rows say what    *)
(* the request asks for.                                                   *)
ReportMatchesWire(ask) == \A r \in {resolveModel(ask, env) : env \in Env} :
  LET row == r.adapter
  IN  /\ \A tools \in SUBSET (Sentinels \cup Functions_), ids \in BOOLEAN :
            LET report == describeCapabilities(r.plan, tools)
                wire == WireTools(row, r.provider, tools, ids)
            IN  /\ wire \cap Sentinels = report.native \ (IF ids THEN {} ELSE {"collections_search"})
                /\ wire \ Sentinels = report.portable
                /\ "web_search" \in tools =>
                     ("web_search" \in wire <=> CAPABILITY_MATRIX[row]["native_search"] = "supported")
      /\ row # "gemini" =>
           (CAPABILITY_MATRIX[row]["structured_output"] = "supported"
              <=> OutputFormat(row, TRUE, FALSE, FALSE) # "json_object")
      /\ \A most \in {0, 1, 8192}, budget \in {0, 1, 5000} :
           LET limits == ClaudeLimits(most, budget) IN
           limits.budget > 0 => limits.budget >= 1024 /\ limits.maxTokens > limits.budget
-----------------------------------------------------------------------------
(* The schemas of tools and answers on their way to a provider that is not *)
(* Gemini. A JSON value is a string, an ordered list, a list whose order   *)
(* says nothing, or an object.                                             *)

Str(s) == [str |-> s]
List(vs) == [list |-> vs]
Names(ns) == [names |-> ns]
Obj(f) == [obj |-> f]
IsStr(v) == "str" \in DOMAIN v
IsList(v) == "list" \in DOMAIN v
IsNames(v) == "names" \in DOMAIN v
IsObj(v) == "obj" \in DOMAIN v
EmptySchema == Obj([type |-> Str("object"), properties |-> Obj([k \in {} |-> Str("")])])

toLowerCase(t) ==
  CASE t = "OBJECT" -> "object" [] t = "STRING" -> "string" [] t = "ARRAY" -> "array"
    [] t = "NULL" -> "null" [] OTHER -> t

LowerType(v) ==
  CASE IsStr(v) -> Str(toLowerCase(v.str))
    [] IsNames(v) -> Names({toLowerCase(t) : t \in v.names})
    [] OTHER -> v

(* Whatever stands under a key `type` is a type, under `enum` and          *)
(* `required` data, also when it is a property that is named so.           *)
RECURSIVE normalizeNode(_)
normalizeNode(v) ==
  CASE IsList(v) -> List([i \in DOMAIN v.list |-> normalizeNode(v.list[i])])
    [] IsObj(v) -> Obj([k \in DOMAIN v.obj |->
         CASE k = "type" -> LowerType(v.obj[k])
           [] k \in {"enum", "required"} -> v.obj[k]
           [] OTHER -> normalizeNode(v.obj[k])])
    [] OTHER -> v

(* Plausible bug: the values of an enum are lowered with the types.        *)
RECURSIVE normalizeAll(_)
normalizeAll(v) ==
  CASE IsList(v) -> List([i \in DOMAIN v.list |-> normalizeAll(v.list[i])])
    [] IsObj(v) -> Obj([k \in DOMAIN v.obj |->
         IF k \in {"type", "enum"} THEN LowerType(v.obj[k]) ELSE normalizeAll(v.obj[k])])
    [] OTHER -> v

toLowercaseJsonSchema(v) == LET low == normalizeNode(v) IN IF IsObj(low) THEN low ELSE EmptySchema

(* Closed and wholly required, through properties and items.               *)
RECURSIVE strictNode(_)
strictNode(v) ==
  CASE IsList(v) -> List([i \in DOMAIN v.list |-> strictNode(v.list[i])])
    [] IsObj(v) ->
         LET node == v.obj
             closes == "properties" \in DOMAIN node /\ IsObj(node.properties)
             added == IF closes THEN {"required", "additionalProperties"} ELSE {}
         IN  Obj([k \in DOMAIN node \cup added |->
               CASE closes /\ k = "properties" ->
                      Obj([p \in DOMAIN node.properties.obj |-> strictNode(node.properties.obj[p])])
                 [] closes /\ k = "required" -> Names(DOMAIN node.properties.obj)
                 [] closes /\ k = "additionalProperties" -> Str("false")
                 [] k = "items" -> strictNode(node[k])
                 [] OTHER -> node[k]])
    [] OTHER -> v
toStrictJsonSchema(v) == strictNode(toLowercaseJsonSchema(v))

(* Plausible bug: only the outermost object is closed.                     *)
strictOutside(v) ==
  IF IsObj(v) /\ "properties" \in DOMAIN v.obj
  THEN Obj([k \in DOMAIN v.obj \cup {"required", "additionalProperties"} |->
         CASE k = "required" -> Names(DOMAIN v.obj.properties.obj)
           [] k = "additionalProperties" -> Str("false")
           [] OTHER -> v.obj[k]])
  ELSE v

(* What a tool is declared as. One that answers for itself is asked, and   *)
(* declares nothing when it gives nothing; a plain object is read.         *)
Undeclared == [name |-> "none", parameters |-> Str("none")]
toolDeclarationFor(tool) ==
  LET source == IF tool.answers = "no" THEN tool.own ELSE tool.declared
      name == IF source.name = "none" THEN tool.own.name ELSE source.name
  IN  IF tool.answers \in {"throws", "nothing"} \/ name = "none" THEN Undeclared
      ELSE [name |-> name,
            parameters |-> toLowercaseJsonSchema(IF source.parameters = Str("none") THEN EmptySchema
                                                 ELSE source.parameters)]

(* Plausible bug (the code's once): the tool's own field is read although  *)
(* it answers.                                                             *)
declarationOfFields(tool) ==
  IF tool.own.name = "none" THEN Undeclared
  ELSE [name |-> tool.own.name,
        parameters |-> toLowercaseJsonSchema(IF tool.own.parameters = Str("none") THEN EmptySchema
                                             ELSE tool.own.parameters)]

Leaves ==
  LET inner == Obj([a |-> Obj([type |-> Str("STRING")])])
      object == Obj([type |-> Str("OBJECT"), properties |-> inner])
  IN  {Obj([type |-> Str("STRING"), enum |-> Names({"OBJECT", "low"})]),
       Obj([type |-> Names({"STRING", "NULL"})]), object,
       Obj([type |-> Str("ARRAY"), items |-> object]), Obj([anyOf |-> List(<<object, Str("STRING")>>)])}
PropertySets == UNION {[names -> Leaves] : names \in {{}, {"a"}, {"a", "b"}, {"type"}, {"a", "enum"}, {"required"}}}
Schemas ==
  {Obj([type |-> Str("OBJECT"), properties |-> Obj(ps), required |-> Names(r)]) :
     ps \in PropertySets, r \in {{}, {"a"}}}
  \cup {Str("STRING"), List(<<>>)} \cup Leaves
Declared == [name : {"none", "tool"}, parameters : {Str("none"), CHOOSE s \in Leaves : "items" \in DOMAIN s.obj}]
SchemaAsks ==
  [schema : Schemas, tool : {[answers |-> "no", own |-> [name |-> "tool", parameters |-> Str("none")],
                              declared |-> Undeclared]}]
    \cup [schema : {EmptySchema},
          tool : [answers : {"no", "yes", "throws", "nothing"}, own : Declared, declared : Declared]]

(* The schemas in a schema, itself too: through its properties, items and  *)
(* alternatives. `spared` are the properties whose schema is not entered.  *)
RECURSIVE Within(_, _)
Within(v, spared) ==
  LET o == v.obj
      below == (IF "properties" \in DOMAIN o THEN {o.properties.obj[p] : p \in DOMAIN o.properties.obj \ spared} ELSE {})
               \cup (IF "items" \in DOMAIN o THEN {o.items} ELSE {})
               \cup (IF "anyOf" \in DOMAIN o THEN {o.anyOf.list[i] : i \in DOMAIN o.anyOf.list} ELSE {})
  IN  {v} \cup UNION {Within(w, spared) : w \in {w \in below : IsObj(w)}}
Keywords == {"type", "enum", "required"}
ObjectNodes(v) == {w \in Within(v, {}) : "properties" \in DOMAIN w.obj}
NotAlternatives(v) == \A w \in Within(v, {}) : "anyOf" \notin DOMAIN w.obj

\* A provider is sent the dialect it takes: every type within the schema is spelt
\* low, save below a property that has a keyword's name, and what is data (the
\* values of an enum, the names required, the names of properties) is as declared.
DialectIsBridged(schema) ==
  LET low == toLowercaseJsonSchema(schema) IN
  IF ~IsObj(schema) THEN low = EmptySchema
  ELSE /\ \A w \in Within(low, Keywords) : "type" \in DOMAIN w.obj => LowerType(w.obj.type) = w.obj.type
       /\ toLowercaseJsonSchema(low) = low
       /\ \A k \in {"enum", "required"} :
            {w.obj[k] : w \in {w \in Within(low, {}) : k \in DOMAIN w.obj}}
              = {w.obj[k] : w \in {w \in Within(schema, {}) : k \in DOMAIN w.obj}}
       /\ {DOMAIN w.obj.properties.obj : w \in ObjectNodes(low)}
            = {DOMAIN w.obj.properties.obj : w \in ObjectNodes(schema)}

\* A schema asked for strictly is closed in every object, all of whose properties
\* are required (objects among alternatives apart), and is a schema the plain one
\* names the same properties of; asking twice changes nothing.
StrictIsStrict(schema) ==
  LET strict == toStrictJsonSchema(schema) IN
  /\ NotAlternatives(strict) =>
       \A w \in ObjectNodes(strict) :
         /\ "additionalProperties" \in DOMAIN w.obj /\ w.obj.additionalProperties = Str("false")
         /\ w.obj.required = Names(DOMAIN w.obj.properties.obj)
  /\ strictNode(strict) = strict
  /\ {DOMAIN w.obj.properties.obj : w \in ObjectNodes(strict)}
       = {DOMAIN w.obj.properties.obj : w \in ObjectNodes(toLowercaseJsonSchema(schema))}

\* A tool that answers for itself is declared with what it answers, in the bridged
\* dialect, and one that answers nothing is not made up from its other fields.
DeclarationIsTheTools(tool) ==
  LET d == toolDeclarationFor(tool) IN
  /\ tool.answers \in {"throws", "nothing"} => d = Undeclared
  /\ tool.answers = "yes" /\ d # Undeclared =>
       d.parameters = toLowercaseJsonSchema(tool.declared.parameters)
  /\ d # Undeclared => IsObj(d.parameters) /\ d.name # "none"

SchemaTravels(q) == DialectIsBridged(q.schema) /\ StrictIsStrict(q.schema) /\ DeclarationIsTheTools(q.tool)
=============================================================================
