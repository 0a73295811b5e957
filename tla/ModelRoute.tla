----------------------------- MODULE ModelRoute -----------------------------
(* How a model id finds its provider, its adapter, its key and its way to  *)
(* the wire, and what the capability report says of that way. A model is   *)
(* its prefix and whether the id is provider-qualified; the environment is *)
(* the providers with a real key, MODEL_GATEWAY and its key.               *)
EXTENDS Naturals, Sequences, FiniteSets, SequencesExt

Providers == {"gemini", "anthropic", "openai", "xai", "ollama"}
Gateways == {"vercel", "openrouter"}
Model == [prefix : {"gemini-", "claude-", "gpt-", "o3", "grok-", "ollama/", "meta/"}]
Env == [keys : SUBSET (Providers \ {"ollama"}),
        gateway : {"", "unknown"} \cup Gateways, gatewayKey : BOOLEAN]

providerForModel(m) ==
  CASE m.prefix = "ollama/" -> "ollama"
    [] m.prefix = "claude-" -> "anthropic"
    [] m.prefix \in {"gpt-", "o3"} -> "openai"
    [] m.prefix = "grok-" -> "xai"
    [] OTHER -> "gemini"

providerKeyPresent(p, env) == p = "ollama" \/ p \in env.keys

gatewayUsable(env) == env.gateway \in Gateways /\ env.gatewayKey

(* Plausible bug: the caller's key is not taken for a way to the provider. *)
planWithoutCaller(m, callerKey, env) ==
  LET p == providerForModel(m) IN
  IF providerKeyPresent(p, env) \/ ~gatewayUsable(env)
  THEN [provider |-> p, transport |-> "direct", funded |-> providerKeyPresent(p, env)]
  ELSE [provider |-> p, transport |-> "gateway", funded |-> TRUE]

planTransport(m, callerKey, env) ==
  LET p == providerForModel(m)
      direct == providerKeyPresent(p, env) \/ callerKey
  IN  IF direct \/ ~gatewayUsable(env)
      THEN [provider |-> p, transport |-> "direct", funded |-> direct]
      ELSE [provider |-> p, transport |-> "gateway", funded |-> TRUE]

(* The id the gateway is asked for: mapped by the deployment, as it is when *)
(* already qualified, or under the gateway's slug for the provider, with    *)
(* Claude's dashed version number dotted.                                   *)
Qualified(m) == m.prefix \in {"ollama/", "meta/"}
Slug(gateway, p) ==
  CASE p = "gemini" -> "google"
    [] p = "xai" /\ gateway = "openrouter" -> "x-ai"
    [] OTHER -> p
gatewayWireModel(m, env, mapped) ==
  CASE mapped -> [slug |-> "mapped", dotted |-> FALSE]
    [] ~mapped /\ (Qualified(m) \/ providerForModel(m) = "ollama") -> [slug |-> "", dotted |-> FALSE]
    [] OTHER -> [slug |-> Slug(env.gateway, providerForModel(m)),
                 dotted |-> providerForModel(m) = "anthropic"]

providerStatuses(env) ==
  [p \in Providers |->
     CASE providerKeyPresent(p, env) -> "direct"
       [] ~providerKeyPresent(p, env) /\ gatewayUsable(env) /\ p # "ollama" -> "gateway"
       [] OTHER -> "none"]

(* The classes registered for each provider's patterns at the first call:  *)
(* Gemini's stays for an unfunded default.                                  *)
registerAvailableProviders(env) ==
  LET statuses == providerStatuses(env) IN
  [p \in Providers |->
     CASE statuses[p] = "gateway" -> "gateway"
       [] statuses[p] = "direct" \/ (statuses[p] = "none" /\ p = "gemini") -> p
       [] OTHER -> "none"]

normalizeProvider(p) == IF p \in Providers THEN p ELSE "gemini"
DefaultModelFor(p) ==
  [prefix |-> CASE p = "gemini" -> "gemini-" [] p = "anthropic" -> "claude-"
                [] p = "openai" -> "gpt-" [] p = "xai" -> "grok-" [] p = "ollama" -> "ollama/"]

(* Plausible bug: the caller's key goes with whichever model is named. *)
CallersKeyAlways(p, defaultProvider, apiKey) == apiKey

(* The caller's key belongs to the caller's default provider alone.        *)
CallersKey(p, defaultProvider, apiKey) ==
  apiKey /\ p = normalizeProvider(defaultProvider)

(* asks: model (a Model, or "default"), defaultProvider, apiKey; here under *)
(* one env. The adapter, its key and the provider it asks.                 *)
resolveModel(ask, env) ==
  LET m == IF ask.model = "default" THEN DefaultModelFor(normalizeProvider(ask.defaultProvider))
           ELSE [prefix |-> ask.model]
      key == CallersKey(providerForModel(m), ask.defaultProvider, ask.apiKey)
      plan == planTransport(m, key, env)
  IN  [model |-> m, provider |-> plan.provider, plan |-> plan,
       adapter |-> IF plan.transport = "gateway" THEN "gateway" ELSE plan.provider,
       callersKey |-> key /\ plan.transport = "direct" /\ plan.provider # "ollama"]

(* Tools a provider runs itself, and where. *)
SERVER_SIDE_TOOLS ==
  [web_search |-> {"gemini", "anthropic", "openai", "xai"}, google_search |-> {"gemini"},
   x_search |-> {"xai"}, collections_search |-> {"xai"}]

describeCapabilities(plan, tools) ==
  LET served(t) == plan.transport = "direct" /\ plan.provider \in SERVER_SIDE_TOOLS[t]
      portable == {t \in tools : t \notin DOMAIN SERVER_SIDE_TOOLS}
  IN  [portable |-> portable,
       native |-> {t \in tools \ portable : served(t)},
       dropped |-> {t \in tools \ portable : ~served(t)}]

(* The capability matrix: what each adapter, the gateway's included, does. *)
Capabilities == {"delegation", "memory_tools", "structured_output",
                 "thinking_with_tools", "streaming", "vision", "native_search"}
Rows == Providers \cup {"gateway"}
Unsupported == {<<"anthropic", "thinking_with_tools">>, <<"anthropic", "vision">>,
                <<"ollama", "native_search">>, <<"gateway", "native_search">>}
Degraded == {<<r, "thinking_with_tools">> : r \in {"openai", "xai", "ollama", "gateway"}}
              \cup {<<"ollama", "structured_output">>}
CAPABILITY_MATRIX == [row \in Rows |-> [cap \in Capabilities |->
  IF <<row, cap>> \in Unsupported THEN "unsupported"
  ELSE IF <<row, cap>> \in Degraded THEN "degraded" ELSE "supported"]]

capabilityOf(plan, cap) ==
  CAPABILITY_MATRIX[IF plan.transport = "gateway" THEN "gateway" ELSE plan.provider][cap]

(* agent: its tools, whether it has an output schema, thinks, delegates.   *)
requiredCapabilities(agent) ==
  {c \in Capabilities :
     CASE c = "delegation" -> agent.delegates
       [] c = "memory_tools" -> "load_memory" \in agent.tools
       [] c = "structured_output" -> agent.outputSchema
       [] c = "thinking_with_tools" -> agent.thinks /\ (agent.tools # {} \/ agent.delegates)
       [] c = "native_search" -> "web_search" \in agent.tools
       [] OTHER -> FALSE}

capabilityGaps(plan, agent) ==
  {c \in requiredCapabilities(agent) : capabilityOf(plan, c) # "supported"}

RouteAsks ==
  [model : {"default"} \cup {m.prefix : m \in Model},
   defaultProvider : Providers \cup {"other"}, apiKey : BOOLEAN]

(* A caller's key never leaves for anyone but the provider the caller      *)
(* named: not another provider's endpoint, not a gateway. And a key the    *)
(* caller gave for the model's provider always opens the direct way.       *)
KeyStaysHome(ask) == \A env \in Env :
  LET r == resolveModel(ask, env) IN
  /\ r.callersKey => /\ ask.apiKey
                     /\ r.adapter = normalizeProvider(ask.defaultProvider)
  /\ ask.apiKey /\ r.provider = normalizeProvider(ask.defaultProvider)
       => r.plan.transport = "direct" /\ r.plan.funded

(* What the start-up listing says of a provider is what a call of one of   *)
(* its models does: the same way, the same class, unless the caller brings *)
(* a key of its own.                                                       *)
ListingIsTrue(ask) == \A env \in Env :
  LET r == resolveModel(ask, env)
      listed == providerStatuses(env)[r.provider]
      class == registerAvailableProviders(env)[r.provider]
  IN  ~ask.apiKey =>
        /\ listed = (IF r.plan.funded THEN r.plan.transport ELSE "none")
        /\ class # "none" => class = r.adapter
=============================================================================
