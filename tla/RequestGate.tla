----------------------------- MODULE RequestGate -----------------------------
(* What a request must show to reach the A2A handlers, and the context it  *)
(* reaches them with: the shared secret, the authenticators, the surface   *)
(* headers, whose key pays and which scope owns its sessions and memory.   *)
EXTENDS Naturals, Sequences, FiniteSets

None == "none"
Invalid == "invalid"

(* bearer names what the token is: the server's secret, a caller's token,  *)
(* a JWT that verifies or one that does not.                               *)
Request == [card : BOOLEAN, bearer : {None, "secret", "callerToken", "jwt", "badJwt"},
            userId : {None, Invalid, "u"}, apiKey : {None, "k"},
            trusted : {None, "g"}, surface : {None, Invalid, "named", "nameless"}]
Options == {o \in [serverSecret : BOOLEAN, keyMode : {"server", "byok"},
                   auth : {None, "callerTokens", "jwtIdentity", "trustedHeader", "sharedSecret", "firstOf"}] :
              o.auth = "trustedHeader" => o.serverSecret}

Nobody == [ok |-> FALSE, fault |-> FALSE]
Fault == [ok |-> FALSE, fault |-> TRUE]
Identity(scope, caller, ownsNested, operator) ==
  [ok |-> TRUE, fault |-> FALSE, scope |-> scope, caller |-> caller,
   ownsNested |-> ownsNested, operator |-> operator]

(* deriveUserId: the key's silo, the site's user within it.                *)
deriveUserId(apiKey, user) == IF user = None THEN <<"silo", apiKey>> ELSE <<"silo", apiKey, user>>

callerTokens(req) ==
  IF req.bearer # "callerToken" \/ req.userId = Invalid THEN Nobody
  ELSE Identity(IF req.userId = None THEN <<"scopeOf">> ELSE <<"scopeOf", req.userId>>,
                "callerName", req.userId = None, TRUE)

(* Plausible bug: the header names the end user of a signed token. *)
jwtWithHeader(req) ==
  CASE req.bearer = "jwt" -> Identity(<<"tenant", req.userId>>, "jwt", FALSE, FALSE)
    [] req.bearer = "badJwt" -> Fault
    [] OTHER -> Nobody

jwtIdentity(req) ==
  CASE req.bearer = "jwt" -> Identity(<<"tenant", "subject">>, "jwt", FALSE, FALSE)
    [] req.bearer = "badJwt" -> Fault
    [] OTHER -> Nobody

trustedHeader(req) ==
  IF req.trusted = None THEN Nobody ELSE Identity(<<req.trusted>>, "gateway", FALSE, FALSE)

sharedSecret(req, keyMode) ==
  CASE req.bearer # "secret" \/ req.userId = Invalid -> Nobody
    [] req.bearer = "secret" /\ req.userId # Invalid /\ keyMode = "byok" ->
         IF req.apiKey = None THEN Nobody
         ELSE Identity(deriveUserId(req.apiKey, req.userId), "shared-secret", req.userId = None, TRUE)
    [] OTHER -> Identity(<<IF req.userId = None THEN "default" ELSE req.userId>>,
                         "shared-secret", FALSE, TRUE)

(* The first authenticator that knows the request; else the first error.   *)
firstOf(answers) ==
  LET known == {i \in DOMAIN answers : answers[i].ok}
      failed == {i \in DOMAIN answers : answers[i].fault}
  IN  IF known # {} THEN answers[CHOOSE i \in known : \A j \in known : i <= j]
      ELSE IF failed # {} THEN Fault ELSE Nobody

resolveRequest(req, o) ==
  CASE o.auth = "callerTokens" -> callerTokens(req)
    [] o.auth = "jwtIdentity" -> jwtIdentity(req)
    [] o.auth = "trustedHeader" -> trustedHeader(req)
    [] o.auth = "sharedSecret" -> sharedSecret(req, o.keyMode)
    [] o.auth = "firstOf" -> firstOf(<<jwtIdentity(req), callerTokens(req)>>)

(* A refusal: its status, and no context. *)
Refuse(status) == [status |-> status, ctx |-> {}]
Pass(id, apiKey) ==
  [status |-> 200, ctx |-> {[scope |-> id.scope, caller |-> id.caller, apiKey |-> apiKey,
                             ownsNested |-> id.ownsNested, operator |-> id.operator]}]
PassCard == [status |-> 200, ctx |-> {}]

(* An agent card: the secret gate alone, or an identity where there is one.*)
CardGate(req, o) ==
  IF o.auth # None /\ ~o.serverSecret /\ ~resolveRequest(req, o).ok
  THEN Refuse(401) ELSE PassCard

(* With an authenticator: the identity is the scope; the key is the        *)
(* caller's own only when callers pay.                                     *)
IdentityGate(req, o) ==
  LET id == resolveRequest(req, o)
      byok == o.keyMode = "byok"
  IN  CASE ~id.ok -> Refuse(401)
        [] id.ok /\ byok /\ req.apiKey = None -> Refuse(401)
        [] OTHER -> Pass(id, IF byok THEN req.apiKey ELSE None)

(* Plausible bug: a key sent in server mode is used. *)
HeaderGateAnyKey(req, o) ==
  Pass(Identity(<<IF req.userId = None THEN "default" ELSE req.userId>>,
                IF o.serverSecret THEN "shared-secret" ELSE "local", FALSE, o.serverSecret), req.apiKey)

(* Without one: the key's silo when callers pay, else the user header.     *)
HeaderGate(req, o) ==
  CASE req.userId = Invalid -> Refuse(400)
    [] req.userId # Invalid /\ o.keyMode = "byok" ->
         IF req.apiKey = None THEN Refuse(401)
         ELSE Pass(Identity(deriveUserId(req.apiKey, req.userId), "shared-secret",
                            req.userId = None, o.serverSecret), req.apiKey)
    [] OTHER ->
         Pass(Identity(<<IF req.userId = None THEN "default" ELSE req.userId>>,
                       IF o.serverSecret THEN "shared-secret" ELSE "local", FALSE, o.serverSecret), None)

Gate(req, o) ==
  CASE o.serverSecret /\ req.bearer # "secret" -> Refuse(401)
    [] (~o.serverSecret \/ req.bearer = "secret") /\ req.card -> CardGate(req, o)
    [] (~o.serverSecret \/ req.bearer = "secret") /\ ~req.card /\ req.surface \in {Invalid, "nameless"} -> Refuse(400)
    [] OTHER -> IF o.auth # None THEN IdentityGate(req, o) ELSE HeaderGate(req, o)

GateAsks == Options

(* A task that reaches a handler does so in a context: its key is the      *)
(* caller's exactly when callers pay; an operator showed a secret or an    *)
(* issued token; and under an authenticator the scope is the               *)
(* authenticated one, whatever the request's other headers say.            *)
ContextIsEarned(o) == \A req \in Request :
  LET out == Gate(req, o)
      same(r) == r.bearer = req.bearer /\ r.trusted = req.trusted /\ r.card = req.card
  IN  out.status = 200 /\ ~req.card =>
        \E ctx \in out.ctx :
          /\ ctx.apiKey # None <=> o.keyMode = "byok"
          /\ ctx.operator => req.bearer \in {"secret", "callerToken"}
          /\ o.serverSecret => req.bearer = "secret"
          /\ o.auth \in {"jwtIdentity", "trustedHeader"} =>
               \A r \in {q \in Request : same(q)} :
                  Gate(r, o).status = 200 => \A c \in Gate(r, o).ctx : c.scope = ctx.scope
=============================================================================
