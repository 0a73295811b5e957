--------------------------- MODULE AgentDirectory ---------------------------
(* The server's agents, loaded on first use: one promise per agent id, kept *)
(* when the load succeeds, dropped when it fails; an id nobody knows is     *)
(* remembered for a while. Each build makes an executor and a task store of *)
(* its own, so two builds of one agent would split its tasks.               *)
EXTENDS Naturals, FiniteSets

CONSTANTS Agents,   \* agent ids as they stand in the URL
          Served,   \* ids this server serves
          Calls,    \* bound: requests that name an agent
          MaxLoads  \* bound: loads started

ASSUME AgentsAssumption == Agents # {}

VARIABLES
  handlerCache,  \* agent -> the load its promise stands for, 0 when none
  unknownAgents, \* agents whose failed load is younger than UNKNOWN_TTL_MS
  loads,         \* the loads started: [agent, state]
  calls          \* call -> [agent, load, reply]; load 0: not waiting for one

directoryVars == <<handlerCache, unknownAgents, loads, calls>>

LoadStates == {"reading", "built", "missing", "broken"}
Replies == {"none", "waiting", "404", "503", "served"}

DirectoryType ==
  /\ handlerCache \in [Agents -> 0 .. MaxLoads]
  /\ unknownAgents \subseteq Agents
  /\ \A n \in DOMAIN loads : loads[n].agent \in Agents /\ loads[n].state \in LoadStates
  /\ \A c \in Calls : calls[c].reply \in Replies /\ calls[c].load \in 0 .. MaxLoads

DirectoryInit ==
  /\ handlerCache = [a \in Agents |-> 0]
  /\ unknownAgents = {}
  /\ loads = <<>>
  /\ calls = [c \in Calls |-> [agent |-> CHOOSE a \in Agents : TRUE, load |-> 0, reply |-> "none"]]

Started == Cardinality(DOMAIN loads)
Refused404(a) == a \notin Served \/ a \in unknownAgents
Wait(c, a, n) == calls' = [calls EXCEPT ![c] = [agent |-> a, load |-> n, reply |-> "waiting"]]

(* Plausible bug: the promise is kept only once it has settled. *)
CacheLater(a, n) == UNCHANGED handlerCache
CachePromise(a, n) == handlerCache' = [handlerCache EXCEPT ![a] = n]

(* A request for an agent: refused, joined to the load under way or done,  *)
(* or the first of a new load.                                             *)
Ask404(c, a) ==
  /\ calls[c].reply = "none" /\ Refused404(a)
  /\ calls' = [calls EXCEPT ![c] = [agent |-> a, load |-> 0, reply |-> "404"]]
  /\ UNCHANGED <<handlerCache, unknownAgents, loads>>

AskCached(c, a) ==
  /\ calls[c].reply = "none" /\ ~Refused404(a) /\ handlerCache[a] # 0
  /\ Wait(c, a, handlerCache[a])
  /\ UNCHANGED <<handlerCache, unknownAgents, loads>>

AskLoads(c, a) ==
  LET n == Started + 1 IN
  /\ calls[c].reply = "none" /\ ~Refused404(a) /\ handlerCache[a] = 0
  /\ n <= MaxLoads
  /\ loads' = [k \in 1 .. n |-> IF k = n THEN [agent |-> a, state |-> "reading"] ELSE loads[k]]
  /\ Wait(c, a, n)
  /\ CachePromise(a, n)
  /\ UNCHANGED unknownAgents

(* Plausible bug: only an agent nobody knows leaves the cache. *)
KeepBroken(a, state) ==
  IF state = "missing" THEN [handlerCache EXCEPT ![a] = 0] ELSE handlerCache
DropFailed(a, state) ==
  IF state \in {"missing", "broken"} THEN [handlerCache EXCEPT ![a] = 0] ELSE handlerCache

(* The registry or the file answers: a configuration, no such agent, or an *)
(* outage or a configuration that does not validate.                       *)
Load(n, state) ==
  /\ n \in DOMAIN loads /\ loads[n].state = "reading"
  /\ loads' = [loads EXCEPT ![n].state = state]
  /\ handlerCache' = DropFailed(loads[n].agent, state)
  /\ UNCHANGED <<unknownAgents, calls>>

(* What the settled promise is to one request that awaited it. *)
Resume(c) ==
  LET n == calls[c].load
      state == loads[n].state
      reply == CASE state = "built" -> "served" [] state = "missing" -> "404"
                 [] state = "broken" -> "503"
  IN  /\ calls[c].reply = "waiting" /\ state # "reading"
      /\ calls' = [calls EXCEPT ![c].reply = reply]
      /\ unknownAgents' = IF state = "missing" THEN unknownAgents \cup {calls[c].agent}
                          ELSE unknownAgents
      /\ UNCHANGED <<handlerCache, loads>>

Forget(a) ==
  /\ a \in unknownAgents
  /\ unknownAgents' = unknownAgents \ {a}
  /\ UNCHANGED <<handlerCache, loads, calls>>

(* Its caller is answered and asks again. *)
AskAgain(c) ==
  /\ calls[c].reply \in {"404", "503"}
  /\ calls' = [calls EXCEPT ![c].reply = "none", ![c].load = 0]
  /\ UNCHANGED <<handlerCache, unknownAgents, loads>>

DirectoryNext ==
  \/ \E c \in Calls, a \in Agents : Ask404(c, a) \/ AskCached(c, a) \/ AskLoads(c, a)
  \/ \E n \in 1 .. MaxLoads, state \in LoadStates \ {"reading"} : Load(n, state)
  \/ \E c \in Calls : Resume(c) \/ AskAgain(c)
  \/ \E a \in Agents : Forget(a)

DirectorySpec == DirectoryInit /\ [][DirectoryNext]_directoryVars

(* One agent is built at most once, and every request it serves gets that  *)
(* build: its tasks live in one task store.                                *)
OneBuildPerAgent ==
  \A n, k \in DOMAIN loads :
     loads[n].state = "built" /\ loads[k].agent = loads[n].agent /\ k >= n => k = n

(* The cache holds a load under way or one that succeeded, of its own      *)
(* agent: a failure is never what the next request is given, and nobody    *)
(* waits for a load that the cache has forgotten without an answer.        *)
CacheIsLive ==
  \A a \in Agents :
    LET n == handlerCache[a] IN
    IF n # 0 THEN loads[n].agent = a /\ loads[n].state \in {"reading", "built"}
    ELSE \A k \in DOMAIN loads : loads[k].agent = a => loads[k].state \in {"missing", "broken"}

DirectorySound == OneBuildPerAgent /\ CacheIsLive
=============================================================================
