# Melchizedek agents: TLA+ models, checks and proofs

This directory models the parts of the repository that decide something over
time or by rules that are easy to get wrong: the Assistant's task queue, the A2A
executor, one syndicate turn, a conversation with its sessions and memory (the
*core*); and around them the model calls and adapters, the server's gates, tables
and caches, the loader, the memory store and the wiki (the *parts*). TLC checks
each model on small instances; TLAPS proves the safety properties of the core, and
of the parts that keep state, for every value of the constants. Paths below are
relative to the repository's root.

## 1. The system and its parts

A *syndicate* is a document (orchestrator, subagents, tools, guards, dispatch).
`lib/loadSyndicate.ts` and `lib/compile.ts` turn it into ADK agents. Three
surfaces run it: the chat command line, the A2A server, and the background worker
of the Assistant. All go through `runSyndicateTurn`.

```
 A2A client ──> app.ts ──> executor.ts ──> syndicateTurn.ts ──> ADK runner ──> models, tools
                  │           │  │               │   │                             │
                  │        policy limiter   turnControl  session service       retry.ts, remoteAgent.ts
                  │           │                          │
                  │        usage store            memory service (after the reply)
                  └── DELETE /memory ──> erase (facts, sessions, ledger, spans)

 chat process ──┐
                ├── tasks.json (taskTools.ts)
 worker process ┘
```

| Component | State it keeps | Operations | What is hard about it | What makes it correct |
|---|---|---|---|---|
| Task list tools, `lib/tools/taskTools.ts` | one JSON file | add, queue, update, recover, claim, finish, each a read and a rename | two processes, no lock; a cap that drops records; retries | no live record lost, ids unique, retries bounded, outcome agrees with status |
| Assistant worker, `scripts/assistant_worker.ts` | job in hand, stopping flag, abort controller | start, drain loop, signals, exit | crash with a job running; signal during and between jobs | one job at a time, no claim while stopping, every job settles |
| A2A executor and limiter, `lib/a2a/executor.ts` | a map task → AbortController, the draining flag | execute, cancel, drain | each await lets other tasks and signals in; many exits of one function | slots never leak, the cap holds, one final state and one log record per task, drain leaves nothing |
| Policy, `lib/a2a/policy.ts` | usage counters in memory or in a table | admit, record | check and charge are far apart | bounded overshoot; everything spent is counted |
| Syndicate turn, `lib/runtime/syndicateTurn.ts`, `turnControl.ts` | stop reason, call and token counts, what was drained so far | classify, route, run, guard, finish | parallel subagents; three kinds of stop; aborts of hung calls | limit exact, first stop told, usage final, fallbacks, it ends |
| Sessions, `lib/storage/postgres/sessionService.ts`, `lib/session/supabaseSessionService.ts` | one row and its events per conversation; a copy in each turn | create, get, append, delete | turns of one conversation overlap; statements fail | append-only, state = events, sequence numbers free |
| Long-term memory, `lib/memory/` | facts; a high-water mark per session, in process | ingest, search, erase | overlapping ingestions; a failure in the middle; an erase; a restart | nothing said is skipped; erased stays erased |
| Durable A2A task store, `lib/storage/postgres/taskStore.ts` | task rows, keyed by tenant, owner, agent, id | save, load, list by pages | rows saved between two pages; rows without a time stamp | a page sequence misses no task and repeats none; no owner sees another's |
| Remote agents, `lib/a2a/remoteAgent.ts` | one task at the other side, a cached card | resolve, send, poll, cancel | deadline and abort against a late answer | the outcome told is the task's; no task left running without a reason |
| Retry and model calls, `lib/models/` | attempt, what was streamed | charge, ask, wait, stream, retry | output already yielded; abort during a sleep; held-back text | nothing shown twice; no request under an abort; the call ends |
| Adapters, `lib/models/*Llm.ts`, `registry.ts`, `providerMap.ts` | none over time | resolve, key, translate, assemble a stream | five providers, each with its own rules | a key stays with its host; the report matches the wire; the stream says the same however it is cut |
| Span exporter and tracer, `lib/observability/` | open spans, pending payloads, decisions | start, end, export, flush, expire | children end before the root that decides about them | spans written once or counted as dropped; caps hold |
| App and identity, `lib/a2a/app.ts`, `identity.ts` | handler cache, unknown ids | gates, routing, cards, erase | cached promises that fail | one build per agent; a caller has the context its token earns |
| Loader, compiler, dispatch rules, `lib/loadSyndicate.ts`, `compile.ts` | none over time | interpolate, validate, nest, compile, route | nesting, cycles, values of the wrong type after interpolation | what validates runs as it is written |
| Wiki, `lib/wiki/`, `lib/tools/wikiTools.ts` | documents, indexes, relations on disk | save, build, fill, lint, relate, walk, dive | a fill awaits a model; people, tools and builds write the same files; a private annex | the views agree; public documents do not lead into the annex; what people wrote stays |
| Web reader and address guard, `lib/tools/webExtractTool.ts`, `lib/net/addressGuard.ts` | none over time | check, fetch, follow, cut | notations of one address; redirects; continuation | one verdict per address; a page is read whole |
| Science guard, `lib/guards/science.ts` | what the run's tools returned | extract, close, check, pair, mark | marks must not disturb what later checks read; a source that fails is no clean bill | each identifier is marked as this run found it; correct prose is left alone |
| X search, `lib/tools/xApiSearchTool.ts` | none over time | clean, send, wait once, read photos, tell | a fault of one photo, a rate limit, an empty page against a failed call | the query is accepted; each post and photo is told of as what became of it |
| Science, web search and image tools, MCP, SQL scripts, command line | connection-level only | request, parse, print | services outside the repository | not modelled |

`PROJECT.json` lists every component with its status, and each hazard at its line.

## 2. Modules

| Module | Models | How state and actions correspond to the code |
|---|---|---|
| `TaskStore` | the operations of `taskTools.ts` as operators on a store | a store is `[tasks, next_id]`; `AddRecord`, `UpdateRecord`, `RecoverInterruptedJobs`, `ClaimJob`, `FinishJob` return the store `mutate` would write. Titles, prompts and results are abstracted to whether a result or an error is present. |
| `TaskQueue` | chat process and worker, each `mutate()` one step | `store` is the file; `worker` holds the locals of `main` and `drain`; `Interrupt`, `Terminate` are the signal handlers; `Crash` the second Ctrl-C or a kill. |
| `TaskRace` | the same with `mutate()` as a read and a later write | `view[p]` is what process `p` read; `Write` applies a `TaskQueue` action to it. The code takes no lock, and neither does the model: what `TaskQueue` shows of atomic calls holds of the two processes only while their calls do not overlap. |
| `TaskLifecycle` | abstract: what a client may see of a task | submit, progress, one end, close. |
| `Executor` | `execute()` cut at its awaits, the limiter, the task budget, shutdown | `pc[t]` is the await each `execute()` is at; `running` is the limiter's map, `aborted` its fired controllers; `usage`, chosen at the start, is where counters are kept; `Finally` is the finally block. |
| `TurnControl` | `turnControl.ts` | `Stop`, `ChargeLlmCall`, `RefuseLlmCall`, `ChargeTokens`. |
| `SyndicateTurn` | `runTurnInner`, `runAgent`, `drainAgentStream`, `finish` and the ADK runner around them | `stage` is where `runTurnInner` is, `phase[a]` what each agent does, `draft` and `tools` the `DrainedRun`; `result` the returned record. `Cancel` and `Deadline` may come at any step. |
| `TurnContract` | abstract: what the executor relies on when it awaits a turn | `Executor`'s `ModelCall`, `TurnReturns`, `TurnThrows` are its steps; `SyndicateTurn` implements it. |
| `SessionStore` | one conversation behind either session service | Postgres: `LockRow`, `InsertEvent`, `Commit`, `Rollback`; Supabase: `Upsert` of the turn's copy. `backend` is chosen at the start. An event is the pair (turn, number); its state delta is the event itself. |
| `MemoryService` | ingestion | `mark` is `ingestedEventCount`; `distilled` is history: the events whose facts are stored, or that had none. |
| `Conversation` | turns of one conversation on both, with erases and restarts | `pc[t]` is the await each turn is at; the ingestion runs after the reply. |
| `MCExecutor` | the third task's bound | it comes only where usage is kept in process |

The parts, composed by `Components`:

| Module | Models | How state and actions correspond to the code |
|---|---|---|
| `ModelCall` | `retry.ts` (first section: policy, classification, delays), and one call through each adapter and `traceLlmGeneration` | `call` is the state of the generator: what was sent, what arrived, what the splitter holds back, what the consumer was shown. `Refused`, `Unreachable`, `BodyFails` end in `AfterFailure`, the policy's decision; `Abort` may come anywhere. |
| `RemoteCall` | one call of a remote agent | `remoteCall` is the tool's loop, `remoteTask` the other side, which moves and answers as it likes. |
| `AgentDirectory` | `app.ts`'s handler cache | `handlerCache[a]` is the load whose promise is kept, `calls` the requests awaiting one. |
| `DurableTasks` | `taskStore.ts` | `rows` is the table; `walk` a client reading pages while `SaveTask` goes on. |
| `Budgets` | `policy.ts` over its usage tables | admission's two reads and the charge's parallel writes, each failing on its own, over `Midnight`. |
| `Telemetry` | `tracer.ts`, `supabaseSpanExporter.ts`; in a section of its own, pure, the row of a turn | spans start and end, the batch processor exports, payloads wait in `exporter.pending` for the root's decision. |
| `MemoryFacts` | extraction, embedding, deduplication, supersession, recall and erase | `stage[i]` is the await of an ingestion; `facts` the table. `MemoryService` sees an ingestion from the session's side, this one from the store's. |
| `WikiVault`, `WikiBundle` | links, lint, link graph; those who write the bundle | `files` is the disk. Each run of `wiki_save` (`saving`), the build with its fill (`build`) and a person are processes of their own: a save reads the vault and its siblings (`SaveReads`), writes its document (`SaveWrites`), then the index with the siblings as read (`SaveIndexes`); the build reads and upserts a document, reads the vault once and writes one index at a time from it (`RefreshReads`, `RefreshWrites`), and holds the documents it fills while it awaits a model. Either may die between two steps. `loose`, `saved`, `overtaken`, `unlisted` are history, for the properties alone. |
| `Stores` | no code of its own: what `DurableTasks`, `Budgets` and `Telemetry`, and what `WikiBundle` and `WikiRelations`, promise together | `TablesAreTrue` and `WikiWritesStand` are invariants of `Components` and conclusions of theorems. They name no part: they hold in every behaviour, as the other parts' variables do not move. |
| `WikiGraph`, `WikiRelations` | the entity graph and its walks; the asserted layer | `asserted` is `relations.json`, `snapshot` the derived layer of the last build. |
| `ModelRoute`, `ModelRequest`, `ChatStream` | provider, key and way of a model; what is put on the wire, and `schemaNormalize.ts` (second section); the stream assemblers | pure: see below. A JSON value is a string, a list or an object, so the walk over a schema is the code's own. |
| `RequestGate`, `SyndicateLoader` | a request's gates and context; YAML to agents | pure |
| `WebReader` | `addressGuard.ts` (first section: an address's verdict); redirects and windows of a page | pure |
| `WikiDocument`, `WikiDive`, `WikiEntities` | rebuilding a document; retrieval plans; the derived layer | pure |
| `Transcript` | `transcript.ts`: the past as a route and the router read it, and the stored row's copy | pure; an event is its author and its parts, a part its kind and size. `getSession` and `appendEvent` keep the runner's view and the real session side by side. |
| `XSearch` | `xApiSearchTool.ts`: the query, the request, the photos, what is told | pure; a query word is its operator, quotes, parentheses and length, a photo the faults it meets. |
| `EvidenceGuard` | `guards/science.ts` and `corrections.ts`: identifiers, names and retractions in an answer | pure; an answer is a sequence of tokens. |

In `Components` a behaviour is about one part: `part` is chosen first and only that
part's variables move, so the state spaces add up instead of multiplying. A part
without state is *asked*: a step picks one question of the set the module names
(`RouteAsks`, `LoaderAsks`, ...) and the property says what is true of the answer.
Properties of costly answers are action properties (`[][...]_chosen`), which are
evaluated once, when the question is put; the others are invariants. The parts do not
call one another there: where the code calls across, the caller's module holds the
outcomes the callee can have (`SyndicateTurn` those of `ModelCall` and `RemoteCall`,
`Conversation` those of `MemoryFacts`, `Executor` those of the policy).

Each plausible bug named in a comment (`...`, "Plausible bug") is a variant of the
definition after it and is used by no specification. It stands for a regression a
run must notice: with the variant in place of the definition, the run named in
`PROJECT.json` under `mutants` reports the property violated. A property that gathers
several statements has one variant listed there and the others beside the definitions
they break.

### Abstractions that matter

- **Texts** are told apart by where they come from (`narration`, `echo` of a tool
  name, `answer`, `relay`, `notice`, none), because the relay fallback and the
  guards look at nothing else.
- **Time** appears where it orders things: time stamps in the task store (a write
  has the same stamp as the last one or the next), deadlines and grace timers as
  actions that may fire at any moment.
- **The ADK runner and the SDKs** are modelled from how the code uses them
  (marked external in the map): it runs the tool calls of one reply together and
  waits for all of them unless the signal aborts it.
- **The database** gives atomic statements, transactions and row locks. A commit's
  answer may be lost: the turn then fails although the event is stored.
- In the `Conversation` a new turn may start while the earlier one is under way.
  The A2A server does not serialise tasks of one context.

## 3. Runs

Run one with `tlc -workers 2 -config <name>.cfg <module>.tla`.

| Run | Module | What it asks | Bounds, and why they are enough |
|---|---|---|---|
| `TaskQueue` | `TaskQueue` | Store and worker with atomic mutations: caps, retries, outcomes, ids, one job in hand, stopping; every queued job settles | `MAX_TASKS = 2`: a third record forces a drop. `MAX_ATTEMPTS = 2`: one retry and one refusal. `MaxChat = 3`: fill the list and go beyond, or queue, cancel and re-queue one job. `MaxStops = 2`: the worker dies with a job, and again with its retry. |
| `RaceNoLostTask` | `TaskRace` | finding 1 | no deaths |
| `Executor` | `MCExecutor` | Slots, cap, log records, drain, overshoot; the client sees the lifecycle, every task closes, the drain ends | Where counters are kept is an initial choice. In process: three tasks on two slots, so one waits or is refused, and the overshoot of a budget of one is reached. In a table: two tasks, each await of the policy a real one, so that a drain falls between admission and `acquire` while another task runs. One model call tells "some spent" from "none". |
| `ExecutorCancelHonoured` | `Executor` | finding 2 | one task |
| `ExecutorSpendRecorded` | `Executor` | finding 3 | one task |
| `SyndicateTurn` | `SyndicateTurn` | Limit, stop, usage, classifier, contract; a stopped turn ends | A local and a remote subagent in parallel; four model calls: the lead's two, and one of the subagent's with one to spare, so that the limit is met by each of them; two guards, so a stop may fall between them. Both modes and an already aborted signal are initial choices. |
| `TurnRelayRecovers` | `SyndicateTurn` | finding 4 | one subagent |
| `Conversation` | `Conversation` | Appends, state, numbers, erase, mark, on both stores | Two turns of two events: a second append onto another turn's; one erase and one restart anywhere. |
| `ConversationNothingSkipped` | `Conversation` | finding 5 | one event per turn, one erase |
| `Components` | `MCComponents` | Everything the parts promise (below), and `TaskRace`: what survives with reads and writes apart | `MaxAttempts = 3`, `MaxFragments = 3`: two retries, and a held fragment between two shown. Two calls and three loads: one request joins another's load; a failed load is tried again. `PageSize = 1` over three ids: three pages and a cursor between equal time stamps. Two tasks, two scopes, one midnight. Four spans, three places for lineage, one pending payload: each cap is met. Two polls: one answer before the deadline, one at it. Two saves or edits of the bundle, overlapping each other and a build with its fill at every step: the second save reads what the first has yet to write, and a build's indexes miss either. Two relations, one edit by hand. Two ingestions, their lines divided in two ways, one embedded text by text and one as a batch, one retry, one erase. `TaskRace` with one death. The task table's client is watched until it has read to the end. |
| `WikiAssertionsKept` | `WikiRelations` | finding 6 | two relations: one made before the edit, one by the relate after it |
| `WikiFillStays` | `WikiBundle` | finding 7 | one save, of a document the fill holds |

`CHECK_DEADLOCK FALSE` is set where the system really stops: every task of a run
has ended, the turn has returned, the process has exited, a part's call is over or a
question was asked, or (in `TaskRace`) the bounds on calls and deaths are used up.
`TaskQueue` is checked for deadlock.

### What the runs show

- **Task queue.** With each mutation atomic, all of the store's promises hold over
  crashes, restarts, signals and re-queues: one job runs and one orphan at most
  (`OneJobRuns`), outcome, retries and cap agree with status (`RecordsSound`), no live
  record is dropped and no id used twice (`RecordsKept`), the job in hand is the
  worker's alone and none is claimed while it stops (`WorkerDecides`). With reads and
  writes apart, every copy of the file stays well formed, capped and consistent
  (`EveryCopySound`), because
  each write is an operation applied to a sound copy and `rename` makes it whole. But
  a live record can be lost (finding 1).
- **Executor.** The slot of a task is the set of its awaits between `acquire` and the
  finally block, however it leaves. No more than `MaxConcurrent` turns run, the
  ingestion included. In-process budgets are overshot by less than the cap.
- **Turn.** Subagents in parallel cannot exceed the ceiling on model calls; the first
  stop is the one reported; nothing is charged after an unstopped turn returned. Only
  a stop ends a turn at the classifier. `ImplementsContract` ties the turn to what
  `Executor` assumes of it.
- **Conversation.** The Postgres service loses nothing to overlapping turns. The
  Supabase service loses events only when turns overlap (`AppendOnly` is stated with
  that condition; `db/migrations/0003_postgres_storage.sql` names the same weakness). The mark skips
  nothing until there is an erase.
- **Model calls.** What the consumer is given is the provider's stream, once, and a
  final response repeats it whole (`CallIsExact`); no request goes out under an abort
  or after output (`SendsAreDue`); an aborted call ends, as does a cancelled remote one
  (`AbortsEnd`).
- **Adapters** (`AdaptersFaithful`). A key is sent to no host but its provider's; the
  capability report says what is sent; a conversation reaches every provider with each
  tool call answered; text and tool calls are the same for every cut of the stream. A
  route reads the newest turns in which something was said, none left out in between,
  and reads the same from the trimmed row as from the session; schemas arrive in the
  provider's dialect with their data untouched, and strictly asked ones are closed.
- **Server.** One build per agent (`DirectorySound`). A caller's context is the one its
  token earns, and a syndicate that validates compiles to the agents and guards it names
  (`InputsJudged`). A client that pages misses no task; each day's counters are the
  tasks that ended that day less the writes that failed; every span is written once,
  pending, or counted as dropped (`TablesAreTrue`); a turn's row adds up its calls
  (`AdaptersFaithful`).
- **Outside.** A remote task still running when its call is over was given up for one of
  three reasons the code knows (`NoTaskForgotten`); an address has one verdict in
  every notation (`InputsJudged`, as is the rest here); a page read by its continuations is shown whole. An X query keeps to
  the limit with its suffix, an operator X refuses is left in it only where the filter
  does not look, and a photo's text is told only after every check. In an
  answer, an identifier a reader sees is marked unverified exactly when no record of
  the run carried it, withdrawn exactly when a source said so, not checked exactly when
  none answered; where names and identifiers are cited in form, exactly the swapped
  ones are called wrong.
- **Memory** (`MemoryIsKept`). A row's vector is that of its own line; a turn counts as
  distilled only once each of its records is stored or known; after an erase only
  ingestions under way at the time, or later ones, have rows; a correction retires what
  it quotes unless a step of it failed, another ingestion overlapped or more than five
  rows are as near; a search never passes a retired row off as current.
- **Wiki.** A rebuild keeps prose, the lint and the link graph agree about every link,
  walks are exact, a reading plan fits its budget, the derived layer passes its own
  lint (`WikiViewsAgree`). With the steps of saves, builds, fills and edits interleaved
  (`WikiWritesStand`): a link from the public bundle into the annex is in a document
  whose last text no gate has seen (a person's, a fill's, or a copy of those a build
  wrote back); a document is missing from its directory's index only while its save has
  yet to write it, after that save died, after it came by other ways, or because an index
  in the making was read before it came, and the next save beside it or the next build
  repairs that; and a save is undone only by a build that had read the document before
  it (finding 7). The code does not keep indexes complete under overlapping writers,
  and no property says so.

### Findings

Each has a run that reaches it from the initial state; `PROJECT.json` quotes the lines.

1. `taskTools.ts` takes no lock between the chat process and the worker: a live task
   written between the other's read and write is lost.
2. A cancel that arrives while the policy is being read finds no entry in the limiter
   and is dropped; the task runs to completion.
3. A turn that throws is recorded with no usage, although it made model calls.
4. A narration beside a tool call keeps the relay fallback from firing when the
   orchestrator's last reply is empty.
5. An erase does not reset the in-process high-water mark, so the turns that follow in
   the same conversation are not distilled until it outgrows its old length.
6. A store of relations that does not parse, or of which one row misses the schema, is
   read as empty; the next `wiki_relate` succeeds and overwrites every assertion in it.
7. `fill.ts:10` calls the slot's interior "the entire blast radius", but a fill writes
   back the whole document it read before it awaited the model, over any save in between.

Met while modelling, without a run of their own: `failedStage` is unset when a stop
ends the classifier or the guards; in DELEGATE mode a turn may complete with an empty
text; an ingestion that was extracting when an erase ran inserts its facts afterwards;
under Supabase an event lost to an overlapping turn also moves later events below the
mark. Of the parts:

- A wiki save lists its directory from the vault it read before its gate, and a build
  writes every index from one reading: a document that came in between is left out, by
  its own directory's index too (`wikiTools.ts:680`, `build.ts:1114`).
- A cancel that arrives while a request to a remote agent is in flight throws without
  telling the remote side (`remoteAgent.ts:221`, and the send at 211); only one that
  falls into the sleep is passed on. `NoTaskForgotten` excepts it.
- `supabaseMemoryService.ts:211` says a retried batch is absorbed by the deduplication.
  The correction in it then counts as known and what it quotes is never retired;
  `CorrectionRetires` excludes ingestions in which a step failed.
- `compile.ts` has no guard against cycles of nested syndicates, although the collection
  of guards has one; nested dispatch syndicates are compiled without their team;
  overrides are applied after validation; names are unique exactly but matched loosely.
- In the wiki: `shortestPath` walks through ids no document has; a save's index refresh
  drops the list of subdirectories until the next build; a block whose fence is never
  closed is appended again at every build; `delegates_to` strips only `.yaml`.
- The existing facts of a user that cannot be read count as none.
- `schemaNormalize.ts` takes a property named `type`, `enum` or `required` for the
  keyword: its schema is not lowered. `strictNode` does not enter `anyOf`, so an object
  among alternatives stays open (`SchemaTravels` excepts both).
- In `xApiSearchTool.ts` the limit cuts after the quotes and parentheses were balanced,
  so a cut query may be unbalanced, or lose its own `is:retweet`. The filter of operators
  looks at the start of a token (`:187`, before `:191` turns commas into spaces), so
  `(since:2026-09-01 OR x)` or `a,since:b` sends one X refuses, and `(is:retweet OR x)`
  still gets the suffix. Photos that were not asked for, and photos without a URL, are
  said to be unread because the cap was reached. `QueryIsAccepted` and `PhotosAreTold`
  except these.
- In `guards/science.ts`, `pairs` moves on by one run after a pair it skipped for the
  words between, so in "A ... (n1), B (n2)" it takes n1 with B and reports a swap,
  although `tests/guards.science.test.ts:5` says "a guard that flags correct prose is
  worse than none"; `NamesAreJudgedRight` speaks of answers that cite in form. An
  identifier that stands only in a link's target is noted as "marked in place" (:514)
  and marked nowhere.

## 4. Fairness

Safety runs use `Spec`, which has none. Liveness uses `FairSpec`:

- `TaskQueue`: somebody starts the worker again after it went away (the README's
  second terminal); a running worker takes its next step; `JOB_TIMEOUT_MS` ends every
  run. Tool calls, signals and crashes are not fair.
- `Executor`: the event loop runs on, and the usage table and the memory service
  answer. A turn is trusted to end only once its signal is aborted (`t \in aborted`),
  which the task timeout and the turn's own controls do; the grace timer fires.
  `EveryTaskCloses` thus does not assume that a model answers, but it does assume that
  the ingestion, which has no timeout of its own, comes back.
- `SyndicateTurn`: sessions, tools and guards answer; the deadline's timer fires; a
  provider or a remote agent is trusted to come back only once it was aborted.

- `Components`: only what an abort must end. Under an aborted signal a request, a
  sleep or a read of a stream settles (`call.aborted /\ CallEnds`: `fetch` and the
  sleep listen to the signal); every request to a remote agent has a timeout and every
  sleep between polls ends (`CallMoves`). A provider that stalls while nobody aborts may
  stall forever.

Weak fairness suffices throughout: each of these steps stays enabled until taken.

## 5. Proofs

`tlapm M.tla` checks the proofs of module M. They assume the `ASSUME`s beside the
constants and nothing else: caps and ceilings positive, `Task`, `Sub` finite, `"none"`
no turn and `"lead"` no subagent, at least one agent, task ids natural numbers, what
sessions say made of the lines `MemoryFacts` knows, in any number and order, spans
a forest whose parents start first, bounds natural numbers; TLC evaluates each of them. Every safety
property of the core's passing runs is also a theorem, for every value of the
constants, as is every invariant of `Components`, and its action
properties about parts that keep state.

| Module | Theorems | Inductive invariant, and why it is needed |
|---|---|---|
| `TaskListProofs` | of `TaskStore`: each operation maps a sound store to a sound store | `Sound` is the conjunction of shape, cap, retries and outcomes; it splits by record (`RecordSound`), which is how the lemmas go. |
| | of `TaskQueue`: type, `OneJobRuns`, `RecordsSound`, `RecordsKept`, `WorkerDecides` | `IInv`: a job in hand is the only one running, so what a starting worker finds running is an orphan, and recovery leaves none. Without it `finishJob` could meet a record that is not running. |
| | of `TaskRace`: every copy sound | `RaceInv`: what a process read is sound, and so is what its action makes of it. |
| `ExecutorProofs` | type, slots and cap, one report, drain, the lifecycle refinement, the overshoot | `IInv`: the await a task is at determines what its client saw and whether it was reported (`Tracked`). `OvershootInv`: with in-process counters only one task at a time is between its check and its charge. |
| `SyndicateTurnProofs` | type, limit, stop, usage, classifier, the contract refinement | `IInv`: a subagent works only while the lead waits for it, unless the turn was stopped (`Attended`), hence no charge after an unstopped return; an aborted turn has a stop reason until it ends (`Heard`), hence it cannot complete; a result that was read tells of both (`Told`). |
| `ConversationProofs` | type, whole appends, erased for good, append-only, nothing skipped before an erase | `Locked` (a transaction's turn holds the row), `Numbered` (stored and erased events are ones their turn committed, so the one in hand is new), `Alone` (with no overlap, the copy a turn writes back extends the store), `Marked` (what an ingestion was handed is still the conversation's beginning). |
| `CallProofs` | `CallIsExact`, `SendsAreDue`, of `CallSpec` | `Sound`: what was shown is numbered from one (`Numbered`); before an answer nothing was shown (`Before`), which is why a retry repeats nothing; shown and held together are all that arrived (`Streamed`), which is why the final flush is whole; requests are counted by attempts, but for one without the reasoning parameter, which an adapter that retries never has (`Counted`). |
| | `NoTaskForgotten`, of `RemoteSpec` | `RemoteInv`: a task that was not sent is not there (`NotYetSent`); a state that was seen to be final still is (`SeenSettled`); a call that is cancelling asked for it (`AskedFirst`). |
| `ServerProofs` | `DirectorySound`, of `DirectorySpec` | `Latest`: a load under way or built is its agent's cache entry and the last one started for it; `InCache` the converse; `AwaitingLoad`: a request that waits has a load. An entry is emptied only by its own load because of the first two. |
| | `PagesMissNothing`, of `TaskTableSpec` | `TableInv`: what was due and not saved since is either given once already and at or before the cursor, or not given and beyond it (`Divided`). It rests on the order being strict and total on the rows (`OrderedIsExact`: the page's order exists, holds each row once, and is descending), which is what the tie-break by id is for. |
| | `BudgetsBalance`, of `BudgetSpec` | `BudgetInv`: a counter is the number of writes that landed on its day (`CountersBalance`); none lands before its task's day was taken (`NothingLandedEarly`); a task that asked when a budget was used up will still find it so, since counters only grow (`StaysFull`). |
| | `SpansAccounted`, of `TelemetrySpec` | `TelemetryInv`: the rows written, the payloads pending and the dropped ones are together what came out of the processor, none twice (`Sound`), kept by each span of an export (`SpanKeeps`) and so by a batch of any length; open spans and queued ones are apart (`Lined`); and the walk over the lineage, entry by entry, never leaves the tree it started in (`WalkStays`, `WalkFinds`). |
| | `TablesAreTrue`: `TablesStayTrue` gathers the last three | |
| `MemoryProofs` | `MemoryIsKept`, of `FactsSpec` | `MemoryInv`: rows are numbered in the order they were stored (`Numbered`) and the table holds stored rows, changed only by a retirement (`Recorded`); an ingestion holds at each await what its next calls rely on: its own records' vectors, which of them are stored or known, rows that are its own (`Held`). Two ingestions under way have troubled each other (`Apart`), so one that nobody troubled meets a table only it changes: it stores its rows once, and the hits it holds are all that is left to retire (`Undisturbed`). That the hits are all rests on what a ranking is (`RankedIs`: a permutation by falling score), since the near rows then lead it and, when five at most, none is cut off. |
| `WikiProofs` | `GateAgreesWithLint`, of `RelationsSpec` | `RelationsInv`: what the gate asked of an assertion (`LetIn`) names no state of the bundle, so it stays true whatever becomes of documents and store. |
| | `PrivateClosure`, `IndexComplete`, `SavesStand`, of `BundleSpec` | `BundleInv`, with a part for each property. `BundleApart`: the links of public files into the annex are loose, bare or none (`Closed`), in the copies a build holds to upsert as well as on disk, and public logs name public documents. `BundleListed`: a document that is not `unlisted` is missed by no index in the making, a save's or the build's, and is in its index or being saved; the first half is what makes the second inductive, since every index on disk was one in the making. `BundleStands`: a save stands on disk and, unless overtaken, in the copy a build holds, which is what it writes back. `BundleTyped` says that what a process read of a directory are documents of it (`IsLook`), so no index leads from the public bundle into the annex (`LookApart`). |
| | `WikiWritesStand`: `WikiStandsWhole` gathers the four | |

Three statements changed for the proofs, none to say less. `TablesAreTrue` and
`WikiWritesStand` had each conjunct behind a guard on `part`; they now hold in every
behaviour. What the pages of `DurableTasks` are was computed by a recursive sort, and
is now the ordered sequence itself; the lineage walk of `Telemetry`, the indexes of
`WikiBundle` and the rankings of `MemoryFacts` are functions of the state, not
recursive operators. A proof attempt
that failed was a finding about the model: `CorrectionRetires` was not inductive,
because a correction looks only at the five rows nearest to what it quotes
(`supabaseMemoryService.ts:462`). A user with more than five near copies of a fact, which
takes that many retired or repeated ones, can correct it and still have an active one;
the property now says so, and the runs' bounds never reached it.

Only model-checked:

- liveness (`EveryJobSettles`, `EveryTaskCloses`, `DrainEnds`, `StopEndsTheTurn`,
  `AbortsEnd`), because fairness and ENABLED are beyond the prover;
- the pure parts (`AdaptersFaithful`, `InputsJudged`, `WikiViewsAgree`): they compare
  folds and recursive functions with reference definitions over bounded inputs, which
  needs induction over data, and their modules use recursive operators.

## 6. Not modelled, and why

- Requests to models, tools, search and image services, MCP connections: their outcomes
  are the nondeterministic choices of the models. Of the science, web search and image
  tools only the request is built and the answer formatted.
- Command line programs, SQL scripts, metrics, redaction and logging: no state or
  decision that a property is about, or regular expressions over text.
- In modelled components: the policy's token budgets (the same shape as its task
  budgets); image payloads in the adapters; skills, grounding texts and the environment
  file in the loader; the regular expressions of `guards/science.ts` and the reach of a
  pair in characters; the rendering of wiki pages and `extract.ts` beyond what
  `WikiEntities` reads; agent cards, static pages and telemetry routes of the server;
  listing and expiry of sessions.
- What a crash of the server leaves in the durable task table: nothing reads unfinished
  tasks at start, so no property can say that they end.

## 7. Plan

Done: the core with its proofs; the parts with theirs composed in `Components`. What
would add most next:

1. The refinement of `Executor`'s counters by `Budgets`.
2. The composition of executor and turn through `TurnContract`, so that a task's
   lifecycle is checked over the turn's own steps.
3. Redaction and the formats of `lib/wiki/format.ts` as pure parts; the expiry of sessions beside
   their turns.
