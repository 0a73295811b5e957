----------------------------- MODULE Components -----------------------------
(***************************************************************************)
(* The parts around the turn, each in its own state space: `part` says      *)
(* which of them a behaviour is about, and only its variables move.  They   *)
(* meet in the core's modules (Executor, SyndicateTurn, Conversation),      *)
(* where each is the outcome it can have; here it is seen from inside.      *)
(*                                                                          *)
(* The parts without a state of their own are pure: a step asks one of them *)
(* one question of the set its module names, and the property says what is  *)
(* true of every answer.                                                    *)
(***************************************************************************)
EXTENDS ModelCall, AgentDirectory, Stores, RemoteCall, MemoryFacts, TaskRace

Route == INSTANCE ModelRoute
Request == INSTANCE ModelRequest
Stream == INSTANCE ChatStream
Access == INSTANCE RequestGate
Loader == INSTANCE SyndicateLoader
Web == INSTANCE WebReader
Document == INSTANCE WikiDocument
Dive == INSTANCE WikiDive
Entities == INSTANCE WikiEntities
Past == INSTANCE Transcript
Posts == INSTANCE XSearch
Evidence == INSTANCE EvidenceGuard

VARIABLES
    part,     \* the part this behaviour is about
    question  \* the pure part's name to what it was asked

chosen == <<part, question>>
modelVars == <<call, remoteVars>>
serverVars == <<directoryVars, taskTableVars, budgetVars, telemetryVars>>
userVars == <<bundleVars, relationsVars, factsVars, raceVars>>
componentsVars == <<chosen, modelVars, serverVars, userVars>>

\* What MemoryFacts chooses with its initial state stays at one value in the
\* behaviours of the other parts.  Of the facts, one of the Sayings
\* is embedded a text at a time, the others as a batch.
ComponentsInit ==
    /\ CallInit /\ RemoteInit
    /\ DirectoryInit /\ TaskTableInit /\ BudgetInit /\ TelemetryInit
    /\ BundleInit /\ RelationsInit /\ FactsInit /\ RaceInit
    /\ part \in {"call", "remote", "directory", "tasks", "budgets", "telemetry",
                 "bundle", "relations", "facts", "race", "pure"}
    /\ part # "facts" => embedder = "gemini"
    /\ embedder = "gemini" <=> said = CHOOSE lines \in Sayings : TRUE
    /\ question = [none |-> {}]

CallStep(Act) ==
    part = "call" /\ Act /\ UNCHANGED <<chosen, remoteVars, serverVars, userVars>>
RemoteStep(Act) ==
    part = "remote" /\ Act /\ UNCHANGED <<chosen, call, serverVars, userVars>>
DirectoryStep ==
    part = "directory" /\ DirectoryNext /\ UNCHANGED <<chosen, taskTableVars, budgetVars, telemetryVars, modelVars, userVars>>
\* A client is watched until it has read to the end.
TableStep ==
    part = "tasks" /\ walk.phase # "ended" /\ TaskTableNext /\ UNCHANGED <<chosen, directoryVars, budgetVars, telemetryVars, modelVars, userVars>>
BudgetStep ==
    part = "budgets" /\ BudgetNext /\ UNCHANGED <<chosen, directoryVars, taskTableVars, telemetryVars, modelVars, userVars>>
TelemetryStep ==
    part = "telemetry" /\ TelemetryNext /\ UNCHANGED <<chosen, directoryVars, taskTableVars, budgetVars, modelVars, userVars>>
BundleStep ==
    part = "bundle" /\ BundleNext /\ UNCHANGED <<chosen, relationsVars, factsVars, raceVars, modelVars, serverVars>>
RelationsStep ==
    part = "relations" /\ RelationsNext /\ UNCHANGED <<chosen, bundleVars, factsVars, raceVars, modelVars, serverVars>>
FactsStep ==
    part = "facts" /\ FactsNext /\ UNCHANGED <<chosen, bundleVars, relationsVars, raceVars, modelVars, serverVars>>
RaceStep ==
    part = "race" /\ RaceNext /\ UNCHANGED <<chosen, bundleVars, relationsVars, factsVars, modelVars, serverVars>>

\* One question, of the set its module names.
Ask(p, questions) ==
    /\ part = "pure"
    /\ part' = p
    /\ question' \in [{p} -> questions]
    /\ UNCHANGED <<modelVars, serverVars, userVars>>

ComponentsNext ==
    \/ CallStep(CallNext)
    \/ RemoteStep(RemoteNext)
    \/ DirectoryStep
    \/ TableStep
    \/ BudgetStep
    \/ TelemetryStep
    \/ BundleStep
    \/ RelationsStep
    \/ FactsStep
    \/ RaceStep
    \/ Ask("route", Route!RouteAsks)
    \/ Ask("request", Request!RequestAsks)
    \/ Ask("stream", Stream!StreamAsks)
    \/ Ask("access", Access!GateAsks)
    \/ Ask("loader", Loader!LoaderAsks)
    \/ Ask("turn row", TurnAsks)
    \/ Ask("address", Web!Octets)
    \/ Ask("web", Web!WebAsks)
    \/ Ask("document", Document!RebuildAsks)
    \/ Ask("vault", VaultAsks)
    \/ Ask("graph", GraphAsks)
    \/ Ask("dive", Dive!DiveAsks)
    \/ Ask("entities", Entities!EntityAsks)
    \/ Ask("transcript", Past!TranscriptAsks)
    \/ Ask("schema", Request!SchemaAsks)
    \/ Ask("posts", Posts!XAsks)
    \/ Ask("evidence", Evidence!GuardAsks)

\* ModelCall's and RemoteCall's fairness, with the other parts beside them.
ComponentsFairness ==
    /\ WF_componentsVars(CallStep(call.aborted /\ CallEnds))
    /\ WF_componentsVars(RemoteStep(CallMoves))

ComponentsSpec == ComponentsInit /\ [][ComponentsNext]_componentsVars /\ ComponentsFairness
-----------------------------------------------------------------------------
(***************************************************************************)
(* Properties beside the parts' own (CallIsExact, SendsAreDue,              *)
(* NoTaskForgotten, DirectorySound, EveryCopySound) and those of Stores:    *)
(* each gathers what its parts state one by one.  What a part states of its *)
(* state is an invariant of every behaviour, as the other parts' variables  *)
(* do not move.                                                             *)
(***************************************************************************)

\* A call of a model or of a remote agent under an aborted signal ends.
AbortsEnd == AbortEndsCall /\ CancelledCallEnds

\* The answer to a question that was just asked of pure part p.
AnswerHolds(p, Holds(_)) == part' = p => Holds(question'[p])

\* The model adapters: a key goes to no host but its own, what is reported of a
\* request is what is sent, a route reads the newest turns and the conversation
\* arrives as it was held, schemas keep their meaning in the provider's dialect,
\* the answer is the same however the stream is cut, and a turn's row says what
\* its calls did.
AdaptersFaithful ==
    [][/\ AnswerHolds("route", Route!KeyStaysHome)
       /\ AnswerHolds("route", Route!ListingIsTrue)
       /\ AnswerHolds("route", Request!ReportMatchesWire)
       /\ AnswerHolds("request", Request!TalkSurvives)
       /\ AnswerHolds("transcript", Past!PastIsReadTrue)
       /\ AnswerHolds("schema", Request!SchemaTravels)
       /\ AnswerHolds("stream", Stream!StreamSaysTheSame)
       /\ AnswerHolds("turn row", RowSaysOnce)]_chosen

\* What comes from outside: a caller has the context its token earns and no
\* other, a syndicate that validates runs as it is written, an address has one
\* verdict, a page is read whole, posts and their photos are told of as what
\* became of them, and the evidence an answer cites is marked as this run found
\* it.
InputsJudged ==
    [][/\ AnswerHolds("access", Access!ContextIsEarned)
       /\ AnswerHolds("loader", Loader!LoadedRunsWhole)
       /\ AnswerHolds("address", Web!VerdictIsOfAddress)
       /\ AnswerHolds("web", Web!PageReadWhole)
       /\ AnswerHolds("posts", Posts!PostsAreToldTrue)
       /\ AnswerHolds("evidence", Evidence!EvidenceIsGuarded)]_chosen

\* What the wiki's readers make of its documents: they agree with one another and
\* with the documents.
WikiViewsAgree ==
    [][/\ AnswerHolds("document", Document!RebuildKeepsProse)
       /\ AnswerHolds("vault", LintAndGraphAgree)
       /\ AnswerHolds("graph", WalksAreExact)
       /\ AnswerHolds("dive", Dive!PlanFits)
       /\ AnswerHolds("entities", Entities!LayerIsWellFormed)]_chosen
=============================================================================
