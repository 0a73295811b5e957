---------------------------- MODULE Conversation ----------------------------
(***************************************************************************)
(* Turns of one conversation, in one server process, on the session store   *)
(* and then on long-term memory.  Nothing serializes them: two messages     *)
(* with one context id are two tasks.  Between two awaits of a turn any     *)
(* other turn may go on; an erase of the user's data and a restart of the   *)
(* process may come anywhere.                                               *)
(***************************************************************************)
EXTENDS SessionStore, MemoryService

CONSTANTS
    MaxErases,   \* bound on erases
    MaxRestarts  \* bound on restarts

ASSUME ConversationAssumption == MaxErases \in Nat /\ MaxRestarts \in Nat

VARIABLES
    pc,          \* where each turn awaits
    appended,    \* events each turn has appended so far
    erases,      \* erases so far
    restarts,    \* restarts so far
    gone,        \* history: events an erase removed
    overlapped   \* history: two turns were under way at once

countVars == <<erases, restarts>>
historyVars == <<gone, overlapped>>
vars == <<storeVars, memoryVars, pc, appended, countVars, historyVars>>

\* After "ended" the reply is delivered and the ingestion runs.
Place == {"new", "create", "fetch", "events", "run", "append", "locked", "inserted",
          "ended", "snapshot", "extract", "advance", "done"}

UnderWay(t) == pc[t] \notin {"new", "done"}

Init ==
    /\ StoreInit
    /\ MemoryInit(Turn)
    /\ pc = [t \in Turn |-> "new"]
    /\ appended = [t \in Turn |-> 0]
    /\ erases = 0
    /\ restarts = 0
    /\ gone = {}
    /\ overlapped = FALSE

Goto(t, place) == pc' = [pc EXCEPT ![t] = place]

(***************************************************************************)
(* A turn: runTurnInner and the runner.                                     *)
(***************************************************************************)

\* The turn asks whether the conversation exists.
Look(t) ==
    /\ pc[t] = "new"
    /\ Goto(t, IF exists THEN "fetch" ELSE "create")
    /\ overlapped' = (overlapped \/ \E u \in Turn : UnderWay(u))
    /\ UNCHANGED <<storeVars, memoryVars, appended, countVars, gone>>

Create(t) ==
    /\ pc[t] = "create"
    /\ CreateSession
    /\ Goto(t, "fetch")
    /\ UNCHANGED <<memoryVars, appended, countVars, historyVars>>

\* The runner gets the session itself, and fails the turn if it is gone.
\* Postgres reads the row and then, in a second statement, the events.
Open(t) ==
    /\ pc[t] = "fetch"
    /\ CASE ~exists -> Goto(t, "done") /\ UNCHANGED storeVars
         [] exists /\ backend = "postgres" -> Goto(t, "events") /\ UNCHANGED storeVars
         [] exists /\ backend = "supabase" -> Goto(t, "run") /\ Fetch(t)
    /\ UNCHANGED <<memoryVars, appended, countVars, historyVars>>

ReadEvents(t) ==
    /\ pc[t] = "events"
    /\ Fetch(t)
    /\ Goto(t, "run")
    /\ UNCHANGED <<memoryVars, appended, countVars, historyVars>>

ThisEvent(t) == <<t, appended[t]>>

(* Plausible bug: the event is numbered after the count was raised. *)
StartAppendLate(t) ==
    /\ pc[t] = "run"
    /\ appended[t] < MaxEvents
    /\ appended' = [appended EXCEPT ![t] = @ + 1]
    /\ Push(t, <<t, appended'[t] + 1>>)
    /\ Goto(t, "append")
    /\ UNCHANGED <<memoryVars, countVars, historyVars>>

\* The runner appends the next event: the message, a reply, a tool result.
StartAppend(t) ==
    /\ pc[t] = "run"
    /\ appended[t] < MaxEvents
    /\ appended' = [appended EXCEPT ![t] = @ + 1]
    /\ Push(t, <<t, appended[t] + 1>>)
    /\ Goto(t, "append")
    /\ UNCHANGED <<memoryVars, countVars, historyVars>>

BeginTransaction(t) ==
    /\ pc[t] = "append"
    /\ LockRow(t)
    /\ Goto(t, "locked")
    /\ UNCHANGED <<memoryVars, appended, countVars, historyVars>>

Insert(t) ==
    /\ pc[t] = "locked"
    /\ InsertEvent(t)
    /\ Goto(t, "inserted")
    /\ UNCHANGED <<memoryVars, appended, countVars, historyVars>>

\* The commit, whose answer may be lost: then the turn fails all the same.
CommitTransaction(t) ==
    /\ pc[t] = "inserted"
    /\ Commit(t, ThisEvent(t))
    /\ \E place \in {"run", "done"} : Goto(t, place)
    /\ UNCHANGED <<memoryVars, appended, countVars, historyVars>>

WriteBack(t) ==
    /\ pc[t] = "append"
    /\ Upsert(t)
    /\ \E place \in {"run", "done"} : Goto(t, place)
    /\ UNCHANGED <<memoryVars, appended, countVars, historyVars>>

\* A statement fails: the transaction is rolled back, and the turn throws.
AppendFails(t) ==
    /\ pc[t] \in {"append", "locked", "inserted"}
    /\ Rollback(t)
    /\ Goto(t, "done")
    /\ UNCHANGED <<memoryVars, appended, countVars, historyVars>>

\* The turn returns; a completed one goes on to ingestTurnMemory.
EndTurn(t) ==
    /\ pc[t] = "run"
    /\ \E place \in {"ended", "done"} : Goto(t, place)
    /\ UNCHANGED <<storeVars, memoryVars, appended, countVars, historyVars>>

(***************************************************************************)
(* ingestTurnMemory.                                                        *)
(***************************************************************************)
ReadSession(t) ==
    /\ pc[t] = "ended"
    /\ Snapshot(t, log)
    /\ Goto(t, IF log = <<>> THEN "done" ELSE "snapshot")
    /\ UNCHANGED <<storeVars, appended, countVars, historyVars>>

StartIngestion(t) ==
    /\ pc[t] = "snapshot"
    /\ Take(t)
    /\ Goto(t, IF fresh'[t] = {} THEN "done" ELSE "extract")
    /\ UNCHANGED <<storeVars, appended, countVars, historyVars>>

StoreRecords(t) ==
    /\ pc[t] = "extract"
    /\ Store(t)
    /\ Goto(t, "advance")
    /\ UNCHANGED <<storeVars, appended, countVars, historyVars>>

(* Plausible bug: the mark advances although the extraction failed. *)
IngestionFailsAnyway(t) ==
    /\ pc[t] \in {"extract", "advance"}
    /\ Advance(t)
    /\ Goto(t, "done")
    /\ UNCHANGED <<storeVars, appended, countVars, historyVars>>

\* Extraction, embedding, insert or supersession throws; the mark stays.
IngestionFails(t) ==
    /\ pc[t] \in {"extract", "advance"}
    /\ Goto(t, "done")
    /\ UNCHANGED <<storeVars, memoryVars, appended, countVars, historyVars>>

AdvanceMark(t) ==
    /\ pc[t] = "advance"
    /\ Advance(t)
    /\ Goto(t, "done")
    /\ UNCHANGED <<storeVars, appended, countVars, historyVars>>

(***************************************************************************)
(* Erase and restart.                                                       *)
(***************************************************************************)

\* melchizedek_erase_scope, in one transaction of its own.  The mark is in
\* the server's memory, which nobody tells.
EraseScope ==
    /\ erases < MaxErases
    /\ DeleteSession
    /\ erases' = erases + 1
    /\ gone' = gone \cup ToSet(log)
    /\ UNCHANGED <<memoryVars, pc, appended, restarts, overlapped>>

\* The process dies and another starts: turns are gone, transactions rolled
\* back, the mark forgotten.
Restart ==
    /\ restarts < MaxRestarts
    /\ restarts' = restarts + 1
    /\ pc' = [t \in Turn |-> IF pc[t] = "new" THEN "new" ELSE "done"]
    /\ lock' = "none"
    /\ Forget
    /\ UNCHANGED <<backend, exists, log, state, seq, live, appended, erases, historyVars>>

Turns(t) ==
    \/ Look(t) \/ Create(t) \/ Open(t) \/ ReadEvents(t)
    \/ StartAppend(t) \/ BeginTransaction(t) \/ Insert(t)
    \/ CommitTransaction(t) \/ WriteBack(t) \/ AppendFails(t)
    \/ EndTurn(t)

Ingestion(t) ==
    \/ ReadSession(t) \/ StartIngestion(t) \/ StoreRecords(t)
    \/ IngestionFails(t) \/ AdvanceMark(t)

Next ==
    \/ \E t \in Turn : Turns(t) \/ Ingestion(t)
    \/ EraseScope
    \/ Restart

Spec == Init /\ [][Next]_vars
-----------------------------------------------------------------------------
(***************************************************************************)
(* Properties.                                                              *)
(***************************************************************************)
TypeOK ==
    /\ backend \in {"postgres", "supabase"}
    /\ exists \in BOOLEAN
    /\ log \in Seq(Event)
    /\ state \subseteq Event
    /\ lock \in Turn \cup {"none"}
    /\ seq \in [Turn -> Nat]
    /\ live \in [Turn -> Seq(Event)]
    /\ mark \in Nat
    /\ snap \in [Turn -> Seq(Event)]
    /\ fresh \in [Turn -> SUBSET Event]
    /\ distilled \subseteq Event
    /\ pc \in [Turn -> Place]
    /\ appended \in [Turn -> 0..MaxEvents]
    /\ erases \in Nat /\ restarts \in Nat
    /\ gone \subseteq Event
    /\ overlapped \in BOOLEAN

\* 0003_postgres_storage: "two turns appending to one conversation both land
\* instead of the later write erasing the earlier one".  Only an erase takes
\* anything from the stored conversation; with the Supabase service that holds
\* as long as turns do not overlap.
AppendOnly ==
    [][(backend = "postgres" \/ ~overlapped) /\ erases' = erases
         => IsPrefix(log, log')]_vars

\* An event and its state delta are stored together or not at all, whatever
\* fails and whoever else writes.
StateAgrees == state = ToSet(log)

\* An event number read in a transaction is still the next one when the event
\* is inserted: no append fails on another's number.
SeqIsNext ==
    \A t \in Turn : pc[t] = "inserted" => lock = t /\ seq[t] = Len(log) + 1

\* Both: the row lock covers all an append reads and writes.
AppendIsWhole == StateAgrees /\ SeqIsNext

\* Erased events never come back from a turn that was under way, which the
\* append-only store guarantees.
ErasedStaysErased == backend = "postgres" => ToSet(log) \cap gone = {}

\* "A high-water mark per session means each turn is distilled once", and a
\* failure "leaves these turns pending": no event below the mark was skipped,
\* on the store that keeps every event.
NothingSkipped ==
    backend = "postgres" =>
        \A i \in 1..Len(log) : i <= mark => log[i] \in distilled

\* It holds while no erase took events from under the mark: ingestions that
\* overlap, finish out of order or fail, and restarts, skip nothing.
NothingSkippedUnlessErased == erases = 0 => NothingSkipped
=============================================================================
