------------------------------ MODULE TaskRace ------------------------------
(***************************************************************************)
(* The same two processes as TaskQueue, with mutate() as the operating      *)
(* system runs it: readStore and, later, writeStore (temp file + rename).   *)
(* mutate is synchronous, so nothing of its own process comes between the   *)
(* two, but the other process is not stopped by it.  Each write is the      *)
(* TaskQueue action applied to the store that was read.  No lock keeps the  *)
(* two windows apart.                                                       *)
(***************************************************************************)
EXTENDS TaskQueue

VARIABLE
    view  \* what a process inside mutate() read, per process

raceVars == <<store, clock, chats, stops, worker, view>>

Process == {"chat", "worker"}

\* Outside mutate().  A store has at least the id 1 to hand out next.
NoView == [emptyStore EXCEPT !.next_id = 0]
Inside(p) == view[p].next_id # 0

RaceInit ==
    /\ Init
    /\ view = [p \in Process |-> NoView]

Read(p) ==
    /\ ~Inside(p)
    /\ view' = [view EXCEPT ![p] = store]
    /\ UNCHANGED vars

\* readStore for one of the worker's three mutations, and for a tool call.
ReadForWorker == Read("worker") /\ (worker.up => worker.job # NoJob \/ ~worker.stopping)
ReadForChat == Read("chat") /\ chats < MaxChat

\* writeStore: p's action on what it read, and p is outside again.
Write(p, Act) ==
    /\ Inside(p)
    /\ Act
    /\ view' = [view EXCEPT ![p] = NoView]

\* A signal handler runs between two steps of the worker's event loop, never
\* inside mutate.
Handler(Act) == ~Inside("worker") /\ Act /\ UNCHANGED view

\* The process may die anywhere; a write not yet renamed is lost.
DieAnywhere == Crash /\ view' = [view EXCEPT !["worker"] = NoView]

RaceNext ==
    \/ ReadForChat
    \/ ReadForWorker
    \/ Write("chat", Chat(view["chat"]))
    \/ Write("worker", StartWorker(view["worker"]))
    \/ Write("worker", Claim(view["worker"]))
    \/ Write("worker", ClaimNothing(view["worker"]))
    \/ Write("worker", \E ok \in BOOLEAN : Finish(view["worker"], ok))
    \/ Handler(Interrupt)
    \/ Handler(Terminate)
    \/ Handler(ExitWorker)
    \/ DieAnywhere

RaceSpec == RaceInit /\ [][RaceNext]_raceVars
-----------------------------------------------------------------------------
(***************************************************************************)
(* Properties.                                                              *)
(***************************************************************************)

\* rename makes each write whole: whatever the interleaving, the file and
\* every copy of it in flight is a store some sequence of calls could have
\* written, capped, with bounded retries and outcomes that agree.
EveryCopySound ==
    \A s \in {store} \cup {view[p] : p \in {q \in Process : Inside(q)}} :
        WellFormed(s) /\ Capped(s) /\ RetryBudget(s) /\ OutcomeAgrees(s)

\* "Every operation re-reads the file, so the chat process and the worker see
\* each other's writes" and "live ones are never dropped": a live record one
\* process added is not lost to the other process's write.
NoLostTask ==
    [][\A i \in Ids(store) :
         store.tasks[i].status \notin FINISHED => i \in Ids(store')]_raceVars
=============================================================================
