---------------------------- MODULE SessionStore ----------------------------
(***************************************************************************)
(* One conversation in the session store, behind either session service:    *)
(* lib/storage/postgres/sessionService.ts appends one row per event under a *)
(* row lock and merges state; lib/session/supabaseSessionService.ts writes  *)
(* the whole conversation back, from the copy the turn holds, on every      *)
(* event.  An event is the n-th of its turn; its state delta is the event.  *)
(***************************************************************************)
EXTENDS Naturals, Sequences, SequencesExt

CONSTANTS
    Turn,      \* turns that run on the conversation
    MaxEvents  \* bound on the events of a turn

ASSUME SessionStoreAssumption ==
    /\ "none" \notin Turn
    /\ MaxEvents \in Nat \ {0}

VARIABLES
    backend,  \* which service the process was started with
    exists,   \* the conversation's row is there
    log,      \* the stored events, in order
    state,    \* the events whose state delta is in the stored state
    lock,     \* the transaction that holds the row lock
    seq,      \* the number an open transaction gave its event
    live      \* the events of the session object each turn holds

storeVars == <<backend, exists, log, state, lock, seq, live>>

Event == Turn \X (1..MaxEvents)

StoreInit ==
    /\ backend \in {"postgres", "supabase"}
    /\ exists = FALSE
    /\ log = <<>>
    /\ state = {}
    /\ lock = "none"
    /\ seq = [t \in Turn |-> 0]
    /\ live = [t \in Turn |-> <<>>]

\* getSession's events, for the runner.
Fetch(t) ==
    /\ live' = [live EXCEPT ![t] = log]
    /\ UNCHANGED <<backend, exists, log, state, lock, seq>>

(* Plausible bug: the insert overwrites a row that is already there. *)
CreateSessionResets ==
    /\ exists \/ lock = "none"
    /\ exists' = TRUE
    /\ log' = <<>>
    /\ state' = {}
    /\ UNCHANGED <<backend, lock, seq, live>>

\* createSession.  Postgres: ON CONFLICT DO NOTHING, after a transaction that
\* is creating the same row.  Supabase: an upsert of the empty conversation.
CreateSession ==
    /\ exists' = TRUE
    /\ \/ /\ backend = "postgres"
          /\ exists \/ lock = "none"
          /\ UNCHANGED <<log, state>>
       \/ /\ backend = "supabase"
          /\ log' = <<>>
          /\ state' = {}
    /\ UNCHANGED <<backend, lock, seq, live>>

\* The ADK's own merge: appendEvent changes the turn's copy first.
Push(t, e) ==
    /\ live' = [live EXCEPT ![t] = Append(@, e)]
    /\ UNCHANGED <<backend, exists, log, state, lock, seq>>

(* Plausible bug: SELECT without FOR UPDATE. *)
LockRowShared(t) ==
    /\ backend = "postgres"
    /\ lock' = t
    /\ UNCHANGED <<backend, exists, log, state, seq, live>>

\* SELECT ... FOR UPDATE; a row that is missing is inserted, which excludes
\* other transactions on it as well.
LockRow(t) ==
    /\ backend = "postgres"
    /\ lock = "none"
    /\ lock' = t
    /\ UNCHANGED <<backend, exists, log, state, seq, live>>

\* INSERT of the event with max(seq) + 1.
InsertEvent(t) ==
    /\ seq' = [seq EXCEPT ![t] = Len(log) + 1]
    /\ UNCHANGED <<backend, exists, log, state, lock, live>>

(* Plausible bugs: the turn's copy is written in place of its event; the state
   is updated outside the transaction. *)
CommitCopy(t, e) ==
    /\ exists' = TRUE
    /\ log' = live[t]
    /\ state' = ToSet(live[t])
    /\ lock' = "none"
    /\ UNCHANGED <<backend, seq, live>>

\* UPDATE of the state and COMMIT: event and state delta land together.
Commit(t, e) ==
    /\ exists' = TRUE
    /\ log' = Append(log, e)
    /\ state' = state \cup {e}
    /\ lock' = "none"
    /\ UNCHANGED <<backend, seq, live>>

Rollback(t) ==
    /\ lock' = IF lock = t THEN "none" ELSE lock
    /\ UNCHANGED <<backend, exists, log, state, seq, live>>

\* Supabase: the turn's whole copy becomes the row.
Upsert(t) ==
    /\ backend = "supabase"
    /\ exists' = TRUE
    /\ log' = live[t]
    /\ state' = ToSet(live[t])
    /\ UNCHANGED <<backend, lock, seq, live>>

\* The delete waits for a transaction that holds the row; the events go with
\* the row.
DeleteSession ==
    /\ lock = "none"
    /\ exists' = FALSE
    /\ log' = <<>>
    /\ state' = {}
    /\ UNCHANGED <<backend, lock, seq, live>>
=============================================================================
