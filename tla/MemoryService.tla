--------------------------- MODULE MemoryService ---------------------------
(***************************************************************************)
(* Long-term memory's ingestion of one conversation                         *)
(* (lib/memory/supabaseMemoryService.ts): after a task the whole session is *)
(* handed over, and a high-water mark in process memory, a number of        *)
(* events, tells which of them are new.  A record stands for the events it  *)
(* was distilled from; what the extraction makes of them is left out.       *)
(***************************************************************************)
EXTENDS Naturals, Sequences, SequencesExt

VARIABLES
    mark,       \* ingestedEventCount of the conversation
    snap,       \* the session each ingestion was handed
    fresh,      \* the events it takes for new
    distilled   \* history: events whose records are stored, or that had none

memoryVars == <<mark, snap, fresh, distilled>>

MemoryInit(Turns) ==
    /\ mark = 0
    /\ snap = [t \in Turns |-> <<>>]
    /\ fresh = [t \in Turns |-> {}]
    /\ distilled = {}

EventsToIngest(events) == ToSet(SubSeq(events, mark + 1, Len(events)))

\* ingestTurnMemory's getSession.
Snapshot(t, events) ==
    /\ snap' = [snap EXCEPT ![t] = events]
    /\ UNCHANGED <<mark, fresh, distilled>>

\* addSessionToMemory up to the extraction.
Take(t) ==
    /\ fresh' = [fresh EXCEPT ![t] = EventsToIngest(snap[t])]
    /\ UNCHANGED <<mark, snap, distilled>>

\* Extraction, embedding, deduplication and insert succeeded, or there was
\* nothing to store.
Store(t) ==
    /\ distilled' = distilled \cup fresh[t]
    /\ UNCHANGED <<mark, snap, fresh>>

\* The mark advances to the length of the session that was handed over.
Advance(t) ==
    /\ mark' = Len(snap[t])
    /\ UNCHANGED <<snap, fresh, distilled>>

\* A new process starts with an empty map.
Forget ==
    /\ mark' = 0
    /\ UNCHANGED <<snap, fresh, distilled>>
=============================================================================
