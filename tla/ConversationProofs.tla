------------------------- MODULE ConversationProofs -------------------------
(***************************************************************************)
(* The safety of a conversation for any number of turns, events, erases and *)
(* restarts, on either session store.                                       *)
(*                                                                          *)
(* Four facts make the properties inductive.  A transaction's turn holds    *)
(* the row lock (Locked).  Every stored or erased event is one its turn has *)
(* already committed, so the one in hand is new (Numbered).  While no two   *)
(* turns have overlapped, the copy a turn writes back extends what is       *)
(* stored (Alone).  What an ingestion was handed is still the beginning of  *)
(* the conversation, and the mark lies within it (Marked).                  *)
(***************************************************************************)
EXTENDS Conversation, TLAPS

Appending(t) == pc[t] \in {"append", "locked", "inserted"}

Locked ==
    \A t \in Turn :
        /\ Appending(t) => appended[t] >= 1
        /\ pc[t] \in {"locked", "inserted"} => lock = t /\ backend = "postgres"
        /\ pc[t] = "inserted" => seq[t] = Len(log) + 1

Base == TypeOK /\ Locked

(***************************************************************************)
(* Sequences.                                                               *)
(***************************************************************************)
LEMMA SetOfEmpty == ToSet(<<>>) = {}
  BY DEF ToSet

LEMMA SetOfAppend ==
  ASSUME NEW S, NEW s \in Seq(S), NEW e \in S
  PROVE  ToSet(Append(s, e)) = ToSet(s) \cup {e}
<1>1. /\ DOMAIN Append(s, e) = 1..(Len(s) + 1) /\ DOMAIN s = 1..Len(s)
      /\ \A i \in 1..Len(s) : Append(s, e)[i] = s[i]
      /\ Append(s, e)[Len(s) + 1] = e
      /\ Len(s) \in Nat
  OBVIOUS
<1>2. ASSUME NEW x \in ToSet(Append(s, e)) PROVE x \in ToSet(s) \cup {e}
  BY <1>1, <1>2 DEF ToSet
<1>3. ASSUME NEW x \in ToSet(s) PROVE x \in ToSet(Append(s, e))
  <2>1. PICK i \in 1..Len(s) : x = s[i]
    BY <1>1, <1>3 DEF ToSet
  <2> QED BY <1>1, <2>1 DEF ToSet
<1>4. e \in ToSet(Append(s, e))
  BY <1>1 DEF ToSet
<1> QED BY <1>2, <1>3, <1>4

LEMMA SetOfSeq ==
  ASSUME NEW S, NEW s \in Seq(S)
  PROVE  ToSet(s) \subseteq S
  BY DEF ToSet

\* A prefix, index by index.
LEMMA PrefixPointwise ==
  ASSUME NEW S, NEW s \in Seq(S), NEW u \in Seq(S)
  PROVE  IsPrefix(s, u) <=> Len(s) <= Len(u) /\ \A i \in 1..Len(s) : s[i] = u[i]
<1>1. ASSUME IsPrefix(s, u) PROVE Len(s) <= Len(u) /\ \A i \in 1..Len(s) : s[i] = u[i]
  <2>1. Len(s) <= Len(u) /\ SubSeq(s, 1, Len(s)) = SubSeq(u, 1, Len(s))
    BY <1>1 DEF IsPrefix
  <2>2. \A i \in 1..Len(s) :
          SubSeq(s, 1, Len(s))[i] = s[i] /\ SubSeq(u, 1, Len(s))[i] = u[i]
    BY <2>1
  <2> QED BY <2>1, <2>2
<1>2. ASSUME Len(s) <= Len(u), \A i \in 1..Len(s) : s[i] = u[i] PROVE IsPrefix(s, u)
  <2>1. /\ SubSeq(s, 1, Len(s)) = [i \in 1..Len(s) |-> s[i]]
        /\ SubSeq(u, 1, Len(s)) = [i \in 1..Len(s) |-> u[i]]
    BY <1>2
  <2> QED BY <1>2, <2>1 DEF IsPrefix
<1> QED BY <1>1, <1>2

LEMMA PrefixFacts ==
  ASSUME NEW S, NEW s \in Seq(S)
  PROVE  /\ IsPrefix(s, s)
         /\ IsPrefix(<<>>, s)
         /\ \A e \in S : IsPrefix(s, Append(s, e))
         /\ \A u \in Seq(S), e \in S : IsPrefix(s, u) => IsPrefix(s, Append(u, e))
<1>1. IsPrefix(s, s)
  BY PrefixPointwise
<1>2. IsPrefix(<<>>, s)
  <2>1. <<>> \in Seq(S) /\ Len(<<>>) <= Len(s) /\ 1..Len(<<>>) = {}
    OBVIOUS
  <2> QED BY <2>1, PrefixPointwise
<1>3. ASSUME NEW u \in Seq(S), NEW e \in S, IsPrefix(s, u)
      PROVE  IsPrefix(s, Append(u, e))
  <2>1. Len(s) <= Len(u) /\ \A i \in 1..Len(s) : s[i] = u[i]
    BY <1>3, PrefixPointwise
  <2>2. /\ Append(u, e) \in Seq(S) /\ Len(s) <= Len(Append(u, e))
        /\ \A i \in 1..Len(s) : s[i] = Append(u, e)[i]
    BY <2>1
  <2> QED BY <2>2, PrefixPointwise
<1> QED BY <1>1, <1>2, <1>3

(***************************************************************************)
(* Types and transactions.                                                  *)
(***************************************************************************)
LEMMA InitBase == Init => Base
<1> SUFFICES ASSUME Init PROVE Base
  OBVIOUS
<1>1. TypeOK
  <2>1. <<>> \in Seq(Event)
    OBVIOUS
  <2>2. /\ log \in Seq(Event) /\ live \in [Turn -> Seq(Event)] /\ snap \in [Turn -> Seq(Event)]
        /\ fresh \in [Turn -> SUBSET Event]
    BY <2>1 DEF Init, StoreInit, MemoryInit
  <2>3. appended \in [Turn -> 0..MaxEvents]
    BY SessionStoreAssumption DEF Init
  <2>4. /\ backend \in {"postgres", "supabase"} /\ exists \in BOOLEAN
        /\ state \subseteq Event /\ lock \in Turn \cup {"none"} /\ seq \in [Turn -> Nat]
        /\ mark \in Nat /\ distilled \subseteq Event /\ pc \in [Turn -> Place]
        /\ erases \in Nat /\ restarts \in Nat /\ gone \subseteq Event /\ overlapped \in BOOLEAN
    BY DEF Init, StoreInit, MemoryInit, Place
  <2> QED BY <2>2, <2>3, <2>4 DEF TypeOK
<1>2. Locked
  BY DEF Init, StoreInit, Locked, Appending
<1> QED BY <1>1, <1>2 DEF Base

LEMMA TurnKeepsBase ==
  ASSUME Base, NEW t \in Turn, Turns(t)
  PROVE  Base'
<1> USE SessionStoreAssumption DEF Base, TypeOK, Locked, Appending, Goto, Place,
        storeVars, memoryVars, countVars, historyVars
<1>1. CASE Look(t)
  BY <1>1 DEF Look, UnderWay
<1>2. CASE Create(t)
  <2>1. log' \in Seq(Event) /\ state' \subseteq Event
    <3>1. <<>> \in Seq(Event)
      OBVIOUS
    <3>2. \/ log' = log /\ state' = state
          \/ log' = <<>> /\ state' = {}
      BY <1>2 DEF Create, CreateSession
    <3> QED BY <3>1, <3>2
  <2>2. TypeOK'
    BY <1>2, <2>1 DEF Create, CreateSession
  <2>3. Locked'
    BY <1>2 DEF Create, CreateSession
  <2> QED BY <2>2, <2>3
<1>3. CASE Open(t)
  <2>1. CASE ~exists
    BY <1>3, <2>1 DEF Open
  <2>2. CASE exists /\ backend = "postgres"
    BY <1>3, <2>2 DEF Open
  <2>3. CASE exists /\ backend = "supabase"
    <3>1. Goto(t, "run") /\ Fetch(t) /\ UNCHANGED <<memoryVars, appended, countVars, historyVars>>
      BY <1>3, <2>3 DEF Open
    <3> QED BY <3>1 DEF Fetch
  <2> QED BY <2>1, <2>2, <2>3
<1>4. CASE ReadEvents(t)
  BY <1>4 DEF ReadEvents, Fetch
<1>5. CASE StartAppend(t)
  <2>1. appended[t] + 1 \in 1..MaxEvents /\ appended' \in [Turn -> 0..MaxEvents]
    BY <1>5 DEF StartAppend
  <2>2. <<t, appended[t] + 1>> \in Event
    BY <2>1 DEF Event
  <2>3. live' \in [Turn -> Seq(Event)]
    BY <1>5, <2>2 DEF StartAppend, Push
  <2>4. TypeOK'
    BY <1>5, <2>1, <2>3 DEF StartAppend, Push
  <2>5. Locked'
    BY <1>5, <2>1 DEF StartAppend, Push
  <2> QED BY <2>4, <2>5
<1>6. CASE BeginTransaction(t)
  BY <1>6 DEF BeginTransaction, LockRow
<1>7. CASE Insert(t)
  BY <1>7 DEF Insert, InsertEvent
<1>8. CASE CommitTransaction(t)
  <2>1. ThisEvent(t) \in Event
    BY <1>8 DEF CommitTransaction, ThisEvent, Event
  <2>2. log' \in Seq(Event) /\ state' \subseteq Event
    BY <1>8, <2>1 DEF CommitTransaction, Commit
  <2>3. TypeOK'
    BY <1>8, <2>2 DEF CommitTransaction, Commit
  <2>4. Locked'
    BY <1>8 DEF CommitTransaction, Commit
  <2> QED BY <2>3, <2>4
<1>9. CASE WriteBack(t)
  BY <1>9, SetOfSeq DEF WriteBack, Upsert
<1>10. CASE AppendFails(t)
  BY <1>10 DEF AppendFails, Rollback
<1>11. CASE EndTurn(t)
  BY <1>11 DEF EndTurn
<1> QED BY <1>1, <1>2, <1>3, <1>4, <1>5, <1>6, <1>7, <1>8, <1>9, <1>10, <1>11 DEF Turns

LEMMA IngestionKeepsBase ==
  ASSUME Base, NEW t \in Turn, Ingestion(t)
  PROVE  Base'
<1>0. /\ UNCHANGED <<storeVars, appended, countVars, historyVars>>
      /\ pc' \in [Turn -> Place]
      /\ \A u \in Turn : u # t => pc'[u] = pc[u]
      /\ pc'[t] \in {"snapshot", "extract", "advance", "done"}
  BY DEF Base, TypeOK, Place, Goto, Ingestion, ReadSession, StartIngestion, StoreRecords,
         IngestionFails, AdvanceMark
<1>1. Locked'
  BY <1>0 DEF Base, Locked, Appending, storeVars
<1>2. mark' \in Nat /\ snap' \in [Turn -> Seq(Event)]
      /\ fresh' \in [Turn -> SUBSET Event] /\ distilled' \subseteq Event
  <2> USE DEF Base, TypeOK
  <2>1. CASE ReadSession(t)
    BY <2>1 DEF ReadSession, Snapshot
  <2>2. CASE StartIngestion(t)
    <3>1. EventsToIngest(snap[t]) \subseteq Event
      <4>1. SubSeq(snap[t], mark + 1, Len(snap[t])) \in Seq(Event)
        OBVIOUS
      <4> QED BY <4>1, SetOfSeq DEF EventsToIngest
    <3> QED BY <2>2, <3>1 DEF StartIngestion, Take
  <2>3. CASE StoreRecords(t)
    BY <2>3 DEF StoreRecords, Store
  <2>4. CASE IngestionFails(t)
    BY <2>4 DEF IngestionFails, memoryVars
  <2>5. CASE AdvanceMark(t)
    BY <2>5 DEF AdvanceMark, Advance
  <2> QED BY <2>1, <2>2, <2>3, <2>4, <2>5 DEF Ingestion
<1>3. TypeOK'
  BY <1>0, <1>2 DEF Base, TypeOK, storeVars, countVars, historyVars
<1> QED BY <1>1, <1>3 DEF Base

LEMMA EraseKeepsBase == Base /\ EraseScope => Base'
<1> SUFFICES ASSUME Base, EraseScope PROVE Base'
  OBVIOUS
<1>1. log \in Seq(Event)
  BY DEF Base, TypeOK
<1>2. ToSet(log) \subseteq Event
  BY <1>1, SetOfSeq
<1>3. <<>> \in Seq(Event)
  OBVIOUS
<1>4. log' \in Seq(Event) /\ gone' \subseteq Event /\ erases' \in Nat
  BY <1>2, <1>3 DEF Base, TypeOK, EraseScope, DeleteSession
<1>5. TypeOK'
  BY <1>4 DEF Base, TypeOK, EraseScope, DeleteSession, memoryVars
<1>6. Locked'
  BY SessionStoreAssumption
  DEF Base, TypeOK, Locked, Appending, EraseScope, DeleteSession, memoryVars
<1> QED BY <1>5, <1>6 DEF Base

LEMMA RestartKeepsBase == Base /\ Restart => Base'
<1> SUFFICES ASSUME Base, Restart PROVE Base'
  OBVIOUS
<1>1. /\ pc' \in [Turn -> Place]
      /\ \A t \in Turn : pc'[t] \in {"new", "done"}
  BY DEF Restart, Place
<1>2. TypeOK'
  BY <1>1 DEF Base, TypeOK, Restart, Forget, historyVars
<1>3. Locked'
  BY <1>1 DEF Locked, Appending
<1> QED BY <1>2, <1>3 DEF Base

LEMMA BaseStep == Base /\ [Next]_vars => Base'
<1> SUFFICES ASSUME Base, [Next]_vars PROVE Base'
  OBVIOUS
<1>1. CASE UNCHANGED vars
  BY <1>1 DEF Base, TypeOK, Locked, Appending, vars, storeVars, memoryVars, countVars, historyVars
<1> QED
  BY <1>1, TurnKeepsBase, IngestionKeepsBase, EraseKeepsBase, RestartKeepsBase DEF Next

\* The type invariant, for every conversation.
THEOREM TypeCorrect == Spec => []TypeOK
<1>1. Base => TypeOK
  BY DEF Base
<1> QED BY <1>1, InitBase, BaseStep, PTL DEF Spec

(***************************************************************************)
(* What a step does to the stored conversation.                             *)
(***************************************************************************)
LEMMA LogStep ==
  ASSUME Base, [Next]_vars
  PROVE  \/ UNCHANGED <<log, state, gone>>
         \/ /\ erases' = erases + 1 /\ log' = <<>> /\ state' = {}
            /\ gone' = gone \cup ToSet(log) /\ lock = "none"
         \/ /\ gone' = gone
            /\ \E t \in Turn :
                 \/ Create(t) /\ backend = "supabase" /\ log' = <<>> /\ state' = {}
                 \/ CommitTransaction(t) /\ lock = t
                 \/ WriteBack(t)
<1>1. CASE UNCHANGED vars
  BY <1>1 DEF vars, storeVars, historyVars
<1>2. ASSUME NEW t \in Turn, Turns(t)
      PROVE  \/ UNCHANGED <<log, state, gone>>
             \/ /\ gone' = gone
                /\ \/ Create(t) /\ backend = "supabase" /\ log' = <<>> /\ state' = {}
                   \/ CommitTransaction(t) /\ lock = t
                   \/ WriteBack(t)
  <2> USE DEF storeVars, historyVars
  <2>1. CASE Look(t)
    BY <2>1 DEF Look
  <2>2. CASE Create(t)
    BY <2>2 DEF Create, CreateSession
  <2>3. CASE Open(t)
    <3>1. Fetch(t) \/ UNCHANGED storeVars
      <4>1. backend \in {"postgres", "supabase"} /\ exists \in BOOLEAN
        BY DEF Base, TypeOK
      <4> QED BY <2>3, <4>1 DEF Open
    <3> QED BY <2>3, <3>1 DEF Open, Fetch
  <2>4. CASE ReadEvents(t) \/ StartAppend(t)
    <3>1. CASE ReadEvents(t)
      BY <3>1 DEF ReadEvents, Fetch
    <3>2. CASE StartAppend(t)
      BY <3>2 DEF StartAppend, Push
    <3> QED BY <2>4, <3>1, <3>2
  <2>5. CASE BeginTransaction(t) \/ Insert(t) \/ AppendFails(t) \/ EndTurn(t)
    BY <2>5 DEF BeginTransaction, LockRow, Insert, InsertEvent, AppendFails, Rollback, EndTurn
  <2>6. CASE CommitTransaction(t)
    BY <2>6 DEF CommitTransaction, Base, Locked
  <2>7. CASE WriteBack(t)
    BY <2>7 DEF WriteBack
  <2> QED BY <1>2, <2>1, <2>2, <2>3, <2>4, <2>5, <2>6, <2>7 DEF Turns
<1>3. ASSUME NEW t \in Turn, Ingestion(t)
      PROVE  UNCHANGED <<log, state, gone>>
  BY <1>3 DEF Ingestion, ReadSession, StartIngestion, StoreRecords, IngestionFails,
              AdvanceMark, storeVars, historyVars
<1>4. CASE EraseScope
  BY <1>4 DEF EraseScope, DeleteSession
<1>5. CASE Restart
  BY <1>5 DEF Restart, historyVars
<1> QED BY <1>1, <1>2, <1>3, <1>4, <1>5 DEF Next

(***************************************************************************)
(* State and events agree, and a number read is the next one.               *)
(***************************************************************************)
LEMMA StateStep == Base /\ StateAgrees /\ [Next]_vars => StateAgrees'
<1> SUFFICES ASSUME Base, StateAgrees, [Next]_vars PROVE StateAgrees'
  OBVIOUS
<1>1. CASE UNCHANGED <<log, state>>
  BY <1>1 DEF StateAgrees
<1>2. CASE log' = <<>> /\ state' = {}
  BY <1>2, SetOfEmpty DEF StateAgrees
<1>3. ASSUME NEW t \in Turn, CommitTransaction(t) PROVE StateAgrees'
  <2>1. log \in Seq(Event) /\ ThisEvent(t) \in Event
    BY <1>3 DEF Base, TypeOK, Locked, Appending, CommitTransaction, ThisEvent, Event
  <2>2. log' = Append(log, ThisEvent(t)) /\ state' = state \cup {ThisEvent(t)}
    BY <1>3 DEF CommitTransaction, Commit
  <2> QED BY <2>1, <2>2, SetOfAppend DEF StateAgrees
<1>4. ASSUME NEW t \in Turn, WriteBack(t) PROVE StateAgrees'
  BY <1>4 DEF WriteBack, Upsert, StateAgrees
<1> QED BY <1>1, <1>2, <1>3, <1>4, LogStep

\* An event and its state delta land together, whoever else writes, and no
\* append fails on a number another transaction took.
THEOREM AppendsAreWhole == Spec => []AppendIsWhole
<1>1. Init => StateAgrees
  BY SetOfEmpty DEF Init, StoreInit, StateAgrees
<1>2. Base /\ StateAgrees => AppendIsWhole
  BY DEF Base, Locked, SeqIsNext, AppendIsWhole
<1> QED BY <1>1, <1>2, InitBase, BaseStep, StateStep, PTL DEF Spec

(***************************************************************************)
(* Erased events do not come back.                                          *)
(***************************************************************************)
Numbered ==
    backend = "postgres" =>
        \A e \in ToSet(log) \cup gone :
            /\ e[2] <= appended[e[1]]
            /\ Appending(e[1]) => e[2] < appended[e[1]]

\* Counts only grow, and a turn that has begun an event has not stored it.
LEMMA CountStep ==
  ASSUME Base, [Next]_vars
  PROVE  /\ backend' = backend
         /\ \A t \in Turn :
              \/ appended'[t] = appended[t] /\ (Appending(t)' => Appending(t))
              \/ appended'[t] = appended[t] + 1
<1> USE DEF Base, TypeOK, Appending, Goto, Place, storeVars, memoryVars, countVars, historyVars
<1>1. CASE UNCHANGED vars
  BY <1>1 DEF vars
<1>2. ASSUME NEW u \in Turn, Turns(u)
      PROVE  /\ backend' = backend
             /\ \A t \in Turn :
                  \/ appended'[t] = appended[t] /\ (Appending(t)' => Appending(t))
                  \/ appended'[t] = appended[t] + 1
  <2>1. CASE Look(u)
    BY <2>1 DEF Look
  <2>2. CASE Create(u)
    BY <2>2 DEF Create, CreateSession
  <2>3. CASE Open(u)
    <3>1. /\ Fetch(u) \/ UNCHANGED storeVars
          /\ Goto(u, "done") \/ Goto(u, "events") \/ Goto(u, "run")
      BY <2>3 DEF Open
    <3> QED BY <2>3, <3>1 DEF Open, Fetch
  <2>4. CASE ReadEvents(u)
    BY <2>4 DEF ReadEvents, Fetch
  <2>5. CASE StartAppend(u)
    BY <2>5 DEF StartAppend, Push
  <2>6. CASE BeginTransaction(u)
    BY <2>6 DEF BeginTransaction, LockRow
  <2>7. CASE Insert(u)
    BY <2>7 DEF Insert, InsertEvent
  <2>8. CASE CommitTransaction(u)
    BY <2>8 DEF CommitTransaction, Commit
  <2>9. CASE WriteBack(u)
    BY <2>9 DEF WriteBack, Upsert
  <2>10. CASE AppendFails(u) \/ EndTurn(u)
    BY <2>10 DEF AppendFails, Rollback, EndTurn
  <2> QED BY <1>2, <2>1, <2>2, <2>3, <2>4, <2>5, <2>6, <2>7, <2>8, <2>9, <2>10 DEF Turns
<1>3. ASSUME NEW u \in Turn, Ingestion(u)
      PROVE  /\ backend' = backend
             /\ \A t \in Turn : appended'[t] = appended[t] /\ (Appending(t)' => Appending(t))
  BY <1>3 DEF Ingestion, ReadSession, StartIngestion, StoreRecords, IngestionFails, AdvanceMark
<1>4. CASE EraseScope
  BY <1>4 DEF EraseScope, DeleteSession
<1>5. CASE Restart
  BY <1>5 DEF Restart
<1> QED BY <1>1, <1>2, <1>3, <1>4, <1>5 DEF Next

LEMMA NumberedStep == Base /\ Numbered /\ [Next]_vars => Numbered'
<1> SUFFICES ASSUME Base, Numbered, [Next]_vars, backend = "postgres",
                    NEW e \in ToSet(log') \cup gone'
             PROVE  /\ e[2] <= appended'[e[1]]
                    /\ Appending(e[1])' => e[2] < appended'[e[1]]
  BY CountStep DEF Numbered, Appending
<1>1. log \in Seq(Event) /\ ToSet(log) \subseteq Event /\ gone \subseteq Event
  <2>1. log \in Seq(Event) /\ gone \subseteq Event
    BY DEF Base, TypeOK
  <2> QED BY <2>1, SetOfSeq
<1>2. CASE e \in ToSet(log) \cup gone
  <2>1. e[1] \in Turn /\ e[2] \in Nat
    BY <1>1, <1>2 DEF Event
  <2>2. /\ e[2] <= appended[e[1]]
        /\ Appending(e[1]) => e[2] < appended[e[1]]
    BY <1>2 DEF Numbered
  <2>3. appended[e[1]] \in Nat
    BY <2>1 DEF Base, TypeOK
  <2> QED BY <2>1, <2>2, <2>3, CountStep
<1>3. ASSUME NEW t \in Turn, CommitTransaction(t), e = ThisEvent(t)
      PROVE  /\ e[2] <= appended'[e[1]]
             /\ Appending(e[1])' => e[2] < appended'[e[1]]
  BY <1>3 DEF CommitTransaction, ThisEvent, Goto, Appending, Base, TypeOK
<1>4. \/ e \in ToSet(log) \cup gone
      \/ \E t \in Turn : CommitTransaction(t) /\ e = ThisEvent(t)
  <2>1. CASE UNCHANGED <<log, state, gone>>
    BY <2>1
  <2>2. CASE log' = <<>> /\ gone' \in {gone, gone \cup ToSet(log)}
    BY <2>2, SetOfEmpty
  <2>3. ASSUME NEW t \in Turn, CommitTransaction(t), gone' = gone
        PROVE  e \in ToSet(log) \cup gone \/ e = ThisEvent(t)
    <3>1. ThisEvent(t) \in Event /\ log' = Append(log, ThisEvent(t))
      BY <2>3 DEF Base, TypeOK, Locked, Appending, CommitTransaction, Commit, ThisEvent, Event
    <3> QED BY <1>1, <2>3, <3>1, SetOfAppend
  <2>4. ASSUME NEW t \in Turn, WriteBack(t) PROVE FALSE
    BY <2>4 DEF WriteBack, Upsert
  <2> QED BY <2>1, <2>2, <2>3, <2>4, LogStep
<1> QED BY <1>2, <1>3, <1>4

LEMMA ErasedStep ==
  Base /\ Numbered /\ ErasedStaysErased /\ [Next]_vars => ErasedStaysErased'
<1> SUFFICES ASSUME Base, Numbered, ErasedStaysErased, [Next]_vars, backend = "postgres"
             PROVE  ToSet(log') \cap gone' = {}
  BY CountStep DEF ErasedStaysErased
<1>1. CASE UNCHANGED <<log, state, gone>>
  BY <1>1 DEF ErasedStaysErased
<1>2. CASE log' = <<>>
  BY <1>2, SetOfEmpty
<1>3. ASSUME NEW t \in Turn, CommitTransaction(t), gone' = gone
      PROVE  ToSet(log') \cap gone' = {}
  <2>1. log \in Seq(Event) /\ ThisEvent(t) \in Event /\ log' = Append(log, ThisEvent(t))
    BY <1>3 DEF Base, TypeOK, Locked, Appending, CommitTransaction, Commit, ThisEvent, Event
  <2>2. ThisEvent(t) \notin gone
    <3>1. ThisEvent(t)[1] = t /\ ThisEvent(t)[2] = appended[t] /\ Appending(t)
      BY <1>3 DEF ThisEvent, CommitTransaction, Appending
    <3>2. appended[t] \in Nat
      BY DEF Base, TypeOK
    <3> QED BY <3>1, <3>2 DEF Numbered
  <2> QED BY <1>3, <2>1, <2>2, SetOfAppend DEF ErasedStaysErased
<1>4. ASSUME NEW t \in Turn, WriteBack(t) PROVE FALSE
  BY <1>4 DEF WriteBack, Upsert
<1> QED BY <1>1, <1>2, <1>3, <1>4, LogStep

\* An erase is final for the events it removed, on the append-only store.
THEOREM ErasedForGood == Spec => []ErasedStaysErased
<1>1. Init => Numbered /\ ErasedStaysErased
  BY SetOfEmpty DEF Init, StoreInit, Numbered, ErasedStaysErased
<1> QED BY <1>1, InitBase, BaseStep, NumberedStep, ErasedStep, PTL DEF Spec

(***************************************************************************)
(* Only an erase takes anything from the conversation.                      *)
(***************************************************************************)
Alone ==
    /\ ~exists => log = <<>>
    /\ ~overlapped =>
        /\ \A t, u \in Turn : UnderWay(t) /\ UnderWay(u) => t = u
        /\ \A t \in Turn : pc[t] = "create" => log = <<>>
        /\ \A t \in Turn : backend = "supabase" /\ pc[t] \in {"run", "append"}
                             => IsPrefix(log, live[t])

LEMMA AppendStep ==
  ASSUME Base, Alone, [Next]_vars
  PROVE  (backend = "postgres" \/ ~overlapped) /\ erases' = erases => IsPrefix(log, log')
<1> SUFFICES ASSUME backend = "postgres" \/ ~overlapped, erases' = erases
             PROVE  IsPrefix(log, log')
  OBVIOUS
<1>1. log \in Seq(Event) /\ erases \in Nat
  BY DEF Base, TypeOK
<1>2. CASE UNCHANGED <<log, state, gone>>
  BY <1>1, <1>2, PrefixFacts
<1>3. ASSUME NEW t \in Turn, Create(t), backend = "supabase", log' = <<>>
      PROVE  IsPrefix(log, log')
  <2>1. log = <<>>
    BY <1>3 DEF Create, Alone
  <2> QED BY <1>1, <1>3, <2>1, PrefixFacts
<1>4. ASSUME NEW t \in Turn, CommitTransaction(t) PROVE IsPrefix(log, log')
  <2>1. ThisEvent(t) \in Event /\ log' = Append(log, ThisEvent(t))
    BY <1>4 DEF Base, TypeOK, Locked, Appending, CommitTransaction, Commit, ThisEvent, Event
  <2> QED BY <1>1, <2>1, PrefixFacts
<1>5. ASSUME NEW t \in Turn, WriteBack(t) PROVE IsPrefix(log, log')
  BY <1>5 DEF WriteBack, Upsert, Alone
<1> QED BY <1>1, <1>2, <1>3, <1>4, <1>5, LogStep

\* The copy a turn may write back next extends what is stored after its step.
LEMMA CopyStep ==
  ASSUME Base, Alone, ~overlapped, NEW t \in Turn, Turns(t), backend = "supabase",
         pc'[t] \in {"run", "append"}
  PROVE  IsPrefix(log', live'[t])
<1> USE DEF Base, TypeOK, Goto, Place
<1>1. log \in Seq(Event) /\ live[t] \in Seq(Event)
  OBVIOUS
<1>2. CASE Look(t) \/ Create(t) \/ AppendFails(t) \/ EndTurn(t)
  BY <1>2 DEF Look, Create, AppendFails, EndTurn
<1>3. CASE Open(t)
  <2>1. Fetch(t)
    BY <1>3 DEF Open
  <2>2. live'[t] = log /\ log' = log
    BY <2>1 DEF Fetch
  <2> QED BY <1>1, <2>2, PrefixFacts
<1>4. CASE ReadEvents(t)
  <2>1. live'[t] = log /\ log' = log
    BY <1>4 DEF ReadEvents, Fetch
  <2> QED BY <1>1, <2>1, PrefixFacts
<1>5. CASE StartAppend(t)
  <2>1. /\ log' = log /\ live'[t] = Append(live[t], <<t, appended[t] + 1>>)
        /\ IsPrefix(log, live[t])
    BY <1>5 DEF StartAppend, Push, Alone
  <2>2. <<t, appended[t] + 1>> \in Event
    BY <1>5, SessionStoreAssumption DEF StartAppend, Event
  <2> QED BY <1>1, <2>1, <2>2, PrefixFacts
<1>6. CASE BeginTransaction(t) \/ Insert(t) \/ CommitTransaction(t)
  BY <1>6 DEF BeginTransaction, LockRow, Insert, CommitTransaction, Locked
<1>7. CASE WriteBack(t)
  <2>1. log' = live[t] /\ live' = live
    BY <1>7 DEF WriteBack, Upsert
  <2> QED BY <1>1, <2>1, PrefixFacts
<1> QED BY <1>2, <1>3, <1>4, <1>5, <1>6, <1>7 DEF Turns

\* A step of a turn or of its ingestion moves that turn only.
LEMMA OthersRest ==
  ASSUME Base, NEW t \in Turn, Turns(t) \/ Ingestion(t)
  PROVE  /\ \A u \in Turn : u # t => pc'[u] = pc[u]
         /\ Look(t) \/ (UnderWay(t) /\ overlapped' = overlapped /\ pc'[t] # "create")
         /\ Ingestion(t) => UNCHANGED storeVars /\ pc'[t] \notin {"run", "append"}
         /\ backend' = backend /\ erases' = erases
<1> USE DEF Base, TypeOK, Goto, UnderWay, storeVars, countVars, historyVars
<1>1. CASE Look(t)
  BY <1>1 DEF Look, Ingestion, ReadSession, StartIngestion, StoreRecords, IngestionFails,
              AdvanceMark
<1>2. CASE Ingestion(t)
  BY <1>2 DEF Ingestion, ReadSession, StartIngestion, StoreRecords, IngestionFails, AdvanceMark
<1>3. ASSUME Turns(t), ~Look(t), ~Ingestion(t)
      PROVE  /\ \A u \in Turn : u # t => pc'[u] = pc[u]
             /\ UnderWay(t) /\ overlapped' = overlapped /\ pc'[t] # "create"
             /\ backend' = backend /\ erases' = erases
  <2>1. CASE Create(t)
    BY <2>1 DEF Create, CreateSession
  <2>2. CASE Open(t)
    <3>1. /\ Fetch(t) \/ UNCHANGED storeVars
          /\ Goto(t, "done") \/ Goto(t, "events") \/ Goto(t, "run")
      BY <2>2 DEF Open
    <3> QED BY <2>2, <3>1 DEF Open, Fetch
  <2>3. CASE ReadEvents(t)
    BY <2>3 DEF ReadEvents, Fetch
  <2>4. CASE StartAppend(t)
    BY <2>4 DEF StartAppend, Push
  <2>5. CASE BeginTransaction(t)
    BY <2>5 DEF BeginTransaction, LockRow
  <2>6. CASE Insert(t)
    BY <2>6 DEF Insert, InsertEvent
  <2>7. CASE CommitTransaction(t)
    BY <2>7 DEF CommitTransaction, Commit
  <2>8. CASE WriteBack(t)
    BY <2>8 DEF WriteBack, Upsert
  <2>9. CASE AppendFails(t)
    BY <2>9 DEF AppendFails, Rollback
  <2>10. CASE EndTurn(t)
    BY <2>10 DEF EndTurn
  <2> QED BY <1>3, <2>1, <2>2, <2>3, <2>4, <2>5, <2>6, <2>7, <2>8, <2>9, <2>10 DEF Turns
<1> QED BY <1>1, <1>2, <1>3

LEMMA AloneStep == Base /\ Alone /\ [Next]_vars => Alone'
<1> SUFFICES ASSUME Base, Alone, [Next]_vars PROVE Alone'
  OBVIOUS
<1>1. CASE UNCHANGED vars
  BY <1>1 DEF Alone, UnderWay, vars, storeVars, historyVars
<1>2. CASE EraseScope
  <2>1. /\ log' = <<>> /\ UNCHANGED <<pc, live, overlapped, backend>>
        /\ live \in [Turn -> Seq(Event)]
    BY <1>2 DEF EraseScope, DeleteSession, Base, TypeOK
  <2>2. \A t \in Turn : IsPrefix(<<>>, live[t])
    BY <2>1, PrefixFacts
  <2> QED BY <2>1, <2>2 DEF Alone, UnderWay
<1>3. CASE Restart
  BY <1>3 DEF Restart, Alone, UnderWay, historyVars
<1>4. ASSUME NEW t \in Turn, Turns(t) \/ Ingestion(t) PROVE ~exists' => log' = <<>>
  <2>1. CASE Ingestion(t)
    BY <2>1, OthersRest DEF Alone, storeVars
  <2> USE DEF Alone, storeVars
  <2>2. CASE Look(t) \/ EndTurn(t)
    BY <2>2 DEF Look, EndTurn
  <2>3. CASE Create(t)
    BY <2>3 DEF Create, CreateSession
  <2>4. CASE Open(t)
    <3>1. Fetch(t) \/ UNCHANGED storeVars
      <4>1. backend \in {"postgres", "supabase"} /\ exists \in BOOLEAN
        BY DEF Base, TypeOK
      <4> QED BY <2>4, <4>1 DEF Open
    <3> QED BY <3>1 DEF Fetch
  <2>5. CASE ReadEvents(t)
    BY <2>5 DEF ReadEvents, Fetch
  <2>6. CASE StartAppend(t)
    BY <2>6 DEF StartAppend, Push
  <2>7. CASE BeginTransaction(t)
    BY <2>7 DEF BeginTransaction, LockRow
  <2>8. CASE Insert(t) \/ AppendFails(t)
    BY <2>8 DEF Insert, InsertEvent, AppendFails, Rollback
  <2>9. CASE CommitTransaction(t) \/ WriteBack(t)
    BY <2>9 DEF CommitTransaction, Commit, WriteBack, Upsert
  <2> QED BY <1>4, <2>1, <2>2, <2>3, <2>4, <2>5, <2>6, <2>7, <2>8, <2>9 DEF Turns
<1>5. ASSUME NEW t \in Turn, Turns(t) \/ Ingestion(t), ~overlapped'
      PROVE  /\ \A v, u \in Turn : UnderWay(v)' /\ UnderWay(u)' => v = u
             /\ \A v \in Turn : pc'[v] = "create" => log' = <<>>
             /\ \A v \in Turn : backend' = "supabase" /\ pc'[v] \in {"run", "append"}
                                  => IsPrefix(log', live'[v])
  <2>1. CASE Look(t)
    <3>1. /\ ~overlapped /\ \A u \in Turn : ~UnderWay(u)
          /\ UNCHANGED storeVars
          /\ pc'[t] = IF exists THEN "fetch" ELSE "create"
      BY <1>5, <2>1 DEF Look, Goto, Base, TypeOK
    <3>2. \A u \in Turn : u # t => pc'[u] = pc[u]
      BY <1>5, OthersRest
    <3> QED BY <3>1, <3>2 DEF Alone, UnderWay, storeVars
  <2>2. CASE ~Look(t)
    <3>1. ~overlapped /\ UnderWay(t) /\ pc'[t] # "create"
      BY <1>5, <2>2, OthersRest
    <3>2. \A u \in Turn : u # t => ~UnderWay(u) /\ pc'[u] = pc[u]
      BY <1>5, <3>1, OthersRest DEF Alone
    <3>3. backend' = "supabase" /\ pc'[t] \in {"run", "append"} => IsPrefix(log', live'[t])
      BY <1>5, <3>1, OthersRest, CopyStep
    <3> QED BY <3>1, <3>2, <3>3 DEF UnderWay
  <2> QED BY <2>1, <2>2
<1>6. ASSUME NEW t \in Turn, Turns(t) \/ Ingestion(t) PROVE Alone'
  BY <1>4, <1>5, <1>6 DEF Alone
<1> QED BY <1>1, <1>2, <1>3, <1>6 DEF Next

\* Two turns that append to one conversation both land.
THEOREM AppendsLand == Spec => AppendOnly
<1>1. Init => Alone
  BY DEF Init, StoreInit, Alone, UnderWay
<1>2. Base /\ Alone /\ [Next]_vars
        => [(backend = "postgres" \/ ~overlapped) /\ erases' = erases
              => IsPrefix(log, log')]_vars
  BY AppendStep
<1> QED BY <1>1, <1>2, InitBase, BaseStep, AloneStep, PTL DEF Spec, AppendOnly

(***************************************************************************)
(* Until something is erased, the mark passes no event that was skipped.    *)
(***************************************************************************)
Marked ==
    erases = 0 /\ backend = "postgres" =>
        /\ mark <= Len(log)
        /\ \A i \in 1..mark : log[i] \in distilled
        /\ \A t \in Turn :
             /\ pc[t] \in {"snapshot", "extract", "advance"} =>
                  Len(snap[t]) <= Len(log) /\ \A i \in 1..Len(snap[t]) : snap[t][i] = log[i]
             /\ pc[t] = "extract" =>
                  \A i \in 1..Len(snap[t]) : snap[t][i] \in distilled \cup fresh[t]
             /\ pc[t] = "advance" =>
                  \A i \in 1..Len(snap[t]) : snap[t][i] \in distilled

\* What eventsToIngest leaves out is at or below the mark.
LEMMA FreshAboveMark ==
  ASSUME NEW s \in Seq(Event), mark \in Nat, NEW i \in 1..Len(s), i > mark
  PROVE  s[i] \in EventsToIngest(s)
<1> DEFINE tail == SubSeq(s, mark + 1, Len(s))
<1>1. /\ Len(tail) = Len(s) - mark
      /\ DOMAIN tail = 1..Len(tail)
      /\ i - mark \in 1..Len(tail)
      /\ tail[i - mark] = s[i]
  OBVIOUS
<1> HIDE DEF tail
<1>2. s[i] \in ToSet(tail)
  BY <1>1 DEF ToSet
<1> QED BY <1>2 DEF EventsToIngest, tail

\* A turn's step leaves memory alone, and the stored events where they are.
LEMMA MarkedTurn ==
  ASSUME Base, Marked, NEW t \in Turn, Turns(t), erases' = erases
  PROVE  Marked'
<1> SUFFICES ASSUME erases = 0, backend = "postgres" PROVE Marked'
  BY OthersRest DEF Marked
<1>1. /\ UNCHANGED memoryVars
      /\ pc'[t] \notin {"snapshot", "extract", "advance"}
      /\ \A u \in Turn : u # t => pc'[u] = pc[u]
  <2>1. UNCHANGED memoryVars
    BY DEF Turns, Look, Create, Open, ReadEvents, StartAppend, BeginTransaction, Insert,
           CommitTransaction, WriteBack, AppendFails, EndTurn
  <2>2. pc'[t] \notin {"snapshot", "extract", "advance"}
    BY DEF Turns, Look, Create, Open, ReadEvents, StartAppend, BeginTransaction, Insert,
           CommitTransaction, WriteBack, AppendFails, EndTurn, Goto, Base, TypeOK
  <2> QED BY <2>1, <2>2, OthersRest
<1>2. /\ log \in Seq(Event)
      /\ \/ log' = log
         \/ \E e \in Event : log' = Append(log, e)
  <2>1. log \in Seq(Event) /\ erases \in Nat
    BY DEF Base, TypeOK
  <2>2. ASSUME NEW u \in Turn, CommitTransaction(u)
        PROVE  ThisEvent(u) \in Event /\ log' = Append(log, ThisEvent(u))
    BY <2>2 DEF Base, TypeOK, Locked, Appending, CommitTransaction, Commit, ThisEvent, Event
  <2>3. ASSUME NEW u \in Turn, WriteBack(u) PROVE FALSE
    BY <2>3 DEF WriteBack, Upsert
  <2>4. [Next]_vars
    BY DEF Next
  <2> QED BY <2>1, <2>2, <2>3, <2>4, LogStep
<1>3. /\ Len(log) <= Len(log')
      /\ \A i \in 1..Len(log) : log'[i] = log[i]
      /\ Len(log) \in Nat /\ Len(log') \in Nat
  BY <1>2
<1>4. mark \in Nat /\ \A u \in Turn : snap[u] \in Seq(Event)
  BY DEF Base, TypeOK
<1>5. mark <= Len(log') /\ \A i \in 1..mark : log'[i] \in distilled
  BY <1>3, <1>4 DEF Marked
<1>6. ASSUME NEW u \in Turn, pc[u] \in {"snapshot", "extract", "advance"}
      PROVE  Len(snap[u]) <= Len(log') /\ \A i \in 1..Len(snap[u]) : snap[u][i] = log'[i]
  <2>1. Len(snap[u]) \in Nat /\ Len(snap[u]) <= Len(log)
    BY <1>4, <1>6 DEF Marked
  <2> QED BY <1>3, <1>6, <2>1 DEF Marked
<1> QED BY <1>1, <1>5, <1>6 DEF Marked, memoryVars

LEMMA MarkedIngestion ==
  ASSUME Base, Marked, NEW t \in Turn, Ingestion(t)
  PROVE  Marked'
<1> SUFFICES ASSUME erases = 0, backend = "postgres" PROVE Marked'
  BY OthersRest DEF Marked
<1>1. /\ log' = log /\ log \in Seq(Event) /\ mark \in Nat
      /\ \A u \in Turn : u # t => pc'[u] = pc[u]
      /\ snap[t] \in Seq(Event) /\ snap \in [Turn -> Seq(Event)]
      /\ fresh \in [Turn -> SUBSET Event] /\ pc \in [Turn -> Place]
  BY OthersRest DEF Base, TypeOK, storeVars
<1>2. CASE ReadSession(t)
  BY <1>1, <1>2 DEF ReadSession, Snapshot, Goto, Marked
<1>3. CASE StartIngestion(t)
  <2>1. /\ UNCHANGED <<mark, snap, distilled>> /\ pc[t] = "snapshot"
        /\ fresh'[t] = EventsToIngest(snap[t])
        /\ \A u \in Turn : u # t => fresh'[u] = fresh[u]
        /\ pc'[t] \in {"done", "extract"}
    BY <1>1, <1>3 DEF StartIngestion, Take, Goto
  <2>2. ASSUME NEW i \in 1..Len(snap[t]) PROVE snap[t][i] \in distilled \cup fresh'[t]
    <3>1. CASE i <= mark
      BY <1>1, <2>1, <3>1 DEF Marked
    <3>2. CASE i > mark
      BY <1>1, <2>1, <3>2, FreshAboveMark
    <3> QED BY <1>1, <3>1, <3>2
  <2> QED BY <1>1, <2>1, <2>2 DEF Marked
<1>4. CASE StoreRecords(t)
  <2>1. /\ UNCHANGED <<mark, snap, fresh>> /\ pc[t] = "extract" /\ pc'[t] = "advance"
        /\ distilled' = distilled \cup fresh[t]
    BY <1>1, <1>4 DEF StoreRecords, Store, Goto
  <2> QED BY <1>1, <2>1 DEF Marked
<1>5. CASE IngestionFails(t)
  BY <1>1, <1>5 DEF IngestionFails, Goto, Marked, memoryVars
<1>6. CASE AdvanceMark(t)
  <2>1. /\ UNCHANGED <<snap, fresh, distilled>> /\ pc[t] = "advance" /\ pc'[t] = "done"
        /\ mark' = Len(snap[t])
    BY <1>1, <1>6 DEF AdvanceMark, Advance, Goto
  <2>2. mark' <= Len(log) /\ \A i \in 1..mark' : log[i] \in distilled
    BY <1>1, <2>1 DEF Marked
  <2> QED BY <1>1, <2>1, <2>2 DEF Marked
<1> QED BY <1>2, <1>3, <1>4, <1>5, <1>6 DEF Ingestion

LEMMA MarkedStep == Base /\ Marked /\ [Next]_vars => Marked'
<1> SUFFICES ASSUME Base, Marked, [Next]_vars PROVE Marked'
  OBVIOUS
<1>1. CASE UNCHANGED vars
  BY <1>1 DEF Marked, vars, storeVars, memoryVars, countVars
<1>2. CASE EraseScope
  <2>1. erases' # 0
    BY <1>2 DEF EraseScope, Base, TypeOK
  <2> QED BY <2>1 DEF Marked
<1>3. CASE Restart
  <2>1. /\ UNCHANGED <<log, distilled, erases, backend>> /\ mark' = 0 /\ log \in Seq(Event)
        /\ \A t \in Turn : pc'[t] \in {"new", "done"}
    BY <1>3 DEF Restart, Forget, Base, TypeOK
  <2> QED BY <2>1 DEF Marked
<1>4. ASSUME NEW t \in Turn, Turns(t) PROVE Marked'
  BY <1>4, MarkedTurn, OthersRest
<1>5. ASSUME NEW t \in Turn, Ingestion(t) PROVE Marked'
  BY <1>5, MarkedIngestion
<1> QED BY <1>1, <1>2, <1>3, <1>4, <1>5 DEF Next

\* Ingestions that overlap, finish out of order or fail, and restarts, leave
\* no event below the mark undistilled.
THEOREM MarkSkipsNothing == Spec => []NothingSkippedUnlessErased
<1>1. Init => Marked
  BY DEF Init, StoreInit, MemoryInit, Marked
<1>2. Base /\ Marked => NothingSkippedUnlessErased
  BY DEF Base, TypeOK, Marked, NothingSkippedUnlessErased, NothingSkipped
<1> QED BY <1>1, <1>2, InitBase, BaseStep, MarkedStep, PTL DEF Spec
=============================================================================
