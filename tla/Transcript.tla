----------------------------- MODULE Transcript -----------------------------
(* What a route reads of a session's past, what the router reads of it,    *)
(* and what the stored row keeps. A part of an event is its kind and its   *)
(* size; the date marker a message begins with is a part of its own.       *)
EXTENDS Integers, SequencesExt

MaxPayload == 2    \* DEFAULT_MAX_STORED_PAYLOAD_CHARS, in the model's sizes
MaxLine == 2       \* the digest's maxCharsPerTurn
MarkSize == 1      \* what an elision or a desk's name adds

SizeOf(parts) == FoldLeft(LAMBDA n, p : n + p.size, 0, parts)
OfKinds(e, kinds) == SelectSeq(e.parts, LAMBDA p : p.kind \in kinds)

spokenText(e) == SizeOf(OfKinds(e, {"marker", "text"}))
elide(size, limit) == IF size <= limit THEN size ELSE limit + MarkSize

Text(size) == [kind |-> "text", size |-> size, signed |-> FALSE, id |-> 0]
(* A past event as `me` reads it: the user's untouched, an agent's as one  *)
(* text of `me`, under the name of the desk it was.                        *)
Shown(e, me, limit) ==
  IF e.author = "user" THEN e
  ELSE [e EXCEPT !.author = me, !.desk = IF e.author = me THEN "none" ELSE e.author,
                 !.parts = <<Text(elide(spokenText(e), limit))>>]
Cost(shown) == spokenText(shown) + IF shown.desk = "none" THEN 0 ELSE MarkSize

(* Backwards from the newest, until a ceiling binds.                       *)
projectTranscript(events, me, o) ==
  LET keep(e, seen) ==
        LET shown == Shown(e, me, o.maxTurnChars) IN
        IF spokenText(e) = 0 \/ seen.left <= 0 \/ Len(seen.kept) >= o.maxHistoryTurns THEN seen
        ELSE [kept |-> <<shown>> \o seen.kept, left |-> seen.left - Cost(shown)]
  IN  FoldRight(keep, events, [kept |-> <<>>, left |-> o.maxHistoryChars]).kept

(* Plausible bug: the turn that does not fit is passed over for an older   *)
(* one that does.                                                          *)
projectPacked(events, me, o) ==
  LET keep(e, seen) ==
        LET shown == Shown(e, me, o.maxTurnChars) IN
        IF \/ spokenText(e) = 0 \/ seen.left < Cost(shown)
           \/ Len(seen.kept) >= o.maxHistoryTurns THEN seen
        ELSE [kept |-> <<shown>> \o seen.kept, left |-> seen.left - Cost(shown)]
  IN  FoldRight(keep, events, [kept |-> <<>>, left |-> o.maxHistoryChars]).kept

(* The row's copy of an event: no signatures, and a long result replaced   *)
(* by a note that keeps its id.                                            *)
trimPart(p) ==
  [p EXCEPT !.signed = FALSE, !.size = IF p.kind = "reply" /\ @ > MaxPayload THEN MarkSize ELSE @]
trimEventForStorage(e) == [e EXCEPT !.parts = [i \in DOMAIN @ |-> trimPart(@[i])]]
Trimmed(events) == [i \in DOMAIN events |-> trimEventForStorage(events[i])]

(* Plausible bug: a long result is dropped, its call stays.                *)
trimDropping(e) ==
  [e EXCEPT !.parts = SelectSeq(@, LAMBDA p : ~(p.kind = "reply" /\ p.size > MaxPayload))]

(* The router's digest: the newest turns with words beside the marker.     *)
Clean(e) == SizeOf(OfKinds(e, {"text"}))
renderTranscriptDigest(events, maxTurns) ==
  LET spoken == SelectSeq(events, LAMBDA e : Clean(e) > 0)
      newest == SubSeq(spoken, IF Len(spoken) > maxTurns THEN Len(spoken) - maxTurns + 1 ELSE 1, Len(spoken))
  IN  [i \in DOMAIN newest |->
         [at |-> newest[i].at, who |-> newest[i].author, size |-> elide(Clean(newest[i]), MaxLine)]]

(* ProjectedSessionService: the runner's view and the session underneath,  *)
(* which the wrapped service writes back to the row.                       *)
getSession(past, me, o) ==
  [view |-> projectTranscript(past, me, o), real |-> past, row |-> Trimmed(past)]
appendEvent(s, e) ==
  IF e.partial THEN s
  ELSE [view |-> Append(s.view, e), real |-> Append(s.real, e), row |-> Trimmed(Append(s.real, e))]

(* Plausible bug: the wrapped service is handed the runner's view.         *)
appendToView(s, e) ==
  IF e.partial THEN s
  ELSE [view |-> Append(s.view, e), real |-> Append(s.view, e), row |-> Trimmed(Append(s.view, e))]

(* A past is up to three exchanges of the user and two desks: said at      *)
(* once, thought first, with a tool, or broken off after the call.         *)
Event(author, parts) == [author |-> author, at |-> 0, desk |-> "none", partial |-> FALSE, parts |-> parts]
Marker == [kind |-> "marker", size |-> 1, signed |-> FALSE, id |-> 0]
Call(id) == [kind |-> "call", size |-> 1, signed |-> TRUE, id |-> id]
Reply(id, size) == [kind |-> "reply", size |-> size, signed |-> FALSE, id |-> id]
Thought == [kind |-> "thought", size |-> 3, signed |-> TRUE, id |-> 0]
Exchanges ==
  {<<Event("user", <<Marker>>)>>, <<Event("user", <<Marker, Text(1)>>)>>, <<Event("user", <<Marker, Text(4)>>)>>}
    \cup UNION {{<<Event(a, <<Text(1)>>)>>, <<Event(a, <<Thought, Text(4)>>)>>, <<Event(a, <<Call(1)>>)>>,
                 <<Event(a, <<Call(1)>>), Event(a, <<Reply(1, 2)>>), Event(a, <<Text(1)>>)>>,
                 <<Event(a, <<Call(1), Call(2)>>), Event(a, <<Reply(1, 9), Reply(2, 1)>>)>>} : a \in {"a", "b"}}
Numbered(events) == [i \in DOMAIN events |-> [events[i] EXCEPT !.at = i]]
Pasts == {Numbered(FlattenSeq(x)) : x \in SeqOf(Exchanges, 3)}
News == <<[Event("a", <<Text(1)>>) EXCEPT !.partial = TRUE], Event("a", <<Call(1)>>),
          Event("a", <<Reply(1, 9)>>), Event("a", <<Text(4)>>)>>
TranscriptAsks ==
  [past : Pasts,
   o : {[maxHistoryChars |-> 3, maxHistoryTurns |-> 9, maxTurnChars |-> 2],
        [maxHistoryChars |-> 20, maxHistoryTurns |-> 2, maxTurnChars |-> 2]}]

Places(events) == [i \in DOMAIN events |-> events[i].at]
Ids(events, kind) ==
  FlattenSeq([i \in DOMAIN events |-> [j \in DOMAIN OfKinds(events[i], {kind}) |-> OfKinds(events[i], {kind})[j].id]])
Whole(view) == FoldLeft(LAMBDA n, e : n + Cost(e), 0, view)

\* A route reads the newest turns in which something was said, none left out in
\* between, and stops only where a ceiling binds; a desk's turn is the reader's
\* own in role and another's by name, without its thoughts and its tools; the
\* words of the user arrive untouched.
NewestTurnsRead(past, me, o) ==
  LET view == projectTranscript(past, me, o)
      spoken == SelectSeq(past, LAMBDA e : spokenText(e) > 0)
  IN  /\ IsSuffix(Places(view), Places(spoken))
      /\ Len(view) <= o.maxHistoryTurns
      /\ Len(view) < Len(spoken) => Len(view) = o.maxHistoryTurns \/ Whole(view) >= o.maxHistoryChars
      /\ view # <<>> => Whole(Tail(view)) < o.maxHistoryChars
      /\ \A i \in DOMAIN view :
           LET e == past[view[i].at] IN
           IF e.author = "user" THEN view[i] = e
           ELSE /\ view[i].author = me
                /\ view[i].desk = (IF e.author = me THEN "none" ELSE e.author)
                /\ \A j \in DOMAIN view[i].parts : view[i].parts[j].kind = "text"

\* The row is as good as the session: a route and the router read the same from
\* it, every call keeps its result, and storing it again changes nothing.
RowIsEnough(past, me, o) ==
  LET row == Trimmed(past) IN
  /\ projectTranscript(row, me, o) = projectTranscript(past, me, o)
  /\ renderTranscriptDigest(row, o.maxHistoryTurns) = renderTranscriptDigest(past, o.maxHistoryTurns)
  /\ \A kind \in {"call", "reply"} : Ids(row, kind) = Ids(past, kind)
  /\ Trimmed(row) = row

\* A turn appends its whole events to both sessions: its own are not projected in
\* the runner's view, and nothing of the projection reaches the record.
TurnAppendsToBoth(past, me, o) ==
  LET own == SelectSeq(News, LAMBDA e : ~e.partial)
      after == FoldLeft(appendEvent, getSession(past, me, o), News)
  IN  /\ after.real = past \o own
      /\ after.row = Trimmed(past \o own)
      /\ after.view = projectTranscript(past, me, o) \o own

\* The router is shown the turn the route answers after: the newest line of its
\* digest is the newest turn of the view, unless that one is a bare date marker.
RouterSeesTheSame(past, me, o) ==
  LET view == projectTranscript(past, me, o)
      digest == renderTranscriptDigest(past, o.maxHistoryTurns)
  IN  view # <<>> /\ Clean(Last(view)) > 0
        => digest # <<>> /\ Last(digest).at = Last(view).at /\ Last(digest).who = past[Last(view).at].author

PastIsReadTrue(q) ==
  /\ NewestTurnsRead(q.past, "a", q.o)
  /\ RowIsEnough(q.past, "a", q.o)
  /\ TurnAppendsToBoth(q.past, "a", q.o)
  /\ RouterSeesTheSame(q.past, "a", q.o)
=============================================================================
