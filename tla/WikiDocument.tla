---------------------------- MODULE WikiDocument ----------------------------
(* A wiki document and its rebuild. A document is its frontmatter and its  *)
(* lines; fill slots are the editor's, generated blocks are the build's,   *)
(* everything else is prose. A build replaces what is its own and appends  *)
(* what is missing.                                                        *)
EXTENDS Integers, Sequences, FiniteSets, SequencesExt

(* A line: what the parser tells apart, and what it names.                 *)
Line(kind, name) == [kind |-> kind, name |-> name]
Prose(name) == Line("text", name)
FENCE == Line("fence", "")
Open(marker, id) == Line(IF marker = "fill" THEN "openFill" ELSE "openGenerated", id)
Close(marker) == Line(IF marker = "fill" THEN "closeFill" ELSE "closeGenerated", "")
TODO_SENTINEL == Prose("TODO")

NoMarker == [marker |-> "none", id |-> "", line |-> 0]
OpenedBy(line, i) ==
  [marker |-> IF line.kind = "openFill" THEN "fill" ELSE "generated", id |-> line.name, line |-> i]
Closes(line, marker) == line.kind = (IF marker = "fill" THEN "closeFill" ELSE "closeGenerated")

(* One line of the parse: inside a fence nothing is a marker; an opening   *)
(* marker before the close of another abandons the other.                  *)
ParseLine(p, line, i) ==
  CASE line.kind = "fence" -> [p EXCEPT !.fenced = ~@]
    [] line.kind # "fence" /\ p.fenced -> p
    [] line.kind \in {"openFill", "openGenerated"} /\ ~p.fenced ->
         [p EXCEPT !.open = OpenedBy(line, i),
                   !.unclosed = IF p.open = NoMarker THEN @ ELSE Append(@, p.open)]
    [] p.open # NoMarker /\ Closes(line, p.open.marker) /\ ~p.fenced ->
         LET block == [id |-> p.open.id, startLine |-> p.open.line, endLine |-> i] IN
         IF p.open.marker = "fill"
         THEN [p EXCEPT !.open = NoMarker, !.slots = Append(@, block)]
         ELSE [p EXCEPT !.open = NoMarker, !.generated = Append(@, block)]
    [] OTHER -> p

parseDoc(lines) ==
  LET parsed[i \in 0 .. Len(lines)] ==
        IF i = 0 THEN [fenced |-> FALSE, open |-> NoMarker, slots |-> <<>>, generated |-> <<>>, unclosed |-> <<>>]
        ELSE ParseLine(parsed[i - 1], lines[i], i)
      end == parsed[Len(lines)]
  IN  [end EXCEPT !.unclosed = IF end.open = NoMarker THEN @ ELSE Append(@, end.open)]

Interior(lines, block) == SubSeq(lines, block.startLine + 1, block.endLine - 1)
slotIsUnfilled(lines, slot) ==
  Interior(lines, slot) = <<>> \/ Interior(lines, slot)[1] = TODO_SENTINEL

(* The first block of this id, as a set of at most one.                    *)
Named(blocks, id) ==
  LET same == {i \in DOMAIN blocks : blocks[i].id = id}
  IN  IF same = {} THEN {} ELSE {blocks[CHOOSE i \in same : \A j \in same : i <= j]}

fillSlot(id) == <<Open("fill", id), TODO_SENTINEL, Close("fill")>>
generatedBlock(id, content) == <<Open("generated", id)>> \o content \o <<Close("generated")>>

(* Plausible bug: the old close marker goes with the old content.          *)
WithInteriorUnclosed(lines, block, content) ==
  SubSeq(lines, 1, block.startLine) \o content \o SubSeq(lines, block.endLine + 1, Len(lines))
WithInterior(lines, block, content) ==
  SubSeq(lines, 1, block.startLine) \o content \o SubSeq(lines, block.endLine, Len(lines))

setSlotContent(lines, id, content) ==
  {WithInterior(lines, slot, content) : slot \in Named(parseDoc(lines).slots, id)}
setGeneratedContent(lines, id, content) ==
  {WithInterior(lines, block, content) : block \in Named(parseDoc(lines).generated, id)}
The(set) == CHOOSE x \in set : TRUE

RenderPart(part) ==
  CASE part.kind = "prose" -> part.content
    [] part.kind = "generated" -> generatedBlock(part.id, part.content)
    [] part.kind = "fill" -> fillSlot(part.id)

(* Frontmatter: a function of keys; by and when it was generated is one.   *)
Stamped(fm, date) == [key \in DOMAIN fm \cup {"generated"} |-> IF key = "generated" THEN date ELSE fm[key]]
Merged(fm, new) == [key \in DOMAIN fm \cup DOMAIN new |-> IF key \in DOMAIN new THEN new[key] ELSE fm[key]]
comparable(doc) == [doc EXCEPT !.fm = [key \in DOMAIN doc.fm \ {"generated"} |-> doc.fm[key]]]

renderDoc(spec, date) ==
  [fm |-> Stamped(spec.fm, date), lines |-> FlattenSeq([i \in DOMAIN spec.body |-> RenderPart(spec.body[i])])]

(* A generated part: in its place, after the part generated before it, or  *)
(* at the end.                                                             *)
PutGenerated(lines, part, before) ==
  LET next == setGeneratedContent(lines, part.id, part.content)
      anchor == Named(parseDoc(lines).generated, before)
      block == generatedBlock(part.id, part.content)
  IN  CASE next # {} -> The(next)
        [] next = {} /\ anchor # {} ->
             LET at == The(anchor).endLine IN SubSeq(lines, 1, at) \o block \o SubSeq(lines, at + 1, Len(lines))
        [] OTHER -> lines \o block

PutPart(state, part) ==
  CASE part.kind = "generated" -> [lines |-> PutGenerated(state.lines, part, state.before), before |-> part.id]
    [] part.kind = "fill" /\ Named(parseDoc(state.lines).slots, part.id) = {} ->
         [state EXCEPT !.lines = @ \o fillSlot(part.id)]
    [] OTHER -> state

(* What the editor wrote goes back into a slot that came out unfilled.     *)
Restore(lines, old, slot) ==
  LET now == Named(parseDoc(lines).slots, slot.id) IN
  IF now # {} /\ slotIsUnfilled(lines, The(now))
  THEN The(setSlotContent(lines, slot.id, Interior(old, slot))) ELSE lines

refreshDoc(doc, spec, date) ==
  LET harvested == SelectSeq(parseDoc(doc.lines).slots, LAMBDA s : ~slotIsUnfilled(doc.lines, s))
      put[i \in 0 .. Len(spec.body)] ==
        IF i = 0 THEN [lines |-> doc.lines, before |-> "none"] ELSE PutPart(put[i - 1], spec.body[i])
      restored[i \in 0 .. Len(harvested)] ==
        IF i = 0 THEN put[Len(spec.body)].lines ELSE Restore(restored[i - 1], doc.lines, harvested[i])
      new == [fm |-> Merged(doc.fm, spec.fm), lines |-> restored[Len(harvested)]]
      changed == comparable(new) # comparable(doc)
  IN  [doc |-> IF changed THEN [new EXCEPT !.fm = Stamped(@, date)] ELSE new, changed |-> changed]

(* No document yet, or one: written, or left alone when nothing changed.   *)
upsertDoc(docs, spec, date) ==
  IF docs = {} THEN [docs |-> {renderDoc(spec, date)}, action |-> "created"]
  ELSE LET new == refreshDoc(The(docs), spec, date)
       IN  IF new.changed THEN [docs |-> {new.doc}, action |-> "updated"]
           ELSE [docs |-> docs, action |-> "unchanged"]

UniquePartIds(spec) ==
  LET named == {i \in DOMAIN spec.body : spec.body[i].kind # "prose"}
  IN  \A i, j \in named : spec.body[i].id = spec.body[j].id => i = j

(* The newest entry goes above the first one there is.                     *)
insertLogEntry(lines, entry) ==
  LET entries == {i \in DOMAIN lines : lines[i].kind = "entry"}
      at == IF entries = {} THEN Len(lines) + 1 ELSE CHOOSE i \in entries : \A j \in entries : i <= j
  IN  SubSeq(lines, 1, at - 1) \o <<entry>> \o SubSeq(lines, at, Len(lines))

(* The documents a build may find: up to three pieces, some of the build's *)
(* own, some written by hand, one of them quoting a marker inside a fence. *)
Pieces == {<<Prose("a")>>, <<Open("fill", "s"), Prose("w"), Close("fill")>>, fillSlot("s"),
           <<Open("fill", "s"), Close("fill")>>, <<Open("fill", "t"), Prose("v"), Close("fill")>>,
           generatedBlock("g", <<Prose("old")>>), generatedBlock("z", <<Prose("old")>>),
           <<FENCE, Open("generated", "g"), FENCE>>, <<Open("fill", "s")>>, <<Close("generated")>>, <<FENCE>>}
Bodies == {<<[kind |-> "prose", content |-> <<Prose("p")>>], [kind |-> "generated", id |-> "g", content |-> <<Prose("c")>>],
             [kind |-> "fill", id |-> "s"]>>,
           <<[kind |-> "fill", id |-> "s"], [kind |-> "generated", id |-> "g", content |-> <<Prose("c")>>],
             [kind |-> "generated", id |-> "h", content |-> <<FENCE, Open("fill", "s"), FENCE>>]>>}
RebuildAsks == [pieces : UNION {[1 .. n -> Pieces] : n \in 0 .. 3}, body : {b \in Bodies : UniquePartIds([body |-> b])}]

OwnLines(lines) ==
  LET p == parseDoc(lines)
      inside(i, b) == b.startLine < i /\ i < b.endLine
  IN  {i \in DOMAIN lines :
         /\ \A k \in DOMAIN p.generated : ~inside(i, p.generated[k])
         /\ \A k \in DOMAIN p.slots : inside(i, p.slots[k]) => ~slotIsUnfilled(lines, p.slots[k])}

(* Whether the old document's prose, markers and filled slots are all      *)
(* still there, in their order.                                            *)
KeptIn(old, new) ==
  LET own == OwnLines(old)
      kept == SelectSeq([i \in DOMAIN old |-> IF i \in own THEN old[i] ELSE Line("gone", "")], LAMBDA l : l.kind # "gone")
      reached[i \in 0 .. Len(new)] ==
        IF i = 0 THEN 0
        ELSE LET r == reached[i - 1] IN IF r < Len(kept) /\ new[i] = kept[r + 1] THEN r + 1 ELSE r
  IN  reached[Len(new)] = Len(kept)

(* A rebuild keeps what is not the build's, whatever state it finds the    *)
(* document in. Where its fences close, it also leaves every part of the   *)
(* specification in place with today's content, and a second rebuild on a  *)
(* later day changes nothing.                                              *)
RebuildKeepsProse(ask) ==
  LET doc == [fm |-> [type |-> "old", status |-> "draft", generated |-> 0], lines |-> FlattenSeq(ask.pieces)]
      spec == [fm |-> [type |-> "new"], body |-> ask.body]
      first == refreshDoc(doc, spec, 1).doc
      second == refreshDoc(first, spec, 2)
  IN  /\ KeptIn(doc.lines, first.lines) /\ first.fm.status = "draft"
      /\ ~parseDoc(doc.lines).fenced =>
            /\ ~second.changed
            /\ \A i \in DOMAIN ask.body :
                 LET part == ask.body[i] IN
                 CASE part.kind = "generated" ->
                        \E b \in Named(parseDoc(first.lines).generated, part.id) : Interior(first.lines, b) = part.content
                   [] part.kind = "fill" -> Named(parseDoc(first.lines).slots, part.id) # {}
                   [] OTHER -> TRUE
=============================================================================
