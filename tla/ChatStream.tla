----------------------------- MODULE ChatStream -----------------------------
(* The chat adapter's two stream assemblers: the splitter that tells think *)
(* blocks from the answer although a tag may straddle chunks, and the      *)
(* collector of tool-call fragments. Text is a sequence of characters,     *)
(* the tags shortened to two and three of them.                            *)
EXTENDS Naturals, Sequences, FiniteSets, SequencesExt

OPEN_THINK == <<"<", "t">>
CLOSE_THINK == <<"<", "/", "t">>
Characters == {"<", "/", "t", "x"}

Drop(s, n) == SubSeq(s, n + 1, Len(s))
Matches(s, tag, i) == i + Len(tag) - 1 <= Len(s) /\ SubSeq(s, i, i + Len(tag) - 1) = tag

(* Where the tag first starts in s, 0 when it does not. *)
indexOf(s, tag) ==
  LET at == {i \in 1 .. Len(s) : Matches(s, tag, i)}
  IN  IF at = {} THEN 0 ELSE CHOOSE i \in at : \A j \in at : i <= j

(* Plausible bug: only the tag's first character is held back. *)
partialTagOne(s, tag) == IF s # <<>> /\ Last(s) = tag[1] THEN 1 ELSE 0

(* Length of the longest proper prefix of tag that s ends in. *)
partialTagSuffix(s, tag) ==
  LET ends == {n \in 0 .. Len(tag) - 1 : n <= Len(s) /\ SubSeq(tag, 1, n) = Drop(s, Len(s) - n)}
  IN  CHOOSE n \in ends : \A k \in ends : k <= n

Splitter == [inThink |-> FALSE, held |-> <<>>, reasoning |-> <<>>, answer |-> <<>>]
Tag(s) == IF s.inThink THEN CLOSE_THINK ELSE OPEN_THINK
Emit(s, text) == IF s.inThink THEN [s EXCEPT !.reasoning = @ \o text]
                 ELSE [s EXCEPT !.answer = @ \o text]

RECURSIVE Consume(_, _)
(* push's loop: every whole tag in buf switches sides. *)
Consume(s, buf) ==
  LET at == indexOf(buf, Tag(s)) IN
  IF at = 0
  THEN LET keep == partialTagSuffix(buf, Tag(s))
           cut == Len(buf) - keep
       IN  [Emit(s, SubSeq(buf, 1, cut)) EXCEPT !.held = Drop(buf, cut)]
  ELSE Consume([Emit(s, SubSeq(buf, 1, at - 1)) EXCEPT !.inThink = ~@],
               Drop(buf, at + Len(Tag(s)) - 1))

Push(s, chunk) == Consume([s EXCEPT !.held = <<>>], s.held \o chunk)
FlushSplitter(s) == [Emit(s, s.held) EXCEPT !.held = <<>>]
StreamSplit(chunks) == FlushSplitter(FoldLeft(Push, Splitter, chunks))

RECURSIVE splitThinkBlocks(_)
(* The whole text at once: every closed block out of the answer; an open   *)
(* one that never closes stays in it.                                      *)
splitThinkBlocks(text) ==
  LET open == indexOf(text, OPEN_THINK)
      rest == Drop(text, open + Len(OPEN_THINK) - 1)
      close == indexOf(rest, CLOSE_THINK)
  IN  IF open = 0 \/ close = 0
      THEN [reasoning |-> <<>>, answer |-> text]
      ELSE LET after == splitThinkBlocks(Drop(rest, close + Len(CLOSE_THINK) - 1))
           IN  [reasoning |-> SubSeq(rest, 1, close - 1) \o after.reasoning,
                answer |-> SubSeq(text, 1, open - 1) \o after.answer]

(* Tool-call fragments: index, id ("" when absent), args; the name travels *)
(* as the id does. The calls in order of their index.                      *)
Collect(acc, d) ==
  LET old == IF d.index \in DOMAIN acc THEN acc[d.index] ELSE [id |-> "", args |-> <<>>]
      new == [id |-> IF d.id # "" THEN d.id ELSE old.id, args |-> old.args \o d.args]
  IN  [i \in DOMAIN acc \cup {d.index} |-> IF i = d.index THEN new ELSE acc[i]]
ToolCalls(deltas) ==
  LET acc == FoldLeft(Collect, [i \in {} |-> 0], deltas)
      order == SetToSortSeq(DOMAIN acc, <)
  IN  [k \in 1 .. Len(order) |-> acc[order[k]]]

MaxText == 5    \* bound: characters of one streamed text
MaxDeltas == 4  \* bound: tool-call fragments of one stream
Texts == SeqOf(Characters, MaxText)
Deltas == SeqOf({[index |-> i, id |-> id, args |-> <<i>>] : i \in 0 .. 1, id \in {"", "a"}}, MaxDeltas)
StreamAsks == {[text |-> t, deltas |-> <<>>] : t \in Texts}
                \cup {[text |-> <<>>, deltas |-> d] : d \in Deltas}

(* Every way of cutting text into two, or into single characters. *)
Chunkings(text) ==
  {[i \in 1 .. Len(text) |-> <<text[i]>>]}
    \cup {<<SubSeq(text, 1, n), Drop(text, n)>> : n \in 0 .. Len(text)}

(* However the provider cuts its stream: the same split; when every think  *)
(* block is closed, the split of the whole text; never a character lost;   *)
(* and each tool call has its fragments' arguments in their order.         *)
StreamSaysTheSame(ask) ==
  LET whole == StreamSplit(<<ask.text>>)
      calls == ToolCalls(ask.deltas)
  IN  /\ \A chunks \in Chunkings(ask.text) : StreamSplit(chunks) = whole
      /\ ~whole.inThink =>
           [reasoning |-> whole.reasoning, answer |-> whole.answer] = splitThinkBlocks(ask.text)
      /\ \A k \in 1 .. Len(calls) :
           LET mine == SelectSeq(ask.deltas, LAMBDA d : d.args = <<calls[k].args[1]>>)
           IN  calls[k].args = FlattenSeq([i \in 1 .. Len(mine) |-> mine[i].args])
=============================================================================
