------------------------------- MODULE XSearch -------------------------------
(* The x_api_search tool: the query that is sent, the page that comes back, *)
(* the photos that are read from it, and what the agent is told. A word of  *)
(* a query is its operator, the quotes and parentheses before it, those     *)
(* that close after it, and its length; a token is its words, where a       *)
(* character the grammar has no use for (a comma) parts them.               *)
EXTENDS Integers, FiniteSets, SequencesExt

QUERY_LIMIT == 12  \* in the model's lengths
SuffixSize == 4    \* " -is:retweet"

SumOf(words, Of(_)) == FoldLeft(LAMBDA n, w : n + Of(w), 0, words)
Quotes(words) == SumOf(words, LAMBDA w : w.quotes)
Opens(words) == SumOf(words, LAMBDA w : w.opens)
Closes(words) == SumOf(words, LAMBDA w : w.closes)
Length(words) == SumOf(words, LAMBDA w : w.size) + (IF words = <<>> THEN 0 ELSE Len(words) - 1)
Bare(words) == SelectSeq(words, LAMBDA w : w.size > 0)

LastQuoteDropped(words) ==
  IF Quotes(words) % 2 = 0 THEN words
  ELSE LET at == CHOOSE i \in DOMAIN words : words[i].quotes > 0 /\ \A j \in i + 1 .. Len(words) : words[j].quotes = 0
       IN  [words EXCEPT ![at].quotes = @ - 1, ![at].size = @ - 1]
ParensDropped(words) ==
  IF Opens(words) = Closes(words) THEN words
  ELSE [i \in DOMAIN words |->
         [words[i] EXCEPT !.size = @ - words[i].opens - words[i].closes, !.opens = 0, !.closes = 0]]

(* The word the limit falls into goes; a first word that long is cut.      *)
CutAt(words, limit) ==
  LET whole == {i \in 0 .. Len(words) : Length(SubSeq(words, 1, i)) < limit}
      most == CHOOSE i \in whole : \A j \in whole : j <= i
  IN  IF Length(words) <= limit THEN words
      ELSE IF most = 0 THEN <<[words[1] EXCEPT !.size = limit]>>
      ELSE SubSeq(words, 1, most)

(* An operator is one where a token starts with it, and an exclusion is    *)
(* one that stands alone: neither is seen behind a mark or inside a token. *)
Unmarked(w) == w.quotes + w.opens = 0
Alone(w) == Unmarked(w) /\ w.closes = 0
Kept(token) == ~(Head(token).op = "other" /\ Unmarked(Head(token)))
Balanced(raw) == Bare(ParensDropped(LastQuoteDropped(FlattenSeq(SelectSeq(raw, Kept)))))
SaysRetweet(words) == \E i \in DOMAIN words : words[i].op = "retweet" /\ Alone(words[i])

(* Plausible bug: the query fills the limit, the suffix comes after it.    *)
sanitizeTooLong(raw) == [words |-> CutAt(Balanced(raw), QUERY_LIMIT), excludes |-> ~SaysRetweet(Balanced(raw))]
(* Balanced first, asked about retweets next, cut last.                    *)
sanitizeQuery(raw) ==
  LET words == Balanced(raw)
      excludes == words # <<>> /\ ~SaysRetweet(words)
  IN  [words |-> CutAt(words, QUERY_LIMIT - (IF excludes THEN SuffixSize ELSE 0)), excludes |-> excludes]

(* Posts with what was included of their media, in order.                  *)
parseSearchJson(page) ==
  [i \in DOMAIN page.posts |-> SelectSeq(page.posts[i], LAMBDA k : k \in DOMAIN page.media)]

(* The photos of a page that have a URL, in post order, up to the cap.     *)
pickImages(page, max) ==
  LET photos == SelectSeq(FlattenSeq(parseSearchJson(page)),
                          LAMBDA k : page.media[k].type = "photo" /\ page.media[k].host # "no url")
  IN  SubSeq(photos, 1, IF Len(photos) < max THEN Len(photos) ELSE max)

IMAGE_HOSTS == {"media host"}
Faults == <<"network", "http", "not an image", "declared too big", "unreadable", "too big", "vision">>
(* Plausible bug: any host the page names is fetched from.                 *)
readAnywhere(m) == IF m.faults = {} THEN "text" ELSE "http"
(* What becomes of one photo: the first fault in the order of the checks.  *)
readImage(m) ==
  LET met == {i \in DOMAIN Faults : Faults[i] \in m.faults} IN
  IF m.host \in {"no url", "unparseable"} THEN m.host
  ELSE IF m.host \notin IMAGE_HOSTS THEN "host"
  ELSE IF met = {} THEN "text" ELSE Faults[CHOOSE i \in met : \A j \in met : i <= j]
Paid(m) == readImage(m) \in {"text", "vision"}

Picked(ask) == IF ask.readImages THEN pickImages(ask.page, ask.max) ELSE <<>>
readImages(ask) == [k \in ToSet(Picked(ask)) |-> readImage(ask.page.media[k])]

(* The line a medium has beneath its post.                                 *)
postLines(ask, k) ==
  LET readings == readImages(ask) IN
  CASE ask.page.media[k].type # "photo" -> "still"
    [] ask.page.media[k].type = "photo" /\ k \notin DOMAIN readings -> "cap reached"
    [] OTHER -> readings[k]
ImagesRead(ask) == Cardinality({k \in DOMAIN readImages(ask) : readImages(ask)[k] = "text"})

(* The request: a 429 whose window rolls soon is waited for, once.         *)
RECURSIVE AnswerOf(_, _)
AnswerOf(answers, attempt) ==
  IF Head(answers) = "429 soon" /\ attempt = 0 THEN AnswerOf(Tail(answers), 1)
  ELSE [requests |-> attempt + 1, last |-> Head(answers)]

Block(ask) ==
  IF ask.page.posts = <<>> THEN "no posts" ELSE "page"
lookupPost(ask) ==
  IF Head(ask.answers) # "ok" THEN [says |-> "failed", requests |-> 1]
  ELSE [says |-> Block(ask), requests |-> 1]
runXApiSearch(ask) ==
  LET answer == AnswerOf(ask.answers, 0) IN
  CASE ~ask.token -> [says |-> "unavailable", requests |-> 0]
    [] ask.token /\ ask.post = "not a link" -> [says |-> "not a link", requests |-> 0]
    [] ask.token /\ ask.post = "link" -> lookupPost(ask)
    [] ask.token /\ ask.post = "none" /\ sanitizeQuery(ask.query).words = <<>> -> [says |-> "failed", requests |-> 0]
    [] OTHER -> [says |-> IF answer.last = "ok" THEN Block(ask) ELSE "failed", requests |-> answer.requests]

Word(op, size) == [op |-> op, size |-> size, quotes |-> 0, opens |-> 0, closes |-> 0]
Words == {Word("none", 2), Word("none", 15), Word("allowed", 4), Word("other", 3), Word("retweet", 4),
          [Word("none", 3) EXCEPT !.quotes = 1], [Word("none", 1) EXCEPT !.quotes = 1],
          [Word("none", 3) EXCEPT !.opens = 1], [Word("none", 3) EXCEPT !.closes = 1],
          [Word("other", 4) EXCEPT !.opens = 1], [Word("retweet", 5) EXCEPT !.opens = 1]}
Tokens == {<<w>> : w \in Words} \cup {<<Word("none", 2), Word("other", 3)>>, <<Word("other", 3), Word("retweet", 4)>>}
Photo(host, faults) == [type |-> "photo", host |-> host, faults |-> faults]
Media == {Photo("media host", f) : f \in {{}, {"http"}, {"declared too big", "too big"}, {"vision"}}}
           \cup {Photo(host, {}) : host \in {"elsewhere", "no url", "unparseable"}}
           \cup {[type |-> "video", host |-> "no url", faults |-> {}]}
Pages ==
  [posts : {<<>>, <<<<>>>>, <<<<1>>>>, <<<<1, 2>>>>, <<<<2>>, <<1>>>>, <<<<1, 2>>, <<1>>>>},
   media : UNION {[ks -> Media] : ks \in SUBSET {1, 2}}]
APage == [posts |-> <<<<1>>>>, media |-> [k \in {1} |-> Photo("media host", {})]]
AnAsk == [token |-> TRUE, post |-> "none", query |-> <<<<Word("none", 2)>>>>, answers |-> <<"ok">>,
          page |-> APage, max |-> 1, readImages |-> TRUE]
Answers == {"ok", "429 soon", "429 late", "http", "network", "not json"}
XAsks ==
  {[AnAsk EXCEPT !.query = q] : q \in SeqOf(Tokens, 3)}
    \cup {[AnAsk EXCEPT !.page = p, !.max = n, !.readImages = r] : p \in Pages, n \in 0 .. 2, r \in BOOLEAN}
    \cup {[AnAsk EXCEPT !.token = t, !.post = p, !.answers = <<a, b>>, !.page.posts = posts] :
            t \in BOOLEAN, p \in {"none", "link", "not a link"}, a \in Answers, b \in Answers, posts \in {<<>>, <<<<1>>>>}}

\* A query keeps to X's limit with its suffix, has its retweets excluded if it
\* never spoke of them and not if a token of it is that operator alone, and is
\* balanced if it was not cut (the cut comes after the balancing). An operator X
\* would refuse is left in it only where it stood behind a mark or a comma, which
\* the filter does not look behind.
QueryIsAccepted(raw) ==
  LET q == sanitizeQuery(raw)
      Spoken(op) == \E i \in DOMAIN raw : \E j \in DOMAIN raw[i] : raw[i][j].op = op
      Hidden(i) == \E j \in DOMAIN raw[i] : raw[i][j].op = "other" /\ (j > 1 \/ ~Unmarked(raw[i][j]))
  IN
  /\ Length(q.words) + (IF q.excludes THEN SuffixSize ELSE 0) <= QUERY_LIMIT
  /\ (\E i \in DOMAIN q.words : q.words[i].op = "other") => \E i \in DOMAIN raw : Hidden(i)
  /\ q.words # <<>> => q.excludes \/ Spoken("retweet")
  /\ q.excludes => ~ \E i \in DOMAIN raw : Len(raw[i]) = 1 /\ SaysRetweet(raw[i])
  /\ q.words = Balanced(raw) => Quotes(q.words) % 2 = 0 /\ Opens(q.words) = Closes(q.words)

\* Every medium is told of as what became of it: a text was read from X's own host
\* after every check, the cap is blamed only when it was met, images were not
\* asked for or the photo has no URL to read, no more are fetched than it allows,
\* and the count that is reported is of the photos read.
PhotosAreTold(ask) ==
  LET shown == ToSet(FlattenSeq(parseSearchJson(ask.page)))
      photos == {k \in shown : ask.page.media[k].type = "photo"}
      readings == readImages(ask)
  IN  /\ Len(Picked(ask)) <= ask.max
      /\ \A k \in DOMAIN readings : k \in photos
      /\ \A k \in shown : postLines(ask, k) = "text" =>
           ask.page.media[k].host = "media host" /\ ask.page.media[k].faults = {}
      /\ \A k \in DOMAIN readings : Paid(ask.page.media[k]) => ask.page.media[k].faults \subseteq {"vision"}
      /\ \A k \in shown : postLines(ask, k) = "cap reached" =>
           ~ask.readImages \/ Len(Picked(ask)) = ask.max \/ ask.page.media[k].host = "no url"
      /\ ImagesRead(ask) = Cardinality({k \in shown : postLines(ask, k) = "text"})

\* A search that failed and one that found nothing are told apart, the request is
\* made at most twice, the second time only after the window rolled.
OutcomesAreTold(ask) ==
  LET out == runXApiSearch(ask) IN
  /\ out.requests <= 2
  /\ out.requests = 2 => ask.answers[1] = "429 soon"
  /\ out.says \in {"page", "no posts"} =>
       out.requests > 0 /\ ask.answers[out.requests] = "ok" /\ (out.says = "page") = (ask.page.posts # <<>>)
  /\ out.says = "failed" => out.requests = 0 \/ ask.answers[out.requests] # "ok"

PostsAreToldTrue(ask) ==
  QueryIsAccepted(ask.query) /\ PhotosAreTold(ask) /\ OutcomesAreTold(ask)
=============================================================================
