------------------------------ MODULE WebReader ------------------------------
(* web_extract: a URL to the text of its page. Every hop of a redirect is  *)
(* checked before it is fetched; a page over the budget is given as a head *)
(* and a tail, and is read on by the offset its markers name.              *)
EXTENDS Integers, Sequences, FiniteSets

(* Which hosts the process may connect to on an agent's behalf: none that  *)
(* is local by name, by address in any notation, or by what it resolves    *)
(* to. An IPv4 address is its octets; an IPv6 one its notation (mapped,    *)
(* compatible, NAT64, 6to4: an IPv4 address inside it) or its first group. *)

Between(lo, x, hi) == lo <= x /\ x <= hi

ipv4Reason(o) ==
  CASE o[1] = 0 -> {"unspecified"}
    [] o[1] = 10 \/ (o[1] = 172 /\ Between(16, o[2], 31)) \/ (o[1] = 192 /\ o[2] = 168) -> {"private"}
    [] o[1] = 127 -> {"loopback"}
    [] o[1] = 169 /\ o[2] = 254 -> {"link-local"}
    [] o[1] = 100 /\ Between(64, o[2], 127) -> {"CGNAT"}
    [] o[1] = 192 /\ o[2] = 0 /\ o[3] = 0 -> {"IETF-reserved"}
    [] \/ (o[1] = 192 /\ o[2] = 0 /\ o[3] = 2)
       \/ (o[1] = 198 /\ o[2] = 51 /\ o[3] = 100)
       \/ (o[1] = 203 /\ o[2] = 0 /\ o[3] = 113) -> {"documentation"}
    [] o[1] = 198 /\ Between(18, o[2], 19) -> {"benchmarking"}
    [] Between(224, o[1], 239) -> {"multicast"}
    [] o[1] >= 240 -> {"reserved"}
    [] OTHER -> {}

Embeddings == {"mapped", "compatible", "nat64", "6to4"}

(* Plausible bug: an embedded IPv4 address is judged as plain IPv6.        *)
ipv6ReasonPlain(a) ==
  CASE a.form = "zero" -> {"unspecified"}
    [] a.form = "one" -> {"loopback"}
    [] OTHER -> {}

(* 64512 = fc00, 65152 = fe80, 65216 = fec0, 65280 = ff00, 8193 = 2001.    *)
ipv6Reason(a) ==
  CASE a.form = "zero" -> {"unspecified"}
    [] a.form = "one" -> {"loopback"}
    [] a.form = "compatible" -> IF ipv4Reason(a.octets) = {} THEN {"IPv4-compatible"} ELSE ipv4Reason(a.octets)
    [] a.form \in Embeddings \ {"compatible"} -> ipv4Reason(a.octets)
    [] a.form = "documentation" -> {"documentation"}
    [] a.form = "discard" -> {"discard"}
    [] OTHER -> CASE Between(64512, a.group, 65023) -> {"unique-local"}
                  [] Between(65152, a.group, 65215) -> {"link-local"}
                  [] Between(65216, a.group, 65279) -> {"site-local"}
                  [] a.group >= 65280 -> {"multicast"}
                  [] OTHER -> {}

(* A literal with a malformed group or octet gives no verdict of its own.  *)
addressReason(a) == IF a.form = "v4" THEN ipv4Reason(a.octets) ELSE ipv6Reason(a)

V4(o) == [form |-> "v4", octets |-> o]
Embedded(form, o) == [form |-> form, octets |-> o]
V6(group) == [form |-> "v6", group |-> group]

(* A host: a name that is empty, local or single-label; a literal; or a    *)
(* name with what it resolves to.                                          *)
blockedHostReason(h) ==
  CASE h.kind \in {"empty", "local", "single-label"} -> {h.kind}
    [] h.kind = "literal" -> addressReason(h.address)
    [] OTHER -> {}

checkHost(h) ==
  CASE blockedHostReason(h) # {} -> blockedHostReason(h)
    [] blockedHostReason(h) = {} /\ h.kind = "literal" -> {}
    [] OTHER -> IF h.addresses = <<>> THEN {"does not resolve"}
                ELSE UNION {addressReason(h.addresses[i]) : i \in DOMAIN h.addresses}

(* Both sides of every boundary. *)
Octets == {<<a, b, c, 1>> : a \in {0, 1, 9, 10, 11, 100, 126, 127, 128, 169, 172, 192, 198, 203, 223, 224, 239, 240, 255},
                            b \in {0, 15, 16, 17, 18, 19, 20, 31, 32, 51, 63, 64, 127, 128, 168, 169, 254, 255},
                            c \in {0, 2, 100, 113, 114}}
Groups == {8192, 64511, 64512, 65023, 65024, 65151, 65152, 65215, 65216, 65279, 65280, 65535}

(* An address has one verdict in whatever notation it comes, as a literal  *)
(* or as an answer of the resolver; one local address among a name's       *)
(* answers is enough to refuse it, and a public name is let through.       *)
VerdictIsOfAddress(o) ==
  LET local == ipv4Reason(o) # {}
      public == V4(<<8, 8, 8, 8>>)
  IN  /\ \A form \in Embeddings \ {"compatible"} :
            checkHost([kind |-> "literal", address |-> Embedded(form, o)]) = ipv4Reason(o)
      /\ checkHost([kind |-> "literal", address |-> Embedded("compatible", o)]) # {}
      /\ \A a \in {V4(o), Embedded("mapped", o)} :
            (checkHost([kind |-> "name", addresses |-> <<public, a>>]) # {}) = local
-----------------------------------------------------------------------------

MAX_REDIRECTS == 5

LesserOf(a, b) == IF a < b THEN a ELSE b
GreaterOf(a, b) == IF a < b THEN b ELSE a
NoOffset == -1
NotANumber == -1
Unset == -2

(* WEB_EXTRACT_CHAR_LIMIT in characters; one below 0 is as 0.              *)
extractCharLimit(raw) ==
  CASE raw \in {Unset, NotANumber} -> 15000
    [] OTHER -> GreaterOf(2000, LesserOf(raw, 500000))

(* Plausible bug: reading on starts at the tail's first character.         *)
ReadOnAtTail(total, limit, head) == total - (limit - head)
ReadOnAt(total, limit, head) == head

(* What one call shows of a page, as ranges from..to (to excluded), and    *)
(* the offset its marker names, NoOffset when it has none.                 *)
windowContent(total, limit, offset) ==
  LET head == (limit * 3) \div 4
      to == LesserOf(offset + limit, total)
  IN  CASE offset # NoOffset /\ offset >= total -> [shown |-> <<>>, next |-> NoOffset]
        [] offset # NoOffset /\ offset < total ->
             [shown |-> <<<<offset, to>>>>, next |-> IF to < total THEN to ELSE NoOffset]
        [] OTHER ->
             IF total <= limit THEN [shown |-> <<<<0, total>>>>, next |-> NoOffset]
             ELSE [shown |-> <<<<0, head>>, <<total - (limit - head), total>>>>,
                   next |-> ReadOnAt(total, limit, head)]

(* The page a text of this length from so many bytes is, by the words it   *)
(* has; lengths in hundreds of characters.                                 *)
blockedPageReason(page) ==
  CASE page.length <= 20 /\ page.words = "bot check" -> "bot check"
    [] page.length <= 15 /\ page.words = "paywall" -> "paywall"
    [] OTHER -> IF page.htmlBytes >= 200 /\ page.length < 4 THEN "thin" ELSE "none"

PublicHost == [kind |-> "name", addresses |-> <<V4(<<8, 8, 8, 8>>)>>]
PrivateHost == [kind |-> "name", addresses |-> <<V4(<<10, 0, 0, 1>>)>>]

(* checkUrl: unparsable, another scheme, or a host that may not be reached.*)
checkUrl(url) ==
  CASE url.form # "http" -> {url.form}
    [] OTHER -> checkHost(url.host)

(* What answers a fetch: it fails, redirects (with a place to go or none), *)
(* refuses, or has a body of some type, in HTML of some page.              *)
HtmlPages == {[length |-> 20, words |-> "bot check", htmlBytes |-> 50], [length |-> 16, words |-> "paywall", htmlBytes |-> 50],
              [length |-> 3, words |-> "none", htmlBytes |-> 200]}
Answers == {[end |-> e] : e \in {"fetch failed", "no location", "404", "pdf", "binary", "text"}}
           \cup {[end |-> "html", page |-> p] : p \in HtmlPages}
Readable(answer) == answer.end = "text" \/ (answer.end = "html" /\ blockedPageReason(answer.page) = "none")
Urls == {[form |-> "http", host |-> PublicHost], [form |-> "http", host |-> PrivateHost],
         [form |-> "other scheme", host |-> PublicHost]}
Redirect(url) == [end |-> "redirect", to |-> url]

(* fetchPage: hop i of the walk is answered by answers[i]; what was        *)
(* fetched, in order, and the outcome.                                     *)
fetchPage(url, answers) ==
  LET walk[i \in 0 .. MAX_REDIRECTS + 1] ==
        IF i = 0 THEN [at |-> url, fetched |-> <<>>, outcome |-> "going"]
        ELSE LET before == walk[i - 1]
                 answer == answers[LesserOf(i, Len(answers))]
                 fetched == Append(before.fetched, before.at)
             IN  IF before.outcome # "going" THEN before
                 ELSE IF answer.end # "redirect"
                 THEN [at |-> before.at, fetched |-> fetched,
                       outcome |-> IF Readable(answer) THEN "page" ELSE "error"]
                 ELSE [at |-> answer.to, fetched |-> fetched,
                       outcome |-> IF checkUrl(answer.to) = {} THEN "going" ELSE "error"]
      last == walk[MAX_REDIRECTS + 1]
  IN  [fetched |-> last.fetched,
       outcome |-> IF last.outcome = "going" THEN "error" ELSE last.outcome,
       moved |-> last.outcome = "page" /\ last.at # url]

(* One URL of a call: checked, fetched, an error or a page in its place.   *)
extract(url, answers) ==
  IF checkUrl(url) # {} THEN [fetched |-> <<>>, outcome |-> "error", moved |-> FALSE]
  ELSE fetchPage(url, answers)

WebAsks ==
  [total : 0 .. 12, limit : 2 .. 6, url : {CHOOSE u \in Urls : TRUE}, answers : {<<[end |-> "404"]>>}]
  \cup [total : {1}, limit : {1}, url : Urls,
        answers : UNION {[1 .. n -> {Redirect(u) : u \in Urls} \cup Answers] : n \in 1 .. 2}]

(* Reading on from the offsets the markers name, from the first call to    *)
(* the one without a marker, shows every character of the page and makes   *)
(* an end; no URL is fetched that is not a checked one, and a redirect     *)
(* loop ends after six fetches.                                            *)
Pages(total, limit) ==
  LET call[i \in 0 .. total + 1] ==
        IF i = 0 THEN windowContent(total, limit, NoOffset)
        ELSE LET before == call[i - 1]
             IN  IF before.next = NoOffset THEN before ELSE windowContent(total, limit, before.next)
  IN  [i \in 0 .. total + 1 |-> call[i]]

PageReadWhole(ask) ==
  LET pages == Pages(ask.total, ask.limit)
      got == extract(ask.url, ask.answers)
  IN  /\ pages[ask.total + 1].next = NoOffset
      /\ \A c \in 0 .. ask.total - 1 :
           \E i \in DOMAIN pages : \E r \in DOMAIN pages[i].shown :
              pages[i].shown[r][1] <= c /\ c < pages[i].shown[r][2]
      /\ Len(got.fetched) <= MAX_REDIRECTS + 1
      /\ \A i \in DOMAIN got.fetched : checkUrl(got.fetched[i]) = {}
      /\ got.outcome = "page" => Readable(ask.answers[LesserOf(Len(got.fetched), Len(ask.answers))])
=============================================================================
