----------------------------- MODULE WikiBundle ------------------------------
(* The bundle on disk and those who write it, each a process of its own:   *)
(* runs of the tool wiki_save, the build with its fill, and people with an *)
(* editor. The tool and the build read the vault and write later from what *)
(* they read, one file at a time, and no lock keeps the others out; either *)
(* may die between two of its steps. One look at the vault and one write   *)
(* are a step each, and a log is a set of what was ever appended to it.    *)
EXTENDS WikiVault

CONSTANTS
  MaxWrites   \* bound: saves and edits by hand

ASSUME WikiBundleAssumption == MaxWrites \in Nat

Concepts == {A, B, X}
Generated == {A}   \* the concepts the build has a spec for
Idle == [phase |-> "idle", held |-> <<>>, lax |-> {}, touched |-> FALSE, indexes |-> <<>>]

VARIABLES
  files,       \* the bundle on disk
  logged,      \* the entries of its logs
  saving,      \* the runs of wiki_save the gate let through
  build,       \* the build: the documents it holds a copy of, and the indexes it has yet to write
  loose,       \* history: documents with links that no gate has seen
  saved,       \* history: each document's last save, if nothing but builds came over it since
  overtaken,   \* history: documents saved while the build held an older copy
  unlisted,    \* history: documents that came since, and that some index in the making may miss
  writes
bundleVars == <<files, logged, saving, build, loose, saved, overtaken, unlisted, writes>>

Dirs(fs) == UNION {{SubSeq(path, 1, n) : n \in 1 .. Len(path) - 1} : path \in DOMAIN fs}
WriteDoc(fs, path, text) == [p \in DOMAIN fs \cup {path} |-> IF p = path THEN text ELSE fs[p]]
Without(f, key) == [k \in DOMAIN f \ {key} |-> f[k]]

(* indexSpec and upsertDoc on an index: only its listing is replaced.      *)
To(path) == Target("absolute", path, FALSE, FALSE)
ToDir(dir) == Target("absolute", dir, TRUE, FALSE)
Listing(fs, dir, look) ==
  LET old == IF IndexOf(dir) \in DOMAIN fs THEN fs[IndexOf(dir)] ELSE [PlainText EXCEPT !.front = "none"]
  IN  [old EXCEPT !.links = {To(p) : p \in look.entries} \cup {ToDir(d) : d \in look.subdirs}]
ConceptsIn(fs, dir) == {p \in docsInDirectory(fs, dir) : classifyDoc(p) = "concept"}
SubdirsOf(fs, dir) == {d \in Dirs(fs) : Len(d) = Len(dir) + 1 /\ Front(d) = dir}

(* Plausible bug: the root index lists every directory at the top.         *)
LookAtAll(fs, dir) ==
  [entries |-> IF dir = <<>> THEN {} ELSE ConceptsIn(fs, dir), subdirs |-> SubdirsOf(fs, dir)]
(* refreshIndexes: what it reads of a directory, the annex left out of the *)
(* root's.                                                                 *)
Look(fs, dir) ==
  IF dir = <<>> THEN [entries |-> {}, subdirs |-> SubdirsOf(fs, dir) \ {<<"private">>}]
  ELSE [entries |-> ConceptsIn(fs, dir), subdirs |-> SubdirsOf(fs, dir)]
Looks(fs) == [dir \in Dirs(fs) \cup {<<>>} |-> Look(fs, dir)]

Built(fs) == [p \in DOMAIN fs \cup {IndexOf(dir) : dir \in DOMAIN Looks(fs)} |->
                IF p \in DOMAIN fs THEN fs[p] ELSE Listing(fs, dirname(p), Looks(fs)[dirname(p)])]
BundleInit ==
  /\ files = Built([p \in {A, X} |-> PlainText])
  /\ logged = {} /\ saving = {} /\ build = Idle
  /\ loose = {} /\ saved = <<>> /\ overtaken = {} /\ unlisted = {} /\ writes = 0

(* What an agent may draft for a path; a generated document's slot comes    *)
(* of the build.                                                           *)
Drafts(path) ==
  {[PlainText EXCEPT !.links = {To(<<"private">>)}, !.slot = IF path \in Generated THEN "none" ELSE "todo"],
   [PlainText EXCEPT !.links = {To(X)}],   \* refused but in the annex
   [PlainText EXCEPT !.front = "odd"]}     \* refused

(* A bound on the writes.                                                  *)
Counted == writes < MaxWrites /\ writes' = writes + 1

(* A document an index in the making does not list: a save's, which read   *)
(* the directory before it came, or the build's.                           *)
Misses(look, p) == p \notin look.entries
MissedBy(saves, indexes, p) ==
  \/ \E s \in saves : dirname(s.path) = dirname(p) /\ Misses(s.look, p)
  \/ dirname(p) \in DOMAIN indexes /\ Misses(indexes[dirname(p)], p)
(* What an index that is written takes off the unlisted.                   *)
ListedFor(look, saves, indexes) == {p \in look.entries : ~MissedBy(saves, indexes, p)}
Held(path) == path \in DOMAIN build.held \/ (build.phase = "upsert" /\ path \in Generated)

logTargetFor(privateTouched) == IF privateTouched THEN "/private/log.md" ELSE "/log.md"

(* wiki_save: the draft is linted inside the vault as read and refused on  *)
(* an error, before anything is written.                                   *)
Gate(fs, path, draft) == {f \in lintDoc(loadVault(WriteDoc(fs, path, draft)), path) : f.severity = "error"}
(* Plausible bug: the siblings are those of the vault without the draft.   *)
SiblingsAsRead(fs, path) == ConceptsIn(fs, dirname(path)) \ {path}
Siblings(fs, path) == ConceptsIn(fs, dirname(path)) \cup {path}
SaveReads(path, draft) ==
  /\ Counted
  /\ Gate(files, path, draft) = {}
  /\ saving' = saving \cup {[at |-> writes, path |-> path, draft |-> draft, written |-> FALSE,
                             look |-> [entries |-> Siblings(files, path), subdirs |-> {}]]}
  /\ UNCHANGED <<files, logged, build, loose, saved, overtaken, unlisted>>
(* Then it is written,                                                     *)
SaveWrites(s) ==
  /\ s \in saving /\ ~s.written
  /\ files' = WriteDoc(files, s.path, s.draft)
  /\ saving' = (saving \ {s}) \cup {[s EXCEPT !.written = TRUE]}
  /\ saved' = WriteDoc(saved, s.path, s.draft) /\ loose' = loose \ {s.path}
  /\ overtaken' = IF Held(s.path) THEN overtaken \cup {s.path} ELSE overtaken
  /\ unlisted' = IF s.path \notin DOMAIN files /\ MissedBy(saving \ {s}, build.indexes, s.path)
                 THEN unlisted \cup {s.path} ELSE unlisted
  /\ UNCHANGED <<logged, build, writes>>
(* and the index of its directory, with the siblings as read and no        *)
(* subdirectory; and the change is logged where its visibility allows.     *)
SaveIndexes(s) ==
  LET dir == dirname(s.path)
  IN  /\ s \in saving /\ s.written
      /\ files' = WriteDoc(files, IndexOf(dir), Listing(files, dir, s.look))
      /\ logged' = logged \cup {<<logTargetFor(isPrivatePath(s.path)), s.path>>}
      /\ saving' = saving \ {s}
      /\ unlisted' = unlisted \ ListedFor(s.look, saving \ {s}, build.indexes)
      /\ UNCHANGED <<build, loose, saved, overtaken, writes>>
SaveDies(s) ==
  /\ s \in saving
  /\ saving' = saving \ {s}
  /\ unlisted' = IF s.written THEN unlisted \cup {s.path} ELSE unlisted
  /\ UNCHANGED <<files, logged, build, loose, saved, overtaken, writes>>

(* A person writes a document, past any gate, or removes one.              *)
EditByHand(path, draft) ==
  /\ Counted
  /\ files' = WriteDoc(files, path, draft)
  /\ unlisted' = IF path \in DOMAIN files THEN unlisted ELSE unlisted \cup {path}
  /\ loose' = loose \cup {path} /\ saved' = Without(saved, path)
  /\ UNCHANGED <<logged, saving, build, overtaken>>
RemoveByHand(path) ==
  /\ Counted
  /\ path \in DOMAIN files /\ DOMAIN files \cap Concepts # {path}
  /\ files' = Without(files, path)
  /\ loose' = loose \ {path} /\ saved' = Without(saved, path) /\ unlisted' = unlisted \ {path}
  /\ UNCHANGED <<logged, saving, build, overtaken>>

(* The build: upsertDoc of a generated concept reads what there is of it   *)
(* and puts in what is missing.                                            *)
BuildReads ==
  /\ build = Idle
  /\ build' = [Idle EXCEPT !.phase = "upsert", !.held = [p \in Generated \cap DOMAIN files |-> files[p]],
                           !.lax = loose \cap Generated]
  /\ UNCHANGED <<files, logged, saving, loose, saved, overtaken, unlisted, writes>>
(* Plausible bug: a document without its slot is written anew.             *)
RefreshedAnew(text) == IF text.slot = "none" THEN [PlainText EXCEPT !.slot = "todo"] ELSE text
Refreshed(text) == IF text.slot = "none" THEN [text EXCEPT !.slot = "todo"] ELSE text
Upserted(path) ==
  IF path \in DOMAIN build.held THEN Refreshed(build.held[path]) ELSE [PlainText EXCEPT !.slot = "todo"]
(* A copy of the build's on disk: a save that came after it was read is    *)
(* written over, and links no gate has seen may be back.                   *)
WriteBack(path, text) ==
  /\ files' = WriteDoc(files, path, text)
  /\ saved' = IF path \in overtaken THEN Without(saved, path) ELSE saved
  /\ overtaken' = overtaken \ {path}
  /\ unlisted' = IF path \in DOMAIN files THEN unlisted ELSE unlisted \cup {path}
BuildUpserts ==
  /\ build.phase = "upsert"
  /\ build' = [Idle EXCEPT !.phase = "look"]
  /\ \E path \in Generated : WriteBack(path, Upserted(path)) /\ loose' = (loose \ {path}) \cup build.lax
  /\ UNCHANGED <<logged, saving, writes>>
(* An upsert that would change nothing writes nothing.                     *)
NothingToUpsert ==
  /\ build.phase = "upsert" /\ \A path \in Generated : path \in DOMAIN build.held /\ Upserted(path) = build.held[path]
  /\ build' = [Idle EXCEPT !.phase = "look"] /\ overtaken' = overtaken \ Generated
  /\ UNCHANGED <<files, logged, saving, loose, saved, unlisted, writes>>

(* refreshIndexes reads the vault once, and writes one index at a time. It *)
(* runs after the upserts, and again if the fill has written.              *)
RefreshReads ==
  /\ build.phase = "look" \/ (build.phase = "fill" /\ build.held = <<>> /\ build.touched)
  /\ build' = [build EXCEPT !.phase = "indexes", !.indexes = Looks(files)]
  /\ UNCHANGED <<files, logged, saving, loose, saved, overtaken, unlisted, writes>>
WalkOrder == <<<<"guides">>, <<"private">>, <<>>>>   \* the root last
RefreshWrites(dir) ==
  LET rest == Without(build.indexes, dir)
  IN  /\ build.phase = "indexes" /\ dir \in DOMAIN build.indexes
      /\ dir = Head(SelectSeq(WalkOrder, LAMBDA d : d \in DOMAIN build.indexes))
      /\ files' = WriteDoc(files, IndexOf(dir), Listing(files, dir, build.indexes[dir]))
      /\ build' = [build EXCEPT !.indexes = rest]
      /\ unlisted' = unlisted \ ListedFor(build.indexes[dir], saving, rest)
      /\ UNCHANGED <<logged, saving, loose, saved, overtaken, writes>>

(* fillVault, if it was asked for and a model can be reached: it holds the *)
(* documents with an unfilled slot as they are now,                        *)
candidates(fs) == {p \in DOMAIN fs \cap Concepts : fs[p].slot = "todo"}
FillReads ==
  /\ build.phase = "indexes" /\ build.indexes = <<>> /\ ~build.touched
  /\ build' = [build EXCEPT !.phase = "fill", !.held = [p \in candidates(files) |-> files[p]]]
  /\ UNCHANGED <<files, logged, saving, loose, saved, overtaken, unlisted, writes>>
(* waits for the model's answer to each slot, which may be none,           *)
SlotFails(path) ==
  /\ build.phase = "fill" /\ path \in DOMAIN build.held
  /\ build' = [build EXCEPT !.held = Without(@, path)]
  /\ overtaken' = overtaken \ {path}
  /\ UNCHANGED <<files, logged, saving, loose, saved, unlisted, writes>>
(* and writes the document as it was read before, the prose put in, which  *)
(* nobody lints: here it is the worst, with a link into the annex.         *)
SlotFilled(path) ==
  /\ build.phase = "fill" /\ path \in DOMAIN build.held
  /\ WriteBack(path, [build.held[path] EXCEPT !.slot = "filled", !.links = @ \cup {To(X)}])
  /\ build' = [build EXCEPT !.held = Without(@, path), !.touched = TRUE]
  /\ loose' = loose \cup {path}
  /\ UNCHANGED <<logged, saving, writes>>

(* The end of a build: a look at the bundle for its report.                *)
BuildEnds ==
  /\ \/ build.phase = "indexes" /\ build.indexes = <<>>
     \/ build.phase = "fill" /\ build.held = <<>> /\ ~build.touched
  /\ build' = Idle
  /\ UNCHANGED <<files, logged, saving, loose, saved, overtaken, unlisted, writes>>
BuildDies ==
  /\ build # Idle
  /\ build' = Idle /\ overtaken' = {}
  /\ UNCHANGED <<files, logged, saving, loose, saved, unlisted, writes>>

BundleNext ==
  \/ \E path \in Concepts : RemoveByHand(path) \/ \E draft \in Drafts(path) : SaveReads(path, draft)
  \/ \E s \in saving : SaveWrites(s) \/ SaveIndexes(s) \/ SaveDies(s)
  \/ \E path \in Concepts : EditByHand(path, [PlainText EXCEPT !.links = {To(X)}])
  \/ BuildReads \/ BuildUpserts \/ NothingToUpsert
  \/ RefreshReads \/ \E dir \in DOMAIN build.indexes : RefreshWrites(dir)
  \/ FillReads \/ \E path \in DOMAIN build.held : SlotFails(path) \/ SlotFilled(path)
  \/ BuildEnds \/ BuildDies

BundleSpec == BundleInit /\ [][BundleNext]_bundleVars
-----------------------------------------------------------------------------
(* No public file, an index or a log among them, leads into the annex but  *)
(* where a person or a fill, which nothing gates, wrote the link, or a     *)
(* build that wrote back a copy with it, or the link names the annex's     *)
(* directory bare; and a report of the bundle names the first of these.    *)
PrivateClosure ==
  LET vault == loadVault(files)
      leaks == {e.source : e \in {f \in buildGraph(vault) : f.resolved /\ ~isPrivatePath(f.source) /\ isPrivatePath(f.target)}}
      bare == {p \in DOMAIN files : To(<<"private">>) \in files[p].links}
  IN  /\ leaks \subseteq loose \cup bare
      /\ \A p \in leaks \ bare : Finding("error", "private-closure", p) \in lintVault(vault)
      /\ \A entry \in logged : entry[1] = "/log.md" => ~isPrivatePath(entry[2])

(* Who is not in its directory's index: a document whose save has yet to   *)
(* write that index; one that came otherwise than by a save, or whose save *)
(* died, until an index is written by someone who saw it; and one saved    *)
(* for the first time while another index of its directory, read before,   *)
(* was in the making, until the last such index is written and one that    *)
(* lists it after. So a save and a build that nobody overlaps leave their  *)
(* directories listed whole, and an index that misses a document is        *)
(* repaired by the next save beside it or the next build.                  *)
IndexComplete ==
  LET vault == loadVault(files)
      missing == {p \in DOMAIN files \cap Concepts :
                    IndexOf(dirname(p)) \notin DOMAIN files \/ p \notin Listed(vault, IndexOf(dirname(p)))}
  IN  missing \subseteq unlisted \cup {s.path : s \in {t \in saving : t.written}}

(* A saved document stands against builds, fills and saves of others: they *)
(* add their slot's text to it and take nothing away. The one who takes    *)
(* away is a build that read the document before the save and writes its   *)
(* copy after (FillTouchesItsSlot).                                        *)
SavesStand ==
  \A p \in DOMAIN saved :
    p \in DOMAIN files /\ saved[p].links \subseteq files[p].links /\ (saved[p].slot # "none" => files[p].slot # "none")

(* fill.ts:10: "The model never touches structure: the slot interior is    *)
(* the entire blast radius": whatever a fill writes, every document on     *)
(* disk is as it was but for its slot and what the slot links to.          *)
FillTouchesItsSlot ==
  [][build.phase = "fill" /\ build' # build =>
       \A p \in DOMAIN files : /\ p \in DOMAIN files' /\ files[p].links \subseteq files'[p].links
                               /\ [files'[p] EXCEPT !.links = {}, !.slot = ""] = [files[p] EXCEPT !.links = {}, !.slot = ""]]_bundleVars
=============================================================================
