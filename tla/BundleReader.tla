---------------------------- MODULE BundleReader ----------------------------
(***************************************************************************)
(* vishaya verify (run_verify, Reader::verify): the bundle at a path is    *)
(* checked in passes, each of which opens the path again and reads it from *)
(* the start, while captures may rename other bundles over the path, and   *)
(* the file may be altered, signed anew or cut short, before or between    *)
(* the passes.  A bundle may be odd from the start: the writer does not    *)
(* notice every failure of its own.                                        *)
(*                                                                         *)
(* A digest is the content it is of: no two contents have the same.        *)
(***************************************************************************)
EXTENDS Naturals, FiniteSets

CONSTANTS
  Captures,    \* the captures that publish at this path
  First,       \* the one whose bundle is there at first
  Files,       \* the contents they may have saved as artifacts
  Keys,        \* signing keys
  OtherKeys,   \* those no capture signs with, of whoever alters a bundle
  Odd,         \* for each capture, the sets of oddities its bundle may have
  None,        \* no key, no signature, no entry, no index declared
  MaxReplaced, \* bound on the replacements of the file at the path,
  MaxAltered   \* and on its alterations

(* A bundle may have fields this reader has no member for (a newer minor   *)
(* version), a newer major version, or a process tree over kMaxEntryBytes. *)
(* Its writer may have hashed only the beginning of the events or of the   *)
(* tree (a read or the flush of a file failed unseen), or have put zeros   *)
(* in the archive for the end of the events or of an artifact.             *)
Flaws == {"events_digest", "tree_digest", "events_entry"} \union Files
Oddities == {"minor", "major", "huge"} \union Flaws

(* What there is to read of an archive.  A signature is of the payload     *)
(* "over": all fields of the manifest but itself, or the two digests.      *)
Contents ==
  [of : Captures, part : {"events", "tree"}, form : {"whole", "short", "padded", "altered"}]
Indexes == [of : Captures, names : SUBSET Files, parses : BOOLEAN]
Manifests ==
  [meta : Captures \union {None}, extra : BOOLEAN, newer : BOOLEAN,
   events_sha256 : Contents, process_tree_sha256 : Contents,
   artifacts_index_sha256 : Indexes \union {None}]
Payloads ==
  ((Captures \union {None}) \X BOOLEAN \X BOOLEAN \X Contents \X Contents
     \X (Indexes \union {None}))
  \union (Contents \X Contents)
Signatures ==
  [scope : {"manifest-v1", "legacy"}, key : Keys, valid : BOOLEAN, over : Payloads]
Entries == [name : Files, content : Files \union {None}]
Archives ==
  [manifest : Manifests, sig : Signatures \union {None}, events : Contents \union {None},
   tree : Contents \union {None}, huge : BOOLEAN, index : Indexes \union {None},
   files : SUBSET Entries, cut : 1 .. 6]

ASSUME ReaderAssumption ==
  /\ MaxReplaced \in Nat /\ MaxAltered \in Nat
  /\ First \in Captures
  /\ OtherKeys \subseteq Keys
  /\ Odd \in [Captures -> SUBSET (SUBSET Oddities)]
  /\ Files \intersect {"minor", "major", "huge", "events_digest", "tree_digest", "events_entry"} = {}
  /\ None \notin Captures \union Files \union Keys \union {0, 1}
  /\ None \notin Contents /\ None \notin Indexes
  /\ None \notin Manifests /\ None \notin Archives

VARIABLES
  made,       \* for each capture, what it captured and how its bundle was written
  archive,    \* the file at the path; None: there is none
  replaced,   \* how often it was replaced,
  altered,    \* and altered
  pin,        \* --verify-key; None: not given
  manifest,   \* the manifest the constructor read
  report,     \* VerifyReport
  expected,   \* the artifacts the index lists
  seen,       \* history: what each pass read
  pc, exit

vars == << made, archive, replaced, altered, pin, manifest, report, expected, seen, pc, exit >>

(* Bundles differ in who signed and what the signature covers, in which    *)
(* artifacts were collected (None: the feature was off), and in what is    *)
(* odd about them.                                                         *)
Makes ==
  [key : (Keys \ OtherKeys) \union {None}, scope : {"manifest-v1", "legacy"},
   files : (SUBSET Files) \union {None}, odd : SUBSET Oddities]

Content(c, part, form) == [of |-> c, part |-> part, form |-> form]
Digest(c, part, flaw) == Content(c, part, IF flaw \in made[c].odd THEN "short" ELSE "whole")
Collects(c) == made[c].files # None
IndexOf(c) == [of |-> c, names |-> made[c].files, parses |-> TRUE]

Unsigned(c) ==
  [meta |-> c, extra |-> "minor" \in made[c].odd, newer |-> "major" \in made[c].odd,
   events_sha256 |-> Digest(c, "events", "events_digest"),
   process_tree_sha256 |-> Digest(c, "tree", "tree_digest"),
   artifacts_index_sha256 |-> IF Collects(c) THEN IndexOf(c) ELSE None]

(* The two payloads: every field but sig as on disk, or the two digests.   *)
Canonical(m) ==
  << m.meta, m.extra, m.newer, m.events_sha256, m.process_tree_sha256, m.artifacts_index_sha256 >>
TwoHashes(m) == << m.events_sha256, m.process_tree_sha256 >>

(* Variant of the next definition that serializes the typed Manifest       *)
(* again, without the fields it has no member for.  Never used.            *)
SignedPayloadRetyped(scope, m) ==
  IF scope = "manifest-v1" THEN Canonical([m EXCEPT !.extra = FALSE]) ELSE TwoHashes(m)
SignedPayload(scope, m) ==
  IF scope = "manifest-v1" THEN Canonical(m) ELSE TwoHashes(m)

(* A signature that verifies, of so much of a manifest. *)
Signed(key, scope, m) ==
  [scope |-> scope, key |-> key, valid |-> TRUE,
   over |-> IF scope = "manifest-v1" THEN Canonical(m) ELSE TwoHashes(m)]
SigOf(c) == IF made[c].key = None THEN None ELSE Signed(made[c].key, made[c].scope, Unsigned(c))

(* What write_bundle publishes.  cut is the first entry that cannot be     *)
(* read; 6: all can.                                                       *)
Artifact(c, f) == [name |-> f, content |-> IF f \in made[c].odd THEN None ELSE f]
Bundle(c) ==
  [manifest |-> Unsigned(c), sig |-> SigOf(c),
   events |-> Content(c, "events", IF "events_entry" \in made[c].odd THEN "padded" ELSE "whole"),
   tree |-> Content(c, "tree", "whole"),
   huge |-> "huge" \in made[c].odd,
   index |-> IF Collects(c) THEN IndexOf(c) ELSE None,
   files |-> IF Collects(c) THEN { Artifact(c, f) : f \in made[c].files } ELSE {},
   cut |-> 6]

Nothing == [manifest |-> None, events |-> None, tree |-> None, index |-> None, files |-> None]

Init ==
  /\ made \in { m \in [Captures -> Makes] :
                \A c \in Captures : /\ m[c].key = None => m[c].scope = "legacy"
                                    /\ m[c].odd \in Odd[c] }
  /\ archive = Bundle(First)
  /\ replaced = 0 /\ altered = 0
  /\ pin \in Keys \union {None}
  /\ manifest = None /\ seen = Nothing
  /\ report = [integrity_ok |-> FALSE, signature_present |-> FALSE, signature_ok |-> FALSE,
               artifacts_index_ok |-> TRUE, artifacts_content_ok |-> TRUE]
  /\ expected = {}
  /\ pc = "open" /\ exit = None

-----------------------------------------------------------------------------
(* The path, meanwhile. *)
Meanwhile == pc # "done" /\ UNCHANGED << made, pin, manifest, report, expected, seen, pc, exit >>

Replaces ==
  /\ Meanwhile /\ replaced < MaxReplaced /\ replaced' = replaced + 1 /\ UNCHANGED altered

Published == Replaces /\ \E c \in Captures : archive' = Bundle(c)
Removed == Replaces /\ archive # None /\ archive' = None

Another(content) == [content EXCEPT !.form = "altered"]

(* One thing in the archive is other than it was: a field of the manifest, *)
(* its signature, an entry, or an artifact.                                *)
ManifestTouched(a) ==
  { [a EXCEPT !.manifest.meta = None],
    [a EXCEPT !.manifest.extra = ~ a.manifest.extra],
    [a EXCEPT !.manifest.events_sha256 = Another(a.manifest.events_sha256)],
    [a EXCEPT !.manifest.artifacts_index_sha256 = None] }

SignatureTouched(a) ==
  {[a EXCEPT !.sig = None]}
  \union { [a EXCEPT !.sig = SigOf(c)] : c \in Captures }
  \union { [a EXCEPT !.sig.valid = FALSE] : some \in {a.sig} \ {None} }

EntriesTouched(a) ==
  { [a EXCEPT !.events = None], [a EXCEPT !.tree = None], [a EXCEPT !.index = None] }
  \union { [a EXCEPT !.events = Another(some)] : some \in {a.events} \ {None} }
  \union { [a EXCEPT !.tree = Another(some)] : some \in {a.tree} \ {None} }
  \union { [a EXCEPT !.index.parses = FALSE] : some \in {a.index} \ {None} }
  \union { [a EXCEPT !.cut = n] : n \in 1 .. 5 }

ArtifactsTouched(a) ==
  { [a EXCEPT !.index.names = some.names \ {f}] : some \in {a.index} \ {None}, f \in Files }
  \union { [a EXCEPT !.files = a.files \ {file}] : file \in a.files }
  \union { [a EXCEPT !.files = (a.files \ {file}) \union {[file EXCEPT !.content = None]}] :
             file \in a.files }
  \union { [a EXCEPT !.files = a.files \union {[name |-> f, content |-> f]}] : f \in Files }

Touched(a) ==
  ManifestTouched(a) \union SignatureTouched(a) \union EntriesTouched(a) \union ArtifactsTouched(a)

(* The digests of the manifest are those of the entries again, ...         *)
Digested(a) ==
  [a EXCEPT !.manifest.events_sha256 = IF a.events = None THEN @ ELSE a.events,
            !.manifest.process_tree_sha256 = IF a.tree = None THEN @ ELSE a.tree,
            !.manifest.artifacts_index_sha256 = a.index]

(* ... and somebody who is no capture has signed it.                       *)
SignedAnew(a) ==
  { [Digested(a) EXCEPT !.sig = Signed(key, scope, Digested(a).manifest)] :
      key \in OtherKeys, scope \in {"manifest-v1", "legacy"} }

Altered ==
  /\ Meanwhile /\ altered < MaxAltered /\ altered' = altered + 1 /\ UNCHANGED replaced
  /\ archive # None
  /\ \E a \in Touched(archive) : archive' \in {a} \union SignedAnew(a)

-----------------------------------------------------------------------------
(* The passes. *)
Goto(from, to) ==
  /\ pc = from /\ pc' = to
  /\ UNCHANGED << made, archive, replaced, altered, pin >>

(* An exception ends the command with 1, whatever was found before it.     *)
Throws(from) ==
  /\ Goto(from, "done") /\ exit' = 1
  /\ UNCHANGED << manifest, report, expected, seen >>

Passes(from, to) == Goto(from, to) /\ UNCHANGED exit

(* find_entry reads the archive from the start, up to the entry, or to the *)
(* end if the entry is not there.                                          *)
Position == [manifest |-> 1, events |-> 2, tree |-> 3, index |-> 4, files |-> 5]
Readable(part) == archive # None /\ archive.cut > Position[part]
Found(part) == Readable(part) /\ archive[part] # None
Absent(part) == archive # None /\ archive[part] = None /\ archive.cut > 5

(* What is neither found nor known to be absent cannot be read.            *)
ReadManifest ==
  /\ Found("manifest") /\ ~archive.manifest.newer
  /\ Passes("open", "events")
  /\ manifest' = [archive.manifest EXCEPT !.newer = FALSE]
  /\ report' = [report EXCEPT !.signature_present = archive.sig # None]
  /\ seen' = [seen EXCEPT !.manifest = [fields |-> archive.manifest, sig |-> archive.sig]]
  /\ UNCHANGED expected
RefusesManifest == ~(Found("manifest") /\ ~archive.manifest.newer) /\ Throws("open")

HashEvents ==
  /\ Found("events") /\ Passes("events", "tree")
  /\ report' = [report EXCEPT !.integrity_ok = archive.events = manifest.events_sha256]
  /\ seen' = [seen EXCEPT !.events = archive.events]
  /\ UNCHANGED << manifest, expected >>
LacksEvents == ~Found("events") /\ Throws("events")

(* Variant of the next action that forgets the result for the events.      *)
(* Never used.                                                             *)
HashTreeOnly ==
  /\ Found("tree") /\ ~archive.huge /\ Passes("tree", "index")
  /\ report' = [report EXCEPT !.integrity_ok = archive.tree = manifest.process_tree_sha256]
  /\ seen' = [seen EXCEPT !.tree = archive.tree]
  /\ UNCHANGED << manifest, expected >>

HashTree ==
  /\ Found("tree") /\ ~archive.huge /\ Passes("tree", "index")
  /\ report' = [report EXCEPT !.integrity_ok = @ /\ archive.tree = manifest.process_tree_sha256]
  /\ seen' = [seen EXCEPT !.tree = archive.tree]
  /\ UNCHANGED << manifest, expected >>
LacksTree == ~(Found("tree") /\ ~archive.huge) /\ Throws("tree")

NoIndexDeclared ==
  /\ Passes("index", "signature") /\ manifest.artifacts_index_sha256 = None
  /\ UNCHANGED << manifest, report, expected, seen >>

IndexAbsent ==
  /\ Passes("index", "signature") /\ manifest.artifacts_index_sha256 # None /\ Absent("index")
  /\ report' = [report EXCEPT !.artifacts_index_ok = FALSE, !.artifacts_content_ok = FALSE]
  /\ UNCHANGED << manifest, expected, seen >>

ReadIndex ==
  /\ pc = "index" /\ manifest.artifacts_index_sha256 # None /\ Found("index")
  /\ Passes("index", IF archive.index.parses THEN "files" ELSE "signature")
  /\ report' = [report EXCEPT
       !.artifacts_index_ok = @ /\ archive.index = manifest.artifacts_index_sha256,
       !.artifacts_content_ok = @ /\ archive.index.parses]
  /\ expected' = IF archive.index.parses THEN archive.index.names ELSE {}
  /\ seen' = [seen EXCEPT !.index = archive.index]
  /\ UNCHANGED manifest

IndexUnreadable ==
  /\ Throws("index")
  /\ manifest.artifacts_index_sha256 # None /\ ~Found("index") /\ ~Absent("index")

(* Each file under artifacts/ hashes to its name and is listed, and each   *)
(* listed one is there.                                                    *)
HashFiles ==
  /\ archive # None /\ archive.cut > 5 /\ Passes("files", "signature")
  /\ report' = [report EXCEPT !.artifacts_content_ok =
       /\ @
       /\ \A file \in archive.files : file.content = file.name /\ file.name \in expected
       /\ \A f \in expected : \E file \in archive.files : file.name = f]
  /\ seen' = [seen EXCEPT !.files = archive.files]
  /\ UNCHANGED << manifest, expected >>
FilesUnreadable == ~(archive # None /\ archive.cut > 5) /\ Throws("files")

Sig == seen.manifest.sig

CheckSignature ==
  /\ Passes("signature", "verdict")
  /\ report' = [report EXCEPT !.signature_ok =
       /\ report.signature_present /\ Sig.valid
       /\ Sig.over = SignedPayload(Sig.scope, manifest)]
  /\ UNCHANGED << manifest, expected, seen >>

Ok(r) ==
  /\ r.integrity_ok /\ r.artifacts_index_ok /\ r.artifacts_content_ok
  /\ r.signature_present => r.signature_ok

(* Variant of the next definition that has nothing to compare the pin with *)
(* in an unsigned bundle.  Never used.                                     *)
PinnedOkUnlessSigned ==
  pin # None /\ report.signature_present => report.signature_ok /\ Sig.key = pin
PinnedOk ==
  pin # None => report.signature_present /\ report.signature_ok /\ Sig.key = pin

Verdict ==
  /\ Goto("verdict", "done")
  /\ exit' = IF Ok(report) /\ PinnedOk THEN 0 ELSE 1
  /\ UNCHANGED << manifest, report, expected, seen >>

Next ==
  \/ Published \/ Removed \/ Altered
  \/ ReadManifest \/ RefusesManifest \/ HashEvents \/ LacksEvents \/ HashTree \/ LacksTree
  \/ NoIndexDeclared \/ IndexAbsent \/ ReadIndex \/ IndexUnreadable
  \/ HashFiles \/ FilesUnreadable \/ CheckSignature \/ Verdict

Spec == Init /\ [][Next]_vars

-----------------------------------------------------------------------------
(* A bundle verified under a signature is one signer's: every content a    *)
(* pass read, whichever file was at the path then, is what the one         *)
(* manifest names that the signature is over; a legacy signature vouches   *)
(* for events and process tree only.  With --verify-key the signature is   *)
(* there and is of that key.  If no stranger has that key, the manifest is *)
(* a capture's that signed with it; but unpinned, a bundle may also be     *)
(* altered and signed with a key of the alterer's (bundle-spec-v0.1.md:436,*)
(* verify.cpp:75-92).                                                      *)
VerifiedIsOneSigners ==
  exit = 0 /\ (report.signature_present \/ pin # None) =>
    LET m == seen.manifest.fields
        whole == Sig.scope = "manifest-v1" IN
    /\ Sig # None /\ (pin # None => Sig.key = pin)
    /\ seen.events = m.events_sha256 /\ seen.tree = m.process_tree_sha256
    /\ m.artifacts_index_sha256 # None =>
         /\ seen.index = m.artifacts_index_sha256
         /\ seen.files = { [name |-> f, content |-> f] : f \in seen.index.names }
    /\ Sig.key \notin OtherKeys =>
         \E c \in Captures :
           /\ made[c].key = Sig.key
           /\ TwoHashes(m) = TwoHashes(Unsigned(c)) /\ (whole => m = Unsigned(c))

(* A bundle nobody touched is refused for five reasons only: a major       *)
(* version newer than the reader's, a process tree over kMaxEntryBytes, a  *)
(* pinned key that is not the signer's or an absent signature, and a       *)
(* failure of its writer that the writer did not see.                      *)
UntouchedBundleIsAccepted ==
  exit = 1 /\ replaced + altered = 0 =>
    \/ archive.manifest.newer \/ archive.huge
    \/ pin # None /\ (archive.sig = None \/ archive.sig.key # pin)
    \/ made[First].odd \intersect Flaws # {}
=============================================================================
