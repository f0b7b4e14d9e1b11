------------------------ MODULE BundleReader_proofs ------------------------
(***************************************************************************)
(* The invariants of BundleReader, for any number of captures, artifacts,  *)
(* keys, replacements and alterations, signed anew or not: what vishaya    *)
(* verify accepts under a signature is one signer's, and it accepts what   *)
(* nobody touched unless the writer's own failures are in it.              *)
(***************************************************************************)
EXTENDS BundleReader, TLAPS

Reports ==
  [integrity_ok : BOOLEAN, signature_present : BOOLEAN, signature_ok : BOOLEAN,
   artifacts_index_ok : BOOLEAN, artifacts_content_ok : BOOLEAN]
Reads == [fields : Manifests, sig : Signatures \union {None}]
Seens ==
  [manifest : Reads \union {None}, events : Contents \union {None},
   tree : Contents \union {None}, index : Indexes \union {None},
   files : (SUBSET Entries) \union {None}]

Types ==
  /\ made \in [Captures -> Makes]
  /\ archive \in Archives \union {None}
  /\ replaced \in Nat /\ altered \in Nat
  /\ pin \in Keys \union {None}
  /\ manifest \in Manifests \union {None}
  /\ report \in Reports
  /\ seen \in Seens
  /\ expected \subseteq Files
  /\ pc \in {"open", "events", "tree", "index", "files", "signature", "verdict", "done"}
  /\ exit \in {None, 0, 1}
  /\ exit # None => pc = "done"

(* How far the command came; an exit of 0 takes every pass.                *)
PastSignature == pc = "verdict" \/ exit = 0
PastArtifacts == pc = "signature" \/ PastSignature
PastTree == pc \in {"index", "files"} \/ PastArtifacts
PastEvents == pc = "tree" \/ PastTree
PastManifest == pc = "events" \/ PastEvents

(* A signature that verifies and is not by a stranger's key was made by a  *)
(* capture, over its own payload, wherever it is met.                      *)
MadeByCapture(sig) ==
  sig # None /\ sig.valid /\ sig.key \notin OtherKeys =>
    \E c \in Captures : made[c].key # None /\ sig = SigOf(c)
Genuine ==
  /\ archive # None => MadeByCapture(archive.sig)
  /\ PastManifest => MadeByCapture(Sig)

(* Each result in the report is about what the pass itself read and the    *)
(* manifest the constructor read, whatever is at the path by now.          *)
ManifestRead ==
  PastManifest =>
    /\ seen.manifest \in Reads /\ manifest = seen.manifest.fields /\ ~ manifest.newer
    /\ report.signature_present <=> Sig # None
DigestsCompared ==
  /\ PastEvents /\ report.integrity_ok => seen.events = manifest.events_sha256
  /\ PastTree /\ report.integrity_ok => seen.tree = manifest.process_tree_sha256
IndexRead ==
  pc = "files" =>
    /\ manifest.artifacts_index_sha256 # None
    /\ seen.index \in Indexes /\ expected = seen.index.names
    /\ report.artifacts_index_ok => seen.index = manifest.artifacts_index_sha256
ArtifactsCompared ==
  /\ PastArtifacts /\ report.artifacts_index_ok /\ report.artifacts_content_ok
  /\ manifest.artifacts_index_sha256 # None
  => /\ seen.index = manifest.artifacts_index_sha256
     /\ seen.files \in SUBSET Entries
     /\ \A file \in seen.files : file.content = file.name /\ file.name \in seen.index.names
     /\ \A f \in seen.index.names : \E file \in seen.files : file.name = f
SignatureChecked ==
  PastSignature /\ report.signature_ok =>
    report.signature_present /\ Sig.valid /\ Sig.over = SignedPayload(Sig.scope, manifest)
Accepted == exit = 0 => Ok(report) /\ PinnedOk

(* Nothing goes wrong in a bundle nobody touched if nothing went wrong     *)
(* unseen when it was written.                                             *)
Sound == made[First].odd \intersect Flaws = {}
Untouched ==
  replaced + altered = 0 =>
    /\ archive = Bundle(First)
    /\ PastManifest => manifest = archive.manifest /\ Sig = archive.sig
    /\ Sound => /\ PastEvents => report.integrity_ok
                /\ report.artifacts_index_ok /\ report.artifacts_content_ok
    /\ pc = "files" => expected = archive.index.names
    /\ PastSignature /\ report.signature_present => report.signature_ok
    /\ UntouchedBundleIsAccepted

IInv ==
  /\ Types /\ Genuine /\ ManifestRead /\ DigestsCompared /\ IndexRead /\ ArtifactsCompared
  /\ SignatureChecked /\ Accepted /\ Untouched

-----------------------------------------------------------------------------
(* What the captures wrote is settled before the command starts. *)
LEMMA MadeFrame ==
  ASSUME UNCHANGED made
  PROVE  /\ \A c \in Captures :
              UNCHANGED << made[c], SigOf(c), Unsigned(c), Bundle(c), Collects(c), IndexOf(c) >>
         /\ UNCHANGED Sound
BY DEF SigOf, Unsigned, Bundle, Collects, IndexOf, Digest, Content, Signed, Artifact, Canonical,
       TwoHashes, Sound

(* What write_bundle publishes is well formed, and signed by its capture.  *)
LEMMA BundleIs ==
  ASSUME made \in [Captures -> Makes], NEW c \in Captures
  PROVE  /\ Unsigned(c) \in Manifests /\ SigOf(c) \in Signatures \union {None}
         /\ Bundle(c) \in Archives /\ Bundle(c) # None
         /\ MadeByCapture(SigOf(c))
         /\ Bundle(c).events \in Contents /\ Bundle(c).tree \in Contents
         /\ Collects(c) => IndexOf(c) \in Indexes /\ IndexOf(c) # None
<1>1. made[c] \in Makes
  OBVIOUS
<1>2. /\ Digest(c, "events", "events_digest") \in Contents
      /\ Digest(c, "tree", "tree_digest") \in Contents
      /\ Bundle(c).events \in Contents /\ Bundle(c).tree \in Contents
  BY DEF Content, Digest, Contents, Bundle
<1>3. ASSUME Collects(c)
      PROVE  /\ made[c].files \in SUBSET Files
             /\ IndexOf(c) \in Indexes /\ IndexOf(c) # None
  <2>1. made[c].files \in SUBSET Files
    BY <1>1, <1>3 DEF Makes, Collects
  <2>2. IndexOf(c) \in Indexes
    BY <2>1 DEF IndexOf, Indexes
  <2> QED
    BY <2>1, <2>2, ReaderAssumption DEF ReaderAssumption
<1>4. Unsigned(c) \in Manifests
  <2>1. ("minor" \in made[c].odd) \in BOOLEAN /\ ("major" \in made[c].odd) \in BOOLEAN
    OBVIOUS
  <2>2. (IF Collects(c) THEN IndexOf(c) ELSE None) \in Indexes \union {None}
    BY <1>3
  <2> HIDE DEF Indexes, Contents
  <2> QED
    BY <1>2, <2>1, <2>2 DEF Unsigned, Manifests
<1>5. /\ Canonical(Unsigned(c)) \in Payloads
      /\ TwoHashes(Unsigned(c)) \in Payloads
  BY <1>4 DEF Manifests, Canonical, TwoHashes, Payloads
<1>6. SigOf(c) \in Signatures \union {None}
  BY <1>1, <1>5 DEF Makes, SigOf, Signed, Signatures
<1>7. MadeByCapture(SigOf(c))
  BY DEF MadeByCapture, SigOf
<1>8. Bundle(c) \in Archives
  <2>1. { Artifact(c, f) : f \in made[c].files } \in SUBSET Entries \/ ~ Collects(c)
    BY <1>3 DEF Artifact, Entries
  <2>2. ("huge" \in made[c].odd) \in BOOLEAN
    OBVIOUS
  <2>3. (IF Collects(c) THEN { Artifact(c, f) : f \in made[c].files } ELSE {}) \in SUBSET Entries
    BY <2>1
  <2>4. (IF Collects(c) THEN IndexOf(c) ELSE None) \in Indexes \union {None}
    BY <1>3
  <2> QED
    BY <1>2, <1>4, <1>6, <2>2, <2>3, <2>4 DEF Bundle, Archives
<1> QED
  BY <1>2, <1>3, <1>4, <1>6, <1>7, <1>8, ReaderAssumption DEF ReaderAssumption

(* It holds before the command opens the file. *)
LEMMA InitInv == Init => IInv
<1> SUFFICES ASSUME Init PROVE IInv
  OBVIOUS
<1>1. made \in [Captures -> Makes]
  BY DEF Init
<1>2. archive = Bundle(First) /\ First \in Captures
  BY ReaderAssumption DEF ReaderAssumption, Init
<1>3. Bundle(First) \in Archives /\ MadeByCapture(SigOf(First))
  BY <1>1, <1>2, BundleIs
<1>4. Types
  BY <1>1, <1>2, <1>3, ReaderAssumption
     DEF ReaderAssumption, Init, Types, Reports, Seens, Nothing
<1>5. pc = "open" /\ exit # 0 /\ exit # 1
  BY ReaderAssumption DEF ReaderAssumption, Init
<1>6. ~ PastManifest /\ ~ PastEvents /\ ~ PastTree /\ ~ PastArtifacts /\ ~ PastSignature
  BY <1>5 DEF PastManifest, PastEvents, PastTree, PastArtifacts, PastSignature
<1>7. Genuine
  BY <1>2, <1>3, <1>6 DEF Genuine, Bundle
<1>8. ManifestRead /\ DigestsCompared /\ IndexRead /\ ArtifactsCompared /\ SignatureChecked
      /\ Accepted
  BY <1>5, <1>6 DEF ManifestRead, DigestsCompared, IndexRead, ArtifactsCompared,
                    SignatureChecked, Accepted
<1>9. Untouched
  BY <1>2, <1>5, <1>6 DEF Init, Untouched, UntouchedBundleIsAccepted
<1> QED
  BY <1>4, <1>7, <1>8, <1>9 DEF IInv

-----------------------------------------------------------------------------
(* One alteration leaves an a, and no signature more that verifies:  *)
(* one that does is moved, at most.                                        *)
LEMMA TouchedIs ==
  ASSUME made \in [Captures -> Makes],
         NEW a \in Archives, MadeByCapture(a.sig),
         NEW after \in Touched(a)
  PROVE  after \in Archives /\ MadeByCapture(after.sig)
<1>1. /\ a \in Archives /\ MadeByCapture(a.sig)
      /\ a.manifest \in Manifests /\ a.sig \in Signatures \union {None}
      /\ a.files \subseteq Entries
  BY DEF Archives
<1>2. CASE a.sig # None /\ after = [a EXCEPT !.sig.valid = FALSE]
  <2>1. a.sig \in Signatures
    BY <1>1, <1>2
  <2>2. /\ after.sig = [a.sig EXCEPT !.valid = FALSE]
        /\ after = [a EXCEPT !.sig = [a.sig EXCEPT !.valid = FALSE]]
    BY <1>1, <1>2 DEF Archives
  <2>3. /\ [a.sig EXCEPT !.valid = FALSE] \in Signatures
        /\ ~ [a.sig EXCEPT !.valid = FALSE].valid
    BY <2>1 DEF Signatures
  <2> QED
    BY <1>1, <2>2, <2>3 DEF Archives, MadeByCapture
<1>3. CASE \E m \in Manifests : after = [a EXCEPT !.manifest = m]
  BY <1>1, <1>3 DEF Archives
<1>4. CASE \E content \in Contents \union {None} :
             \/ after = [a EXCEPT !.events = content]
             \/ after = [a EXCEPT !.tree = content]
  BY <1>1, <1>4 DEF Archives
<1>5. CASE \E index \in Indexes \union {None} : after = [a EXCEPT !.index = index]
  BY <1>1, <1>5 DEF Archives
<1>6. CASE \E files \in SUBSET Entries : after = [a EXCEPT !.files = files]
  BY <1>1, <1>6 DEF Archives
<1>7. CASE \E n \in 1 .. 5 : after = [a EXCEPT !.cut = n]
  <2>1. 1 .. 5 \subseteq 1 .. 6
    OBVIOUS
  <2> QED
    BY <1>1, <1>7, <2>1 DEF Archives
<1>8. ASSUME NEW content \in Contents PROVE Another(content) \in Contents
  BY DEF Another, Contents
<1>9. CASE \/ after = [a EXCEPT !.manifest.meta = None]
           \/ after = [a EXCEPT !.manifest.extra = ~a.manifest.extra]
           \/ after = [a EXCEPT !.manifest.events_sha256 = Another(@)]
           \/ after = [a EXCEPT !.manifest.artifacts_index_sha256 = None]
  <2> DEFINE m == a.manifest
  <2>1. /\ [m EXCEPT !.meta = None] \in Manifests /\ [m EXCEPT !.extra = ~ m.extra] \in Manifests
        /\ [m EXCEPT !.events_sha256 = Another(m.events_sha256)] \in Manifests
        /\ [m EXCEPT !.artifacts_index_sha256 = None] \in Manifests
    BY <1>1, <1>8 DEF Manifests
  <2>2. \/ after = [a EXCEPT !.manifest = [m EXCEPT !.meta = None]]
        \/ after = [a EXCEPT !.manifest = [m EXCEPT !.extra = ~ m.extra]]
        \/ after = [a EXCEPT !.manifest =
                         [m EXCEPT !.events_sha256 = Another(m.events_sha256)]]
        \/ after = [a EXCEPT !.manifest = [m EXCEPT !.artifacts_index_sha256 = None]]
    BY <1>1, <1>9 DEF Archives, Manifests
  <2> QED
    BY <1>3, <2>1, <2>2
<1>10. CASE \/ a.events # None /\ after = [a EXCEPT !.events = Another(@)]
            \/ a.tree # None /\ after = [a EXCEPT !.tree = Another(@)]
            \/ \E part \in {"events", "tree", "index"} : after = [a EXCEPT ![part] = None]
  <2>1. CASE a.events # None /\ after = [a EXCEPT !.events = Another(@)]
    BY <1>1, <1>4, <1>8, <2>1 DEF Archives
  <2>2. CASE a.tree # None /\ after = [a EXCEPT !.tree = Another(@)]
    BY <1>1, <1>4, <1>8, <2>2 DEF Archives
  <2>3. CASE \E part \in {"events", "tree", "index"} : after = [a EXCEPT ![part] = None]
    BY <1>4, <1>5, <2>3
  <2> QED
    BY <1>10, <2>1, <2>2, <2>3
<1>11. CASE /\ a.index # None
            /\ \/ after = [a EXCEPT !.index.parses = FALSE]
               \/ \E f \in Files : after = [a EXCEPT !.index.names = @ \ {f}]
  <2> DEFINE x == a.index
  <2>1. x \in Indexes
    BY <1>1, <1>11 DEF Archives
  <2>2. CASE after = [a EXCEPT !.index.parses = FALSE]
    <3>1. [x EXCEPT !.parses = FALSE] \in Indexes
      BY <2>1 DEF Indexes
    <3>2. after = [a EXCEPT !.index = [x EXCEPT !.parses = FALSE]]
      BY <2>2
    <3> QED
      BY <1>5, <3>1, <3>2
  <2>3. ASSUME NEW f \in Files, after = [a EXCEPT !.index.names = @ \ {f}]
        PROVE  after \in Archives /\ MadeByCapture(after.sig)
    <3>1. [x EXCEPT !.names = x.names \ {f}] \in Indexes
      BY <2>1 DEF Indexes
    <3>2. after = [a EXCEPT !.index = [x EXCEPT !.names = x.names \ {f}]]
      BY <2>3
    <3> QED
      BY <1>5, <3>1, <3>2
  <2> QED
    BY <1>11, <2>2, <2>3
<1>12. CASE \/ \E file \in a.files :
                 \/ after = [a EXCEPT !.files = @ \ {file}]
                 \/ after = [a EXCEPT !.files =
                                  (@ \ {file}) \union {[file EXCEPT !.content = None]}]
            \/ \E f \in Files :
                 after = [a EXCEPT !.files = @ \union {[name |-> f, content |-> f]}]
  <2>1. ASSUME NEW file \in a.files
        PROVE  /\ a.files \ {file} \subseteq Entries
               /\ (a.files \ {file}) \union {[file EXCEPT !.content = None]} \subseteq Entries
    <3>1. [file EXCEPT !.content = None] \in Entries
      BY <1>1 DEF Entries
    <3> QED
      BY <1>1, <3>1
  <2>2. ASSUME NEW f \in Files
        PROVE  a.files \union {[name |-> f, content |-> f]} \subseteq Entries
    BY <1>1 DEF Entries
  <2>3. \E files \in SUBSET Entries : after = [a EXCEPT !.files = files]
    <3>1. CASE \E file \in a.files :
                 after = [a EXCEPT !.files = a.files \ {file}]
      BY <2>1, <3>1
    <3>2. CASE \E file \in a.files :
                 after = [a EXCEPT !.files =
                   (a.files \ {file}) \union {[file EXCEPT !.content = None]}]
      BY <2>1, <3>2
    <3>3. CASE \E f \in Files : after = [a EXCEPT !.files =
                   a.files \union {[name |-> f, content |-> f]}]
      BY <2>2, <3>3
    <3> QED
      BY <1>12, <3>1, <3>2, <3>3
  <2> QED
    BY <1>6, <2>3
<1>13. CASE after = [a EXCEPT !.sig = None] \/ \E c \in Captures : after = [a EXCEPT !.sig = SigOf(c)]
  <2>1. ASSUME NEW sig \in Signatures \union {None}, MadeByCapture(sig), after = [a EXCEPT !.sig = sig]
        PROVE  after \in Archives /\ MadeByCapture(after.sig)
    BY <1>1, <2>1 DEF Archives
  <2>2. MadeByCapture(None)
    BY DEF MadeByCapture
  <2> QED
    BY <1>13, <2>1, <2>2, BundleIs
<1>14. CASE after \in ManifestTouched(a)
  BY <1>9, <1>14 DEF ManifestTouched
<1>15. CASE after \in SignatureTouched(a)
  <2>1. \/ after = [a EXCEPT !.sig = None] \/ \E c \in Captures : after = [a EXCEPT !.sig = SigOf(c)]
        \/ a.sig # None /\ after = [a EXCEPT !.sig.valid = FALSE]
    BY <1>15 DEF SignatureTouched
  <2> QED
    BY <1>2, <1>13, <2>1
<1>16. CASE after \in EntriesTouched(a)
  <2>1. \/ \E part \in {"events", "tree", "index"} : after = [a EXCEPT ![part] = None]
        \/ a.events # None /\ after = [a EXCEPT !.events = Another(a.events)]
        \/ a.tree # None /\ after = [a EXCEPT !.tree = Another(a.tree)]
        \/ a.index # None /\ after = [a EXCEPT !.index.parses = FALSE]
        \/ \E n \in 1 .. 5 : after = [a EXCEPT !.cut = n]
    BY <1>16 DEF EntriesTouched
  <2> QED
    BY <1>7, <1>10, <1>11, <2>1
<1>17. CASE after \in ArtifactsTouched(a)
  <2>1. \/ \E file \in a.files :
             \/ after = [a EXCEPT !.files = a.files \ {file}]
             \/ after = [a EXCEPT !.files =
                           (a.files \ {file}) \union {[file EXCEPT !.content = None]}]
        \/ \E f \in Files :
             \/ after = [a EXCEPT !.files = a.files \union {[name |-> f, content |-> f]}]
             \/ a.index # None /\ after = [a EXCEPT !.index.names = a.index.names \ {f}]
    BY <1>17 DEF ArtifactsTouched
  <2> QED
    BY <1>11, <1>12, <2>1
<1> QED
  BY <1>14, <1>15, <1>16, <1>17 DEF Touched

(* Whoever signs it anew signs with a stranger's key.                      *)
LEMMA SignedAnewIs ==
  ASSUME NEW a \in Archives, NEW after \in SignedAnew(a)
  PROVE  after \in Archives /\ MadeByCapture(after.sig)
<1> DEFINE m == Digested(a).manifest
<1>1. Digested(a) \in Archives /\ m \in Manifests
  BY DEF Digested, Archives, Manifests
<1> HIDE DEF m
<1>2. Canonical(m) \in Payloads /\ TwoHashes(m) \in Payloads
  BY <1>1 DEF Manifests, Canonical, TwoHashes, Payloads
<1>3. PICK key \in OtherKeys, scope \in {"manifest-v1", "legacy"} :
        after = [Digested(a) EXCEPT !.sig = Signed(key, scope, m)]
  BY DEF SignedAnew, m
<1>4. Signed(key, scope, m) \in Signatures /\ Signed(key, scope, m).key = key
  BY <1>2, ReaderAssumption DEF ReaderAssumption, Signed, Signatures
<1>5. after \in Archives /\ after.sig = Signed(key, scope, m)
  BY <1>1, <1>3, <1>4 DEF Archives
<1> QED
  BY <1>4, <1>5 DEF MadeByCapture

(* So an alteration leaves an archive, and no capture's signature on what  *)
(* that capture did not write.                                             *)
LEMMA AlteredIs ==
  ASSUME IInv, Altered
  PROVE  archive' \in Archives /\ MadeByCapture(archive'.sig)
<1>1. PICK a \in Touched(archive) : archive' \in {a} \union SignedAnew(a)
  BY DEF Altered
<1>2. /\ made \in [Captures -> Makes]
      /\ archive \in Archives /\ MadeByCapture(archive.sig)
  BY DEF IInv, Types, Genuine, Altered
<1>3. a \in Archives /\ MadeByCapture(a.sig)
  BY <1>1, <1>2, TouchedIs
<1> QED
  BY <1>1, <1>3, SignedAnewIs

(* What happens to the path changes no finding, and is counted. *)
LEMMA PathInv ==
  ASSUME IInv, Published \/ Removed \/ Altered
  PROVE  IInv'
<1>1. /\ UNCHANGED << made, pin, manifest, report, expected, seen, pc, exit >>
      /\ replaced \in Nat /\ altered \in Nat
      /\ \/ replaced' = replaced + 1 /\ altered' = altered
         \/ altered' = altered + 1 /\ replaced' = replaced
  BY DEF IInv, Types, Published, Removed, Replaces, Altered, Meanwhile
<1>2. /\ archive' \in Archives \union {None}
      /\ archive' # None => MadeByCapture(archive'.sig)
  <2>1. CASE Altered
    BY <2>1, AlteredIs
  <2>2. ASSUME NEW c \in Captures, archive' = Bundle(c)
        PROVE  archive' \in Archives /\ MadeByCapture(archive'.sig)
    BY <2>2, BundleIs DEF IInv, Types, Bundle
  <2>3. CASE archive' = None
    BY <2>3
  <2> QED
    BY <2>1, <2>2, <2>3 DEF Published, Removed
<1>3. /\ UNCHANGED << PastManifest, PastEvents, PastTree, PastArtifacts, PastSignature >>
  BY <1>1 DEF PastManifest, PastEvents, PastTree, PastArtifacts, PastSignature
<1>4. Types'
  BY <1>1, <1>2 DEF IInv, Types
<1>5. Genuine'
  BY <1>1, <1>2, <1>3, MadeFrame DEF IInv, Genuine, MadeByCapture, Sig
<1>6. ManifestRead' /\ DigestsCompared' /\ IndexRead'
  BY <1>1, <1>3 DEF IInv, ManifestRead, DigestsCompared, IndexRead, Sig
<1>7. ArtifactsCompared' /\ SignatureChecked' /\ Accepted'
  BY <1>1, <1>3 DEF IInv, ArtifactsCompared, SignatureChecked, Accepted, Ok, PinnedOk, Sig
<1>8. Untouched'
  BY <1>1 DEF Untouched
<1> QED
  BY <1>4, <1>5, <1>6, <1>7, <1>8 DEF IInv

-----------------------------------------------------------------------------
(* The reasons for which a bundle nobody touched is refused.               *)
Excused ==
  \/ archive.manifest.newer \/ archive.huge
  \/ pin # None /\ (archive.sig = None \/ archive.sig.key # pin)
  \/ ~ Sound

(* An exception ends the command, and what was found before it is left.    *)
LEMMA ThrowsInv ==
  ASSUME IInv, NEW from, Throws(from), replaced + altered = 0 => Excused
  PROVE  IInv'
<1>1. /\ UNCHANGED << made, archive, replaced, altered, pin, manifest, report, expected, seen >>
      /\ pc' = "done" /\ exit' = 1
  BY DEF Throws, Goto
<1>2. ~ PastManifest' /\ ~ PastEvents' /\ ~ PastTree' /\ ~ PastArtifacts' /\ ~ PastSignature'
  BY <1>1 DEF PastManifest, PastEvents, PastTree, PastArtifacts, PastSignature
<1>3. Types'
  BY <1>1 DEF IInv, Types
<1>4. Genuine'
  BY <1>1, <1>2, MadeFrame DEF IInv, Genuine, MadeByCapture
<1>5. /\ ManifestRead' /\ DigestsCompared' /\ IndexRead' /\ ArtifactsCompared'
      /\ SignatureChecked' /\ Accepted'
  BY <1>1, <1>2 DEF ManifestRead, DigestsCompared, IndexRead, ArtifactsCompared,
                    SignatureChecked, Accepted
<1>6. Untouched'
  <2> SUFFICES ASSUME replaced + altered = 0 PROVE Untouched'
    BY <1>1 DEF Untouched
  <2>1. archive' = Bundle(First)' /\ Sound' = Sound
    BY <1>1, MadeFrame, ReaderAssumption DEF ReaderAssumption, IInv, Untouched
  <2>2. Sound => report.artifacts_index_ok /\ report.artifacts_content_ok
    BY DEF IInv, Untouched
  <2> QED
    BY <1>1, <1>2, <2>1, <2>2 DEF Untouched, UntouchedBundleIsAccepted, Excused, Sound
<1> QED
  BY <1>3, <1>4, <1>5, <1>6 DEF IInv

(* A bundle nobody touched is as its capture wrote it.                     *)
LEMMA UntouchedIs ==
  ASSUME IInv, replaced + altered = 0
  PROVE  /\ archive \in Archives /\ archive # None /\ archive.cut = 6
         /\ archive.manifest = Unsigned(First) /\ archive.manifest # None
         /\ archive.sig = SigOf(First) /\ archive.events # None /\ archive.tree # None
         /\ Sound => /\ archive.events = archive.manifest.events_sha256
                     /\ archive.tree = archive.manifest.process_tree_sha256
         /\ archive.manifest.artifacts_index_sha256 = archive.index
         /\ archive.index # None =>
              /\ archive.index.parses
              /\ Sound => archive.files = { [name |-> f, content |-> f] : f \in archive.index.names }
<1> DEFINE c == First
<1>1. archive = Bundle(c) /\ c \in Captures
  BY ReaderAssumption DEF ReaderAssumption, IInv, Untouched
<1>2. made \in [Captures -> Makes]
  BY DEF IInv, Types
<1>3. /\ Unsigned(c) \in Manifests /\ Bundle(c) \in Archives /\ Bundle(c) # None
      /\ Bundle(c).events \in Contents /\ Bundle(c).tree \in Contents
      /\ Collects(c) => IndexOf(c) # None
  BY <1>1, <1>2, BundleIs
<1>4. Unsigned(c) # None /\ Bundle(c).events # None /\ Bundle(c).tree # None
  BY <1>3, ReaderAssumption DEF ReaderAssumption
<1>5. /\ archive.cut = 6 /\ archive.manifest = Unsigned(c) /\ archive.sig = SigOf(c)
      /\ archive.manifest.artifacts_index_sha256 = archive.index
      /\ archive.index = IF Collects(c) THEN IndexOf(c) ELSE None
  BY <1>1 DEF Bundle, Unsigned
<1>6. ASSUME Sound
      PROVE  /\ archive.events = archive.manifest.events_sha256
             /\ archive.tree = archive.manifest.process_tree_sha256
  <2>1. /\ "events_digest" \notin made[c].odd /\ "tree_digest" \notin made[c].odd
        /\ "events_entry" \notin made[c].odd
    BY <1>6 DEF Sound, Flaws
  <2> QED
    BY <1>1, <2>1 DEF Bundle, Unsigned, Digest
<1>7. ASSUME Collects(c)
      PROVE  /\ archive.index.parses
             /\ Sound =>
                  archive.files = { [name |-> f, content |-> f] : f \in archive.index.names }
  <2>1. archive.index.parses /\ archive.index.names = made[c].files
    BY <1>5, <1>7 DEF IndexOf
  <2>2. made[c].files \subseteq Files
    BY <1>1, <1>2, <1>7 DEF Makes, Collects
  <2>3. archive.files = { Artifact(c, f) : f \in made[c].files }
    BY <1>1, <1>7 DEF Bundle
  <2>4. ASSUME Sound, NEW f \in made[c].files
        PROVE  Artifact(c, f) = [name |-> f, content |-> f]
    BY <2>2, <2>4 DEF Sound, Flaws, Artifact
  <2> QED
    BY <2>1, <2>3, <2>4
<1> QED
  BY <1>1, <1>3, <1>4, <1>5, <1>6, <1>7

(* ... and stays so while the file is let alone.                           *)
LEMMA StillAsWritten ==
  ASSUME IInv, replaced + altered = 0, UNCHANGED << made, archive >>
  PROVE  (archive = Bundle(First))' /\ UNCHANGED Sound
BY MadeFrame, ReaderAssumption DEF ReaderAssumption, IInv, Untouched

(* The passes start from what is known while the command runs. *)
LEMMA PassFrame ==
  ASSUME IInv, NEW from, NEW to, from # "done", to # "done", Passes(from, to)
  PROVE  /\ UNCHANGED << made, archive, replaced, altered, pin, exit >>
         /\ pc = from /\ pc' = to /\ exit = None /\ None # 0 /\ None # 1
         /\ \A c \in Captures :
              UNCHANGED << made[c], SigOf(c), Unsigned(c), Bundle(c), Collects(c), IndexOf(c) >>
  BY MadeFrame, ReaderAssumption DEF ReaderAssumption, IInv, Types, Passes, Goto

(* The constructor reads the manifest. *)
LEMMA ManifestInv ==
  ASSUME IInv, ReadManifest \/ RefusesManifest
  PROVE  IInv'
<1>1. CASE RefusesManifest
  <2>1. ASSUME replaced + altered = 0 PROVE Excused
    <3>1. Readable("manifest") /\ archive["manifest"] # None
      <4>1. archive # None /\ archive.cut = 6 /\ archive.manifest # None
        BY <2>1, UntouchedIs
      <4> QED
        BY <4>1 DEF Readable, Position
    <3> QED
      BY <1>1, <3>1 DEF RefusesManifest, Found, Excused
  <2> QED
    BY <1>1, <2>1, ThrowsInv DEF RefusesManifest
<1>2. CASE ReadManifest
  <2>1. /\ UNCHANGED << made, archive, replaced, altered, pin, exit, expected >>
        /\ pc = "open" /\ pc' = "events" /\ exit = None /\ None # 0 /\ None # 1
    BY <1>2, PassFrame DEF ReadManifest
  <2>2. archive \in Archives /\ archive # None /\ ~ archive.manifest.newer
    BY <1>2 DEF IInv, Types, ReadManifest, Found, Readable
  <2>3. archive.manifest \in Manifests /\ archive.sig \in Signatures \union {None}
    BY <2>2 DEF Archives
  <2>4. manifest' = archive.manifest
    <3>1. manifest' = [archive.manifest EXCEPT !.newer = FALSE]
      BY <1>2 DEF ReadManifest
    <3> QED
      BY <2>2, <2>3, <3>1 DEF Manifests
  <2>5. /\ report' = [report EXCEPT !.signature_present = archive.sig # None]
        /\ seen' = [seen EXCEPT !.manifest =
                      [fields |-> archive.manifest, sig |-> archive.sig]]
        /\ report \in Reports /\ seen \in Seens
    BY <1>2 DEF ReadManifest, IInv, Types
  <2>6. /\ seen'.manifest = [fields |-> archive.manifest, sig |-> archive.sig]
        /\ seen'.manifest \in Reads /\ seen' \in Seens /\ report' \in Reports
        /\ report'.signature_present <=> archive.sig # None
        /\ UNCHANGED << report.artifacts_index_ok, report.artifacts_content_ok >>
    BY <2>3, <2>5 DEF Reports, Seens, Reads
  <2>7. /\ PastManifest' /\ ~ PastEvents' /\ ~ PastTree' /\ ~ PastArtifacts' /\ ~ PastSignature'
    BY <2>1 DEF PastManifest, PastEvents, PastTree, PastArtifacts, PastSignature
  <2>8. Sig' = archive.sig /\ seen'.manifest.fields = archive.manifest
    BY <2>6 DEF Sig
  <2>9. Types'
    BY <2>1, <2>3, <2>4, <2>6 DEF IInv, Types
  <2>10. Genuine'
    BY <2>1, <2>2, <2>8, MadeFrame DEF IInv, Genuine, MadeByCapture
  <2>11. ManifestRead'
    BY <2>2, <2>4, <2>6, <2>8 DEF ManifestRead
  <2>12. /\ DigestsCompared' /\ IndexRead' /\ ArtifactsCompared'
         /\ SignatureChecked' /\ Accepted'
    BY <2>1, <2>7 DEF DigestsCompared, IndexRead, ArtifactsCompared, SignatureChecked, Accepted
  <2>13. Untouched'
    <3> SUFFICES ASSUME replaced + altered = 0 PROVE Untouched'
      BY <2>1 DEF Untouched
    <3>1. (archive = Bundle(First))' /\ UNCHANGED Sound
      BY <2>1, StillAsWritten
    <3>2. Sound => report.artifacts_index_ok /\ report.artifacts_content_ok
      BY DEF IInv, Untouched
    <3> QED
      BY <2>1, <2>4, <2>6, <2>7, <2>8, <3>1, <3>2
         DEF Untouched, UntouchedBundleIsAccepted
  <2> QED
    BY <2>9, <2>10, <2>11, <2>12, <2>13 DEF IInv
<1> QED
  BY <1>1, <1>2

(* What the passes after the constructor have in common: they find the     *)
(* manifest and its signature as the constructor left them.                *)
Pass(from, to) ==
  /\ UNCHANGED << made, archive, replaced, altered, pin, exit, manifest >>
  /\ pc = from /\ pc' = to /\ exit = None
  /\ report' \in Reports /\ report'.signature_present = report.signature_present
  /\ seen' \in Seens /\ seen'.manifest = seen.manifest
  /\ expected' \subseteq Files

LEMMA PassInv ==
  ASSUME IInv, NEW from \in {"events", "tree", "index", "files", "signature"},
         NEW to \in {"tree", "index", "files", "signature", "verdict"}, Pass(from, to)
  PROVE  /\ Types' /\ Genuine' /\ ManifestRead' /\ Accepted'
         /\ PastManifest /\ Sig' = Sig /\ exit # 0 /\ exit # 1
<1>1. exit # 0 /\ exit # 1
  BY ReaderAssumption DEF ReaderAssumption, Pass
<1>2. PastManifest /\ PastManifest'
  BY DEF Pass, PastManifest, PastEvents, PastTree, PastArtifacts, PastSignature
<1>3. Sig' = Sig
  BY DEF Pass, Sig
<1>4. Types'
  BY DEF IInv, Types, Pass
<1>5. Genuine'
  BY <1>2, <1>3, MadeFrame DEF IInv, Pass, Genuine, MadeByCapture
<1>6. ManifestRead' /\ Accepted'
  BY <1>1, <1>2, <1>3 DEF IInv, Pass, ManifestRead, Accepted
<1> QED
  BY <1>1, <1>2, <1>3, <1>4, <1>5, <1>6

(* The digest of events.ndjson. *)
LEMMA EventsInv ==
  ASSUME IInv, HashEvents \/ LacksEvents
  PROVE  IInv'
<1>1. CASE LacksEvents
  <2>1. ASSUME replaced + altered = 0 PROVE Excused
    BY <1>1, <2>1, UntouchedIs DEF LacksEvents, Found, Readable, Position
  <2> QED
    BY <1>1, <2>1, ThrowsInv DEF LacksEvents
<1>2. CASE HashEvents
  <2>1. /\ UNCHANGED << made, archive, replaced, altered, pin, exit, manifest, expected >>
        /\ pc = "events" /\ pc' = "tree" /\ exit = None
    BY <1>2, PassFrame DEF HashEvents
  <2>2. /\ report' = [report EXCEPT !.integrity_ok = archive.events = manifest.events_sha256]
        /\ seen' = [seen EXCEPT !.events = archive.events]
        /\ report \in Reports /\ seen \in Seens /\ expected \subseteq Files
        /\ archive.events \in Contents \union {None}
    BY <1>2 DEF HashEvents, Found, Readable, IInv, Types, Archives
  <2>3. /\ report' \in Reports /\ seen' \in Seens /\ seen'.manifest = seen.manifest
        /\ seen'.events = archive.events
        /\ report'.integrity_ok <=> archive.events = manifest.events_sha256
        /\ UNCHANGED << report.signature_present, report.artifacts_index_ok,
                        report.artifacts_content_ok >>
    BY <2>2 DEF Reports, Seens
  <2>4. Pass("events", "tree")
    BY <2>1, <2>2, <2>3 DEF Pass
  <2>5. /\ Types' /\ Genuine' /\ ManifestRead' /\ Accepted'
        /\ PastManifest /\ Sig' = Sig /\ exit # 0 /\ exit # 1
    BY <2>4, PassInv
  <2>6. PastEvents' /\ ~ PastTree' /\ ~ PastArtifacts' /\ ~ PastSignature'
    BY <2>1, <2>5 DEF PastEvents, PastTree, PastArtifacts, PastSignature
  <2>7. DigestsCompared' /\ IndexRead' /\ ArtifactsCompared' /\ SignatureChecked'
    BY <2>1, <2>3, <2>6 DEF DigestsCompared, IndexRead, ArtifactsCompared, SignatureChecked
  <2>8. Untouched'
    <3> SUFFICES ASSUME replaced + altered = 0 PROVE Untouched'
      BY <2>1 DEF Untouched
    <3>1. (archive = Bundle(First))' /\ UNCHANGED Sound
      BY <2>1, StillAsWritten
    <3>2. /\ Sound => report.artifacts_index_ok /\ report.artifacts_content_ok
          /\ manifest = archive.manifest /\ Sig = archive.sig
      BY <2>5 DEF IInv, Untouched
    <3>3. Sound => archive.events = archive.manifest.events_sha256
      BY UntouchedIs
    <3> QED
      BY <2>1, <2>3, <2>5, <2>6, <3>1, <3>2, <3>3
         DEF Untouched, UntouchedBundleIsAccepted
  <2> QED
    BY <2>5, <2>7, <2>8 DEF IInv
<1> QED
  BY <1>1, <1>2

(* That of process_tree.json, which is held in memory and may be too big.  *)
LEMMA TreeInv ==
  ASSUME IInv, HashTree \/ LacksTree
  PROVE  IInv'
<1>1. CASE LacksTree
  <2>1. ASSUME replaced + altered = 0 PROVE Excused
    BY <1>1, <2>1, UntouchedIs DEF LacksTree, Found, Readable, Position, Excused
  <2> QED
    BY <1>1, <2>1, ThrowsInv DEF LacksTree
<1>2. CASE HashTree
  <2>1. /\ UNCHANGED << made, archive, replaced, altered, pin, exit, manifest, expected >>
        /\ pc = "tree" /\ pc' = "index" /\ exit = None
    BY <1>2, PassFrame DEF HashTree
  <2>2. /\ report' = [report EXCEPT !.integrity_ok =
                        @ /\ archive.tree = manifest.process_tree_sha256]
        /\ seen' = [seen EXCEPT !.tree = archive.tree]
        /\ report \in Reports /\ seen \in Seens /\ expected \subseteq Files
        /\ archive.tree \in Contents \union {None}
    BY <1>2 DEF HashTree, Found, Readable, IInv, Types, Archives
  <2>3. /\ report' \in Reports /\ seen' \in Seens /\ seen'.manifest = seen.manifest
        /\ seen'.tree = archive.tree /\ seen'.events = seen.events
        /\ report'.integrity_ok <=>
             report.integrity_ok /\ archive.tree = manifest.process_tree_sha256
        /\ UNCHANGED << report.signature_present, report.artifacts_index_ok,
                        report.artifacts_content_ok >>
    BY <2>2 DEF Reports, Seens
  <2>4. Pass("tree", "index")
    BY <2>1, <2>2, <2>3 DEF Pass
  <2>5. /\ Types' /\ Genuine' /\ ManifestRead' /\ Accepted'
        /\ PastManifest /\ Sig' = Sig /\ exit # 0 /\ exit # 1
    BY <2>4, PassInv
  <2>6. PastEvents /\ PastTree' /\ ~ PastArtifacts' /\ ~ PastSignature'
    BY <2>1, <2>5 DEF PastEvents, PastTree, PastArtifacts, PastSignature
  <2>7. DigestsCompared' /\ IndexRead' /\ ArtifactsCompared' /\ SignatureChecked'
    BY <2>1, <2>3, <2>6
       DEF IInv, DigestsCompared, IndexRead, ArtifactsCompared, SignatureChecked
  <2>8. Untouched'
    <3> SUFFICES ASSUME replaced + altered = 0 PROVE Untouched'
      BY <2>1 DEF Untouched
    <3>1. (archive = Bundle(First))' /\ UNCHANGED Sound
      BY <2>1, StillAsWritten
    <3>2. /\ Sound => /\ report.artifacts_index_ok /\ report.artifacts_content_ok
                      /\ report.integrity_ok
          /\ manifest = archive.manifest /\ Sig = archive.sig
      BY <2>5, <2>6 DEF IInv, Untouched
    <3>3. Sound => archive.tree = archive.manifest.process_tree_sha256
      BY UntouchedIs
    <3> QED
      BY <2>1, <2>3, <2>5, <2>6, <3>1, <3>2, <3>3
         DEF Untouched, UntouchedBundleIsAccepted
  <2> QED
    BY <2>5, <2>7, <2>8 DEF IInv
<1> QED
  BY <1>1, <1>2

(* The index of the artifacts, if the manifest declares one. *)
LEMMA IndexInv ==
  ASSUME IInv, NoIndexDeclared \/ IndexAbsent \/ ReadIndex \/ IndexUnreadable
  PROVE  IInv'
<1>1. ASSUME replaced + altered = 0, manifest.artifacts_index_sha256 # None, PastManifest
      PROVE  Found("index") /\ archive.index.parses
             /\ archive.index = manifest.artifacts_index_sha256
  <2>1. manifest = archive.manifest
    BY <1>1 DEF IInv, Untouched
  <2> QED
    BY <1>1, <2>1, UntouchedIs DEF Found, Readable, Position
<1>2. CASE IndexUnreadable
  <2>1. PastManifest
    BY <1>2 DEF IndexUnreadable, Throws, Goto, PastManifest, PastEvents, PastTree
  <2>2. ~ (replaced + altered = 0)
    BY <1>1, <1>2, <2>1 DEF IndexUnreadable
  <2> QED
    BY <1>2, <2>2, ThrowsInv DEF IndexUnreadable
<1>3. CASE NoIndexDeclared \/ IndexAbsent \/ ReadIndex
  <2>1. /\ UNCHANGED << made, archive, replaced, altered, pin, exit, manifest >>
        /\ pc = "index" /\ exit = None
        /\ pc' \in {"files", "signature"}
    <3>1. CASE NoIndexDeclared \/ IndexAbsent
      BY <3>1, PassFrame DEF NoIndexDeclared, IndexAbsent
    <3>2. CASE ReadIndex
      <4>1. (IF archive.index.parses THEN "files" ELSE "signature") # "done"
        OBVIOUS
      <4> QED
        BY <3>2, <4>1, PassFrame DEF ReadIndex
    <3> QED
      BY <1>3, <3>1, <3>2
  <2>2. report \in Reports /\ seen \in Seens /\ expected \subseteq Files
    BY DEF IInv, Types
  <2>3. PastTree /\ PastManifest /\ ~ PastSignature'
    BY <2>1, ReaderAssumption
       DEF ReaderAssumption, PastManifest, PastEvents, PastTree, PastSignature
  <2>4. /\ report' \in Reports /\ seen' \in Seens /\ expected' \subseteq Files
        /\ UNCHANGED << report.integrity_ok, report.signature_present,
                        seen.manifest, seen.events, seen.tree >>
    <3>1. CASE NoIndexDeclared
      BY <2>2, <3>1 DEF NoIndexDeclared
    <3>2. CASE IndexAbsent
      BY <2>2, <3>2 DEF IndexAbsent, Reports
    <3>3. CASE ReadIndex
      <4>1. archive.index \in Indexes
        BY <3>3 DEF ReadIndex, Found, Readable, IInv, Types, Archives
      <4>2. archive.index.names \subseteq Files /\ archive.index.parses \in BOOLEAN
        BY <4>1 DEF Indexes
      <4>3. seen' = [seen EXCEPT !.index = archive.index] /\ expected' \subseteq Files
        BY <3>3, <4>2 DEF ReadIndex
      <4>4. report' = [report EXCEPT
              !.artifacts_index_ok = @ /\ archive.index = manifest.artifacts_index_sha256,
              !.artifacts_content_ok = @ /\ archive.index.parses]
        BY <3>3 DEF ReadIndex
      <4> QED
        BY <2>2, <4>1, <4>2, <4>3, <4>4 DEF Reports, Seens
    <3> QED
      BY <1>3, <3>1, <3>2, <3>3
  <2>5. Pass("index", pc')
    BY <2>1, <2>4 DEF Pass
  <2>6. /\ Types' /\ Genuine' /\ ManifestRead' /\ Accepted'
        /\ PastManifest /\ Sig' = Sig /\ exit # 0 /\ exit # 1
    BY <2>1, <2>5, PassInv
  <2>7. DigestsCompared'
    BY <2>1, <2>3, <2>4 DEF IInv, DigestsCompared, PastTree, PastEvents
  <2>8. SignatureChecked'
    BY <2>3 DEF SignatureChecked
  <2>9. IndexRead' /\ ArtifactsCompared'
    <3>1. CASE NoIndexDeclared
      BY <2>1, <2>6, <3>1 DEF NoIndexDeclared, Passes, Goto, IndexRead, ArtifactsCompared
    <3>2. CASE IndexAbsent
      <4>1. ~ report'.artifacts_index_ok /\ pc' = "signature"
        BY <2>2, <3>2 DEF IndexAbsent, Reports, Passes, Goto
      <4> QED
        BY <4>1 DEF IndexRead, ArtifactsCompared
    <3>3. CASE ReadIndex
      <4>1. archive.index \in Indexes /\ manifest.artifacts_index_sha256 # None
        BY <3>3 DEF ReadIndex, Found, Readable, IInv, Types, Archives
      <4>2. /\ seen'.index = archive.index
            /\ report'.artifacts_index_ok => archive.index = manifest.artifacts_index_sha256
            /\ report'.artifacts_content_ok => archive.index.parses
        BY <2>2, <3>3 DEF ReadIndex, Seens, Reports
      <4>3. CASE archive.index.parses
        <5>1. pc' = "files" /\ expected' = archive.index.names /\ ~ PastArtifacts'
          BY <2>1, <2>6, <3>3, <4>3 DEF ReadIndex, Passes, Goto, PastArtifacts, PastSignature
        <5> QED
          BY <2>1, <4>1, <4>2, <5>1 DEF IndexRead, ArtifactsCompared
      <4>4. CASE ~ archive.index.parses
        <5>1. pc' = "signature" /\ ~ report'.artifacts_content_ok
          BY <3>3, <4>2, <4>4 DEF ReadIndex, Passes, Goto
        <5> QED
          BY <5>1 DEF IndexRead, ArtifactsCompared
      <4> QED
        BY <4>3, <4>4
    <3> QED
      BY <1>3, <3>1, <3>2, <3>3
  <2>10. Untouched'
    <3> SUFFICES ASSUME replaced + altered = 0 PROVE Untouched'
      BY <2>1 DEF Untouched
    <3>1. (archive = Bundle(First))' /\ UNCHANGED Sound
      BY <2>1, StillAsWritten
    <3>2. /\ Sound => /\ report.artifacts_index_ok /\ report.artifacts_content_ok
                      /\ report.integrity_ok
          /\ manifest = archive.manifest /\ Sig = archive.sig
      BY <2>3 DEF IInv, Untouched, PastTree, PastEvents
    <3>3. /\ Sound => report'.artifacts_index_ok /\ report'.artifacts_content_ok
          /\ pc' = "files" => expected' = archive.index.names
      <4>1. CASE NoIndexDeclared
        BY <3>2, <4>1 DEF NoIndexDeclared, Passes, Goto
      <4>2. CASE IndexAbsent
        BY <1>1, <2>3, <4>2 DEF IndexAbsent, Absent, Found
      <4>3. CASE ReadIndex
        <5>1. archive.index.parses /\ archive.index = manifest.artifacts_index_sha256
          BY <1>1, <2>3, <4>3 DEF ReadIndex
        <5> QED
          BY <2>2, <3>2, <4>3, <5>1 DEF ReadIndex, Reports
      <4> QED
        BY <1>3, <4>1, <4>2, <4>3
    <3> QED
      BY <2>1, <2>3, <2>4, <2>6, <3>1, <3>2, <3>3
         DEF Untouched, UntouchedBundleIsAccepted
  <2> QED
    BY <2>6, <2>7, <2>8, <2>9, <2>10 DEF IInv
<1> QED
  BY <1>2, <1>3

(* The artifacts themselves. *)
LEMMA FilesInv ==
  ASSUME IInv, HashFiles \/ FilesUnreadable
  PROVE  IInv'
<1>1. CASE FilesUnreadable
  <2>1. ASSUME replaced + altered = 0 PROVE Excused
    BY <1>1, <2>1, UntouchedIs DEF FilesUnreadable
  <2> QED
    BY <1>1, <2>1, ThrowsInv DEF FilesUnreadable
<1>2. CASE HashFiles
  <2>1. /\ UNCHANGED << made, archive, replaced, altered, pin, exit, manifest, expected >>
        /\ pc = "files" /\ pc' = "signature" /\ exit = None
    BY <1>2, PassFrame DEF HashFiles
  <2> DEFINE Match ==
        /\ \A file \in archive.files : file.content = file.name /\ file.name \in expected
        /\ \A f \in expected : \E file \in archive.files : file.name = f
  <2>2. /\ report' = [report EXCEPT !.artifacts_content_ok = @ /\ Match]
        /\ seen' = [seen EXCEPT !.files = archive.files]
        /\ report \in Reports /\ seen \in Seens /\ expected \subseteq Files
        /\ archive.files \in SUBSET Entries
    BY <1>2 DEF HashFiles, IInv, Types, Archives
  <2>3. Match \in BOOLEAN
    OBVIOUS
  <2> HIDE DEF Match
  <2>4. /\ report' \in Reports /\ seen' \in Seens /\ seen'.files = archive.files
        /\ UNCHANGED << seen.manifest, seen.events, seen.tree, seen.index >>
        /\ report'.artifacts_content_ok <=> report.artifacts_content_ok /\ Match
        /\ UNCHANGED << report.integrity_ok, report.signature_present,
                        report.artifacts_index_ok >>
    BY <2>2, <2>3 DEF Reports, Seens
  <2>5. Pass("files", "signature")
    BY <2>1, <2>2, <2>4 DEF Pass
  <2>6. /\ Types' /\ Genuine' /\ ManifestRead' /\ Accepted'
        /\ PastManifest /\ Sig' = Sig /\ exit # 0 /\ exit # 1
    BY <2>5, PassInv
  <2>7. PastTree /\ PastEvents /\ PastArtifacts' /\ ~ PastSignature'
    BY <2>1, <2>6 DEF PastEvents, PastTree, PastArtifacts, PastSignature
  <2>8. DigestsCompared' /\ IndexRead' /\ SignatureChecked'
    BY <2>1, <2>4, <2>7 DEF IInv, DigestsCompared, IndexRead, SignatureChecked
  <2>9. ArtifactsCompared'
    BY <2>1, <2>2, <2>4 DEF IInv, IndexRead, ArtifactsCompared, Match
  <2>10. Untouched'
    <3> SUFFICES ASSUME replaced + altered = 0 PROVE Untouched'
      BY <2>1 DEF Untouched
    <3>1. (archive = Bundle(First))' /\ UNCHANGED Sound
      BY <2>1, StillAsWritten
    <3>2. /\ Sound => /\ report.artifacts_index_ok /\ report.artifacts_content_ok
                      /\ report.integrity_ok
          /\ manifest = archive.manifest /\ Sig = archive.sig
          /\ expected = archive.index.names
      BY <2>1, <2>6, <2>7 DEF IInv, Untouched
    <3>3. manifest.artifacts_index_sha256 # None
      BY <2>1 DEF IInv, IndexRead
    <3>4. ASSUME Sound PROVE Match
      <4>1. archive.index # None
        BY <3>2, <3>3, UntouchedIs
      <4>2. archive.files = { [name |-> f, content |-> f] : f \in expected }
        BY <3>2, <3>4, <4>1, UntouchedIs
      <4>3. \A file \in archive.files : file.content = file.name /\ file.name \in expected
        BY <4>2
      <4>4. ASSUME NEW f \in expected PROVE \E file \in archive.files : file.name = f
        <5>1. [name |-> f, content |-> f] \in archive.files
          BY <4>2
        <5> QED
          BY <5>1
      <4> QED
        BY <4>3, <4>4 DEF Match
    <3> QED
      BY <2>1, <2>4, <2>6, <2>7, <3>1, <3>2, <3>4
         DEF Untouched, UntouchedBundleIsAccepted
  <2> QED
    BY <2>6, <2>8, <2>9, <2>10 DEF IInv
<1> QED
  BY <1>1, <1>2

(* The signature is verified over the manifest the constructor read. *)
LEMMA SignatureInv ==
  ASSUME IInv, CheckSignature
  PROVE  IInv'
<1>1. /\ UNCHANGED << made, archive, replaced, altered, pin, exit, manifest, expected, seen >>
      /\ pc = "signature" /\ pc' = "verdict" /\ exit = None
  BY PassFrame DEF CheckSignature
<1> DEFINE Verified ==
      /\ report.signature_present /\ Sig.valid
      /\ Sig.over = SignedPayload(Sig.scope, manifest)
<1>2. /\ report' = [report EXCEPT !.signature_ok = Verified]
      /\ report \in Reports /\ seen \in Seens /\ expected \subseteq Files
  BY DEF CheckSignature, IInv, Types
<1>3. PastManifest /\ PastEvents /\ PastTree /\ PastArtifacts /\ PastSignature'
  BY <1>1 DEF PastManifest, PastEvents, PastTree, PastArtifacts, PastSignature
<1>4. report.signature_present <=> Sig # None
  BY <1>3 DEF IInv, ManifestRead
<1>5. Verified \in BOOLEAN
  <2>1. seen.manifest \in Reads
    BY <1>3 DEF IInv, ManifestRead
  <2>2. Sig # None => Sig.valid \in BOOLEAN
    BY <2>1 DEF Sig, Reads, Signatures
  <2> QED
    BY <1>4, <2>2
<1> HIDE DEF Verified
<1>6. /\ report' \in Reports
      /\ report'.signature_ok <=> Verified
      /\ UNCHANGED << report.integrity_ok, report.signature_present,
                      report.artifacts_index_ok, report.artifacts_content_ok >>
  BY <1>2, <1>5 DEF Reports
<1>7. Pass("signature", "verdict")
  BY <1>1, <1>2, <1>6 DEF Pass
<1>8. /\ Types' /\ Genuine' /\ ManifestRead' /\ Accepted'
      /\ Sig' = Sig /\ exit # 0 /\ exit # 1
  BY <1>7, PassInv
<1>9. DigestsCompared' /\ IndexRead' /\ ArtifactsCompared'
  BY <1>1, <1>3, <1>6 DEF IInv, DigestsCompared, IndexRead, ArtifactsCompared
<1>10. SignatureChecked'
  BY <1>1, <1>6, <1>8 DEF SignatureChecked, Verified
<1>11. Untouched'
  <2> SUFFICES ASSUME replaced + altered = 0 PROVE Untouched'
    BY <1>1 DEF Untouched
  <2>1. (archive = Bundle(First))' /\ UNCHANGED Sound
    BY <1>1, StillAsWritten
  <2>2. /\ Sound => /\ report.artifacts_index_ok /\ report.artifacts_content_ok
                    /\ report.integrity_ok
        /\ manifest = archive.manifest /\ Sig = archive.sig
    BY <1>3 DEF IInv, Untouched
  <2>3. report.signature_present => Verified
    <3>1. archive.sig = SigOf(First) /\ archive.manifest = Unsigned(First)
      BY UntouchedIs
    <3> QED
      BY <1>4, <2>2, <3>1 DEF Verified, SigOf, Signed, SignedPayload
  <2> QED
    BY <1>1, <1>3, <1>6, <1>8, <2>1, <2>2, <2>3
       DEF Untouched, UntouchedBundleIsAccepted
<1> QED
  BY <1>8, <1>9, <1>10, <1>11 DEF IInv

(* The verdict adds nothing to the findings. *)
LEMMA VerdictInv ==
  ASSUME IInv, Verdict
  PROVE  IInv'
<1>1. /\ UNCHANGED << made, archive, replaced, altered, pin, manifest, report, expected, seen >>
      /\ pc = "verdict" /\ pc' = "done" /\ exit' \in {0, 1} /\ exit # 0 /\ exit # 1
      /\ exit' = 0 <=> Ok(report) /\ PinnedOk
  BY ReaderAssumption DEF ReaderAssumption, IInv, Types, Verdict, Goto
<1>2. /\ PastManifest /\ PastEvents /\ PastTree /\ PastArtifacts /\ PastSignature
      /\ Sig' = Sig /\ Ok(report)' = Ok(report) /\ PinnedOk' = PinnedOk
  BY <1>1 DEF PastManifest, PastEvents, PastTree, PastArtifacts, PastSignature, Sig, Ok,
              PinnedOk
<1>3. Types'
  BY <1>1 DEF IInv, Types
<1>4. Genuine'
  BY <1>1, <1>2, MadeFrame DEF IInv, Genuine, MadeByCapture
<1>5. ManifestRead' /\ DigestsCompared' /\ IndexRead'
  BY <1>1, <1>2 DEF IInv, ManifestRead, DigestsCompared, IndexRead
<1>6. ArtifactsCompared' /\ SignatureChecked' /\ Accepted'
  BY <1>1, <1>2 DEF IInv, ArtifactsCompared, SignatureChecked, Accepted
<1>7. Untouched'
  <2> SUFFICES ASSUME replaced + altered = 0 PROVE Untouched'
    BY <1>1 DEF Untouched
  <2>1. (archive = Bundle(First))' /\ UNCHANGED Sound
    BY <1>1, StillAsWritten
  <2>2. /\ Sound => /\ report.artifacts_index_ok /\ report.artifacts_content_ok
                    /\ report.integrity_ok
        /\ manifest = archive.manifest /\ Sig = archive.sig
        /\ report.signature_present => report.signature_ok
    BY <1>2 DEF IInv, Untouched
  <2>3. exit' = 1 => Excused
    <3>1. (Sound => Ok(report)) /\ (report.signature_present <=> Sig # None)
      BY <1>2, <2>2 DEF Ok, IInv, ManifestRead
    <3> QED
      BY <1>1, <2>2, <3>1 DEF PinnedOk, Excused
  <2> QED
    BY <1>1, <1>2, <2>1, <2>2, <2>3 DEF Untouched, UntouchedBundleIsAccepted, Excused, Sound
<1> QED
  BY <1>3, <1>4, <1>5, <1>6, <1>7 DEF IInv

(* Every step keeps the invariant. *)
LEMMA NextInv == IInv /\ [Next]_vars => IInv'
<1> SUFFICES ASSUME IInv, [Next]_vars PROVE IInv'
  OBVIOUS
<1>1. CASE UNCHANGED vars
  <2>1. /\ UNCHANGED << PastManifest, PastEvents, PastTree, PastArtifacts, PastSignature, Sig >>
        /\ UNCHANGED << Ok(report), PinnedOk >>
    BY <1>1 DEF vars, PastManifest, PastEvents, PastTree, PastArtifacts, PastSignature, Sig,
                Ok, PinnedOk
  <2>2. Types' /\ ManifestRead' /\ DigestsCompared' /\ IndexRead'
    BY <1>1, <2>1 DEF vars, IInv, Types, ManifestRead, DigestsCompared, IndexRead
  <2>3. ArtifactsCompared' /\ SignatureChecked' /\ Accepted'
    BY <1>1, <2>1 DEF vars, IInv, ArtifactsCompared, SignatureChecked, Accepted
  <2>4. Genuine'
    BY <1>1, <2>1, MadeFrame DEF vars, IInv, Genuine, MadeByCapture
  <2>5. Untouched'
    BY <1>1, <2>1, MadeFrame, ReaderAssumption
       DEF ReaderAssumption, vars, IInv, Untouched, UntouchedBundleIsAccepted, Sound
  <2> QED
    BY <2>2, <2>3, <2>4, <2>5 DEF IInv
<1>2. CASE Next
  BY <1>2, PathInv, ManifestInv, EventsInv, TreeInv, IndexInv, FilesInv, SignatureInv,
     VerdictInv DEF Next
<1> QED
  BY <1>1, <1>2

(* The inductive invariant holds whenever and whatever is renamed over or  *)
(* written into the file.                                                  *)
THEOREM Invariant == Spec => []IInv
<1>1. IInv /\ [Next]_vars => IInv'
  BY NextInv
<1> QED
  BY InitInv, <1>1, PTL DEF Spec

(* What vishaya verify accepts under a signature is no mixture: all that   *)
(* was read is what one manifest names, which one key signed; and it is a  *)
(* capture's if the key is no stranger's (reader.cpp verify; commands.cpp).*)
THEOREM OneSignerIsVerified == Spec => []VerifiedIsOneSigners
<1>1. IInv => VerifiedIsOneSigners
  <2> DEFINE m == seen.manifest.fields
             whole == Sig.scope = "manifest-v1"
  <2> SUFFICES ASSUME IInv, exit = 0, report.signature_present \/ pin # None
               PROVE  /\ Sig # None /\ (pin # None => Sig.key = pin)
                      /\ seen.events = m.events_sha256 /\ seen.tree = m.process_tree_sha256
                      /\ m.artifacts_index_sha256 # None =>
                           /\ seen.index = m.artifacts_index_sha256
                           /\ seen.files = { [name |-> f, content |-> f] : f \in seen.index.names }
                      /\ Sig.key \notin OtherKeys =>
                           \E c \in Captures :
                             /\ made[c].key = Sig.key
                             /\ TwoHashes(m) = TwoHashes(Unsigned(c))
                             /\ whole => m = Unsigned(c)
    BY DEF VerifiedIsOneSigners
  <2>1. PastManifest /\ PastEvents /\ PastTree /\ PastArtifacts /\ PastSignature
    BY DEF PastManifest, PastEvents, PastTree, PastArtifacts, PastSignature
  <2>2. /\ report.signature_present /\ report.signature_ok /\ report.integrity_ok
        /\ report.artifacts_index_ok /\ report.artifacts_content_ok
        /\ pin # None => Sig.key = pin
    BY DEF IInv, Accepted, Ok, PinnedOk
  <2>3. /\ Sig # None /\ Sig.valid /\ Sig.over = SignedPayload(Sig.scope, manifest)
        /\ manifest = m /\ m \in Manifests
    BY <2>1, <2>2 DEF IInv, ManifestRead, SignatureChecked, Reads
  <2>4. seen.events = m.events_sha256 /\ seen.tree = m.process_tree_sha256
    BY <2>1, <2>2, <2>3 DEF IInv, DigestsCompared
  <2>5. ASSUME m.artifacts_index_sha256 # None
        PROVE  /\ seen.index = m.artifacts_index_sha256
               /\ seen.files = { [name |-> f, content |-> f] : f \in seen.index.names }
    <3>1. /\ seen.index = m.artifacts_index_sha256 /\ seen.files \in SUBSET Entries
          /\ \A file \in seen.files : file.content = file.name /\ file.name \in seen.index.names
          /\ \A f \in seen.index.names : \E file \in seen.files : file.name = f
      BY <2>1, <2>2, <2>3, <2>5 DEF IInv, ArtifactsCompared
    <3>2. \A file \in seen.files : file = [name |-> file.name, content |-> file.name]
      BY <3>1 DEF Entries
    <3>3. \A f \in seen.index.names : [name |-> f, content |-> f] \in seen.files
      BY <3>1, <3>2
    <3> QED
      BY <3>1, <3>2, <3>3
  <2>6. ASSUME Sig.key \notin OtherKeys
        PROVE  \E c \in Captures :
                 /\ made[c].key = Sig.key
                 /\ TwoHashes(m) = TwoHashes(Unsigned(c))
                 /\ whole => m = Unsigned(c)
    <3>1. PICK c \in Captures : made[c].key # None /\ Sig = SigOf(c)
      BY <2>1, <2>3, <2>6 DEF IInv, Genuine, MadeByCapture
    <3>2. /\ Sig.scope = made[c].scope /\ Sig.key = made[c].key
          /\ Sig.over = IF made[c].scope = "manifest-v1" THEN Canonical(Unsigned(c))
                        ELSE TwoHashes(Unsigned(c))
      BY <3>1 DEF SigOf, Signed
    <3>3. Unsigned(c) \in Manifests
      BY BundleIs DEF IInv, Types
    <3>4. TwoHashes(m) = TwoHashes(Unsigned(c))
      BY <2>3, <3>2 DEF SignedPayload, Canonical, TwoHashes
    <3>5. whole => Canonical(m) = Canonical(Unsigned(c))
      BY <2>3, <3>2 DEF SignedPayload
    <3>6. whole => m = Unsigned(c)
      BY <2>3, <3>3, <3>5 DEF Canonical, Manifests
    <3> QED
      BY <3>2, <3>4, <3>6
  <2> QED
    BY <2>2, <2>3, <2>4, <2>5, <2>6
<1> QED
  BY <1>1, Invariant, PTL

(* A bundle nobody touched since it was written verifies, unless the       *)
(* reader is too old, its process tree is too big, the pinned key is not   *)
(* the signer's, or its writer failed unseen (reader.cpp verify).          *)
THEOREM UntouchedIsAccepted == Spec => []UntouchedBundleIsAccepted
<1>1. IInv => UntouchedBundleIsAccepted
  BY DEF IInv, Untouched, UntouchedBundleIsAccepted
<1> QED
  BY <1>1, Invariant, PTL
=============================================================================
