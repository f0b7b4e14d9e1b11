----------------------------- MODULE SigningKey -----------------------------
(***************************************************************************)
(* The signing key of a user (bundle/sign.cpp): each capture loads the key *)
(* file or, when there is none, generates a key and stores it under        *)
(* O_EXCL.  Captures of one user meet here and nowhere else.  A file is    *)
(* known by the capture that created it, and so is a key.  Signatures are  *)
(* abstract: a bundle is signed with a key or not at all.                  *)
(***************************************************************************)
EXTENDS Naturals

CONSTANTS
  Captures,   \* the captures of one user, each of which signs one bundle
  KeyDirs,    \* directories above the key file that may have to be made
  None        \* no file, no key, no signature

ASSUME SigningAssumption == None \notin Captures /\ KeyDirs \in Nat \ {0}

VARIABLES
  dirs,       \* how many of the directories exist
  keyFile,    \* the file at the key path, or None
  content,    \* what the file each capture created holds
  stored,     \* keyFile and its content are on disk, not only in memory
  pc, level,  \* where each capture is, and at which directory
  held,       \* the file it has open for reading
  key,        \* the key it will sign with; None: none, or one that does not parse
  signer,     \* the key of its bundle
  failed,     \* history: captures one of whose own calls failed
  killed,     \* history: a capture was killed or the power was lost
  powerLost,  \* history: the power was lost
  settled     \* history: captures that began with the key settled

vars == << dirs, keyFile, content, stored, pc, level, held, key, signer,
           failed, killed, powerLost, settled >>
disk == << dirs, keyFile, content, stored >>
capture == << level, held, key, signer >>
history == << failed, killed, powerLost, settled >>

Steps == {"idle", "load", "read", "dirs", "mkdir", "generate", "create",
          "write", "unlink", "sign", "done", "killed"}
AtWork(c) == pc[c] \notin {"idle", "done", "killed"}

Init ==
  /\ dirs \in 0 .. KeyDirs
  /\ keyFile = None /\ stored = FALSE
  /\ content = [c \in Captures |-> "none"]
  /\ pc = [c \in Captures |-> "idle"]
  /\ level = [c \in Captures |-> 1]
  /\ held = [c \in Captures |-> None]
  /\ key = [c \in Captures |-> None]
  /\ signer = [c \in Captures |-> None]
  /\ failed = {} /\ killed = FALSE /\ powerLost = FALSE /\ settled = {}

GoesTo(c, step) == pc' = [pc EXCEPT ![c] = step]

-----------------------------------------------------------------------------
(* load_or_generate_signing_key: the fast path.                            *)

(* The key is settled: a capture has signed, none is at work, none failed  *)
(* and none was killed.                                                    *)
Settled ==
  /\ \E d \in Captures : signer[d] # None
  /\ \A d \in Captures : ~ AtWork(d)
  /\ failed = {} /\ ~ killed

Begin(c) ==
  /\ pc[c] = "idle"
  /\ GoesTo(c, "load")
  /\ settled' = IF Settled THEN settled \union {c} ELSE settled
  /\ UNCHANGED << disk, capture, failed, killed, powerLost >>

(* The capture goes on without a key, and its bundle stays unsigned.       *)
GivesUp(c) == GoesTo(c, "done") /\ UNCHANGED << disk, capture >>

(* One of the capture's own calls fails, whatever the others do.           *)
OwnFailure(c) == failed' = failed \union {c} /\ UNCHANGED << killed, powerLost, settled >>

HomeUnset(c) == pc[c] = "load" /\ GivesUp(c) /\ OwnFailure(c)

OpenKeyFile(c) ==
  /\ pc[c] = "load"
  /\ held' = [held EXCEPT ![c] = keyFile]
  /\ GoesTo(c, IF keyFile = None THEN "dirs" ELSE "read")
  /\ UNCHANGED << disk, level, key, signer, history >>

(* Anything but an empty file counts as the key.                           *)
ReadKeyFile(c) ==
  /\ pc[c] = "read"
  /\ \/ content[held[c]] = "empty" /\ GoesTo(c, "dirs") /\ UNCHANGED key
     \/ content[held[c]] = "part" /\ GoesTo(c, "sign") /\ UNCHANGED key
     \/ content[held[c]] = "whole" /\ GoesTo(c, "sign")
        /\ key' = [key EXCEPT ![c] = held[c]]
  /\ UNCHANGED << disk, level, held, signer, history >>

(* A key file that does not open, or gives nothing when it is read, counts *)
(* as none.                                                                *)
ReadFails(c) ==
  /\ \/ pc[c] = "load" /\ keyFile # None
     \/ pc[c] = "read"
  /\ GoesTo(c, "dirs")
  /\ OwnFailure(c)
  /\ UNCHANGED << disk, capture >>

-----------------------------------------------------------------------------
(* ensure_key_dir: stat and mkdir are apart, and a directory made by       *)
(* another capture in between makes mkdir fail.                            *)
NextDir(c) ==
  IF level[c] = KeyDirs THEN GoesTo(c, "generate") /\ UNCHANGED level
  ELSE GoesTo(c, "dirs") /\ level' = [level EXCEPT ![c] = @ + 1]

StatDir(c) ==
  /\ pc[c] = "dirs"
  /\ IF level[c] <= dirs THEN NextDir(c) ELSE GoesTo(c, "mkdir") /\ UNCHANGED level
  /\ UNCHANGED << disk, held, key, signer, history >>

MakeDir(c) ==
  /\ pc[c] = "mkdir" /\ dirs < level[c]
  /\ dirs' = level[c]
  /\ NextDir(c)
  /\ UNCHANGED << keyFile, content, stored, held, key, signer, history >>

DirExistsAlready(c) ==
  /\ pc[c] = "mkdir" /\ level[c] <= dirs
  /\ GivesUp(c)
  /\ UNCHANGED history

MakeDirFails(c) == pc[c] = "mkdir" /\ dirs < level[c] /\ GivesUp(c) /\ OwnFailure(c)

-----------------------------------------------------------------------------
(* generate_and_save_key. *)
Generate(c) ==
  /\ pc[c] = "generate"
  /\ key' = [key EXCEPT ![c] = c]
  /\ GoesTo(c, "create")
  /\ UNCHANGED << disk, level, held, signer, history >>

GenerateFails(c) == pc[c] = "generate" /\ GivesUp(c) /\ OwnFailure(c)

(* Variants of the next action, without O_EXCL and without O_CREAT.  Never *)
(* used.                                                                   *)
CreateReplacing(c) ==
  /\ pc[c] = "create"
  /\ keyFile' = c /\ stored' = FALSE
  /\ content' = [content EXCEPT ![c] = "empty"]
  /\ GoesTo(c, "write")
  /\ UNCHANGED << dirs, capture, history >>
CreateNothing(c) ==
  /\ pc[c] = "create" /\ keyFile = None
  /\ GoesTo(c, "sign")
  /\ UNCHANGED << disk, capture, history >>

Create(c) ==
  /\ pc[c] = "create" /\ keyFile = None
  /\ keyFile' = c /\ stored' = FALSE
  /\ content' = [content EXCEPT ![c] = "empty"]
  /\ GoesTo(c, "write")
  /\ UNCHANGED << dirs, capture, history >>

(* There is a file: the key stays in memory, signs one bundle and is gone. *)
LosesRace(c) ==
  /\ pc[c] = "create" /\ keyFile # None
  /\ GoesTo(c, "sign")
  /\ UNCHANGED << disk, capture, history >>

CreateFails(c) ==
  /\ pc[c] = "create" /\ keyFile = None
  /\ GoesTo(c, "sign")
  /\ OwnFailure(c)
  /\ UNCHANGED << disk, capture >>

WriteKey(c) ==
  /\ pc[c] = "write"
  /\ content' = [content EXCEPT ![c] = "whole"]
  /\ GoesTo(c, "sign")
  /\ UNCHANGED << dirs, keyFile, stored, capture, history >>

(* Variant of the next action that leaves the short file.  Never used.     *)
WriteShortAndLeave(c) ==
  /\ pc[c] = "write"
  /\ \E some \in {"empty", "part"} : content' = [content EXCEPT ![c] = some]
  /\ GoesTo(c, "sign")
  /\ OwnFailure(c)
  /\ UNCHANGED << dirs, keyFile, stored, capture >>

WriteShort(c) ==
  /\ pc[c] = "write"
  /\ \E some \in {"empty", "part"} : content' = [content EXCEPT ![c] = some]
  /\ GoesTo(c, "unlink")
  /\ OwnFailure(c)
  /\ UNCHANGED << dirs, keyFile, stored, capture >>

Unlink(c) ==
  /\ pc[c] = "unlink"
  /\ keyFile' = None
  /\ GoesTo(c, "sign")
  /\ UNCHANGED << dirs, content, stored, capture, history >>

(* sign_data: a key that does not parse gives no signature.                *)
Sign(c) ==
  /\ pc[c] = "sign"
  /\ signer' = [signer EXCEPT ![c] = key[c]]
  /\ GoesTo(c, "done")
  /\ UNCHANGED << disk, level, held, key, history >>

-----------------------------------------------------------------------------
(* The machine.  The key file is never synced: until the kernel has        *)
(* it back, a loss of power may leave it empty or take it away.            *)
Killed(c) ==
  /\ AtWork(c)
  /\ GoesTo(c, "killed")
  /\ killed' = TRUE
  /\ UNCHANGED << disk, capture, failed, powerLost, settled >>

Writeback ==
  /\ keyFile # None /\ content[keyFile] = "whole" /\ ~ stored
  /\ stored' = TRUE
  /\ UNCHANGED << dirs, keyFile, content, pc, capture, history >>

PowerLoss ==
  /\ pc' = [c \in Captures |-> IF AtWork(c) THEN "killed" ELSE pc[c]]
  /\ \/ UNCHANGED << dirs, keyFile, content >>
     \/ /\ keyFile # None /\ ~ stored
        /\ content' = [content EXCEPT ![keyFile] = "empty"]
        /\ UNCHANGED << dirs, keyFile >>
     \/ /\ ~ stored
        /\ keyFile' = None
        /\ dirs' \in 0 .. dirs
        /\ UNCHANGED content
  /\ stored' = TRUE
  /\ killed' = TRUE /\ powerLost' = TRUE
  /\ UNCHANGED << capture, failed, settled >>

LoadOrGenerate(c) ==
  \/ Begin(c) \/ HomeUnset(c) \/ OpenKeyFile(c) \/ ReadKeyFile(c) \/ ReadFails(c)
  \/ StatDir(c) \/ MakeDir(c) \/ DirExistsAlready(c) \/ MakeDirFails(c)
  \/ Generate(c) \/ GenerateFails(c)
  \/ Create(c) \/ LosesRace(c) \/ CreateFails(c)
  \/ WriteKey(c) \/ WriteShort(c) \/ Unlink(c)
  \/ Sign(c)

Next == (\E c \in Captures : LoadOrGenerate(c) \/ Killed(c)) \/ Writeback \/ PowerLoss

Spec == Init /\ [][Next]_vars

-----------------------------------------------------------------------------
(* Types.  Directories are made in order and each at most once.            *)
TypeOK ==
  /\ dirs \in 0 .. KeyDirs
  /\ keyFile \in Captures \union {None}
  /\ content \in [Captures -> {"none", "empty", "part", "whole"}]
  /\ stored \in BOOLEAN
  /\ pc \in [Captures -> Steps]
  /\ level \in [Captures -> 1 .. KeyDirs]
  /\ held \in [Captures -> Captures \union {None}]
  /\ key \in [Captures -> Captures \union {None}]
  /\ signer \in [Captures -> Captures \union {None}]
  /\ failed \subseteq Captures /\ settled \subseteq Captures
  /\ killed \in BOOLEAN /\ powerLost \in BOOLEAN

(* A key that was stored whole is the user's identity: no capture replaces *)
(* it, truncates it or removes it, however many run into each other        *)
(* (sign.cpp:116-126); only a loss of power before the kernel has written  *)
(* it back can take it away.                                               *)
StoredKeyStays ==
  [][ keyFile # None /\ content[keyFile] = "whole"
      => \/ keyFile' = keyFile /\ content'[keyFile] = "whole"
         \/ PowerLoss /\ ~ stored ]_vars

(* A key file nobody can use (empty, or cut short) is one its creator is   *)
(* about to finish or remove, or the mark of a kill or a loss of power:    *)
(* failures that the process survives do not leave one (sign.cpp:118-126). *)
UnusableFileExplained ==
  keyFile # None /\ content[keyFile] # "whole"
    => pc[keyFile] \in {"write", "unlink"} \/ killed

(* Once a capture has signed and all have ended without a failure, a       *)
(* capture that begins signs with the stored key, whoever begins beside it *)
(* and whatever fails or dies there, as long as the power stays on         *)
(* (sign.cpp:135-151).                                                     *)
SettledKeyIsUsed ==
  \A c \in settled \ failed :
    pc[c] = "done" /\ ~ powerLost => keyFile # None /\ signer[c] = keyFile
=============================================================================
