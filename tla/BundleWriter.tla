---------------------------- MODULE BundleWriter ----------------------------
(***************************************************************************)
(* write_bundle: the archive is written to <path>.tmp, synced, renamed to  *)
(* <path>, and the directory synced.  Every step can fail, the process can *)
(* be killed and the power lost between any two of them; a capture to the  *)
(* same path may have left its .tmp behind, or be running.                 *)
(*                                                                         *)
(* The files are modelled by inodes, so that two writers of one .tmp, and  *)
(* a rename persisted before the data, show.                               *)
(***************************************************************************)
EXTENDS Naturals, FiniteSets

CONSTANTS
  Writers,   \* the runs of write_bundle with this output path
  Entries,   \* the number of pieces an archive is written in
  Doubtful,  \* the pieces that can come out wrong without the run's noticing
  Old, None  \* the bundle that was there before; no file, no data

ASSUME WriterAssumption ==
  /\ Entries \in Nat \ {0} /\ Doubtful \subseteq 1 .. Entries
  /\ Old \notin Writers /\ None \notin Writers \union {Old}

Inodes == Writers \union {Old}
Pieces == 1 .. Entries

(* Whose data a piece is, and whether it is what it should be.             *)
Data == [by : Inodes \union {None}, sound : BOOLEAN]
Intact(run) == [by |-> run, sound |-> TRUE]
NoData == [by |-> None, sound |-> FALSE]
Hole == [piece \in Pieces |-> NoData]

(* A piece of a run's, sound if the run could be sure of it; and an        *)
(* archive that has all of them.                                           *)
PieceOf(archive, piece, run) ==
  archive[piece].by = run /\ (piece \notin Doubtful => archive[piece].sound)
Complete(archive, run) == \A piece \in Pieces : PieceOf(archive, piece, run)

VARIABLES
  pc,           \* where each run is in write_bundle
  next,         \* the piece each run writes next
  fd,           \* the inode each run's archive is open on
  dir,          \* the inodes at "tmp" and "final", as every process sees them
  diskDir,      \* ... as they are on disk
  parent,       \* the output directory: "absent", "made" by a run, or "stable", on disk
  content,      \* for each inode, the data in each piece
  diskContent,  \* ... what of it is surely on disk
  meetings      \* history: the runs that were at work while another was ("met"), and
                \* for each inode the run that renamed it to the path ("renamer")

writerVars == << pc, next, fd, dir, diskDir, parent, content, diskContent, meetings >>

Working == {"opening", "writing", "closing", "syncing", "renaming", "syncingDir"}
Active(w) == pc[w] \in {"preparing"} \union Working

WriterInit ==
  /\ pc = [w \in Writers |-> "idle"]
  /\ next = [w \in Writers |-> 1]
  /\ fd = [w \in Writers |-> None]
  /\ parent \in {"absent", "stable"}
  /\ dir \in [tmp : {None}, final : {Old, None}]
  /\ parent = "absent" => dir.final = None
  /\ diskDir = dir
  /\ content = [i \in Inodes |-> IF i = Old THEN [piece \in Pieces |-> Intact(Old)] ELSE Hole]
  /\ diskContent = content
  /\ meetings = [met |-> {}, renamer |-> [i \in Inodes |-> Old]]

-----------------------------------------------------------------------------
Goto(w, from, to) == pc[w] = from /\ pc' = [pc EXCEPT ![w] = to]

(* Every failure from opening the archive up to the rename frees the       *)
(* archive and unlinks <path>.tmp, by name.                                *)
Fails(w, at) ==
  /\ Goto(w, at, "failed")
  /\ fd' = [fd EXCEPT ![w] = None]
  /\ dir' = [dir EXCEPT !.tmp = None]
  /\ UNCHANGED << next, diskDir, parent, content, diskContent, meetings >>

Start(w) ==
  /\ Goto(w, "idle", "preparing")
  /\ LET others == { other \in Writers : Active(other) }
     IN  meetings' = IF others = {} THEN meetings
                     ELSE [meetings EXCEPT !.met = @ \union others \union {w}]
  /\ UNCHANGED << next, fd, dir, diskDir, parent, content, diskContent >>

(* The output directory is made, with those above it, where it is missing. *)
(* Process tree, hashes, signature and manifest are made in the scratch    *)
(* directory; a throw leaves the output path alone.                        *)
Prepare(w) ==
  /\ \/ /\ Goto(w, "preparing", "opening")
        /\ parent' = IF parent = "absent" THEN "made" ELSE parent
     \/ /\ Goto(w, "preparing", "failed")
        /\ parent' = parent \/ (parent = "absent" /\ parent' = "made")
  /\ UNCHANGED << next, fd, dir, diskDir, content, diskContent, meetings >>

(* archive_write_open_filename creates <path>.tmp, or truncates the one    *)
(* that is there, whoever made it.                                         *)
OpenArchive(w) ==
  /\ Goto(w, "opening", "writing")
  /\ LET inode == IF dir.tmp = None THEN w ELSE dir.tmp
     IN  /\ dir' = [dir EXCEPT !.tmp = inode]
         /\ fd' = [fd EXCEPT ![w] = inode]
         /\ content' = [content EXCEPT ![inode] = Hole]
  /\ UNCHANGED << next, diskDir, parent, diskContent, meetings >>

(* Variant of the next action that does not look at what the write         *)
(* returned; never used.                                                   *)
WriteEntryUnchecked(w) ==
  /\ pc[w] = "writing"
  /\ \/ content' = [content EXCEPT ![fd[w]][next[w]] = Intact(w)]
     \/ UNCHANGED content
  /\ next' = [next EXCEPT ![w] = @ + 1]
  /\ pc' = [pc EXCEPT ![w] = IF next[w] = Entries THEN "closing" ELSE "writing"]
  /\ UNCHANGED << fd, dir, diskDir, parent, diskContent, meetings >>

(* manifest, events, process tree, artifacts, in this order.  A failed     *)
(* write throws.  A failed read of the scratch file an entry is copied     *)
(* from ends the copy in silence, and libarchive fills the entry with      *)
(* zeros; and the digests in the manifest are wrong when the scratch file  *)
(* they were taken of was not all written or not all read, which nothing   *)
(* tells either.                                                           *)
WriteEntry(w) ==
  /\ pc[w] = "writing"
  /\ \E sound \in BOOLEAN :
       /\ sound \/ next[w] \in Doubtful
       /\ content' = [content EXCEPT ![fd[w]][next[w]] = [by |-> w, sound |-> sound]]
  /\ next' = [next EXCEPT ![w] = @ + 1]
  /\ pc' = [pc EXCEPT ![w] = IF next[w] = Entries THEN "closing" ELSE "writing"]
  /\ UNCHANGED << fd, dir, diskDir, parent, diskContent, meetings >>

CloseArchive(w) ==
  /\ Goto(w, "closing", "syncing")
  /\ fd' = [fd EXCEPT ![w] = None]
  /\ UNCHANGED << next, dir, diskDir, parent, content, diskContent, meetings >>

(* Variant of the next action without the fsync; never used. *)
SyncNothing(w) ==
  /\ Goto(w, "syncing", "renaming")
  /\ UNCHANGED << next, fd, dir, diskDir, parent, content, diskContent, meetings >>

(* The .tmp is opened again, by name, and synced. *)
SyncTmp(w) ==
  /\ Goto(w, "syncing", "renaming")
  /\ dir.tmp # None
  /\ diskContent' = [diskContent EXCEPT ![dir.tmp] = content[dir.tmp]]
  /\ UNCHANGED << next, fd, dir, diskDir, parent, content, meetings >>

Rename(w) ==
  /\ Goto(w, "renaming", "syncingDir")
  /\ dir.tmp # None
  /\ dir' = [tmp |-> None, final |-> dir.tmp]
  /\ meetings' = [meetings EXCEPT !.renamer[dir.tmp] = w]
  /\ UNCHANGED << next, fd, diskDir, parent, content, diskContent >>

(* Variant of the next action that leaves the rename to the kernel; never used. *)
SyncDirSkipped(w) ==
  /\ Goto(w, "syncingDir", "durable")
  /\ UNCHANGED << next, fd, dir, diskDir, parent, content, diskContent, meetings >>

(* The directory is synced; a failed fsync is a warning only, a failed     *)
(* open of the directory not even that.  Its own entry in the directory    *)
(* above is not: a directory that had to be made is on disk when the       *)
(* kernel writes it there.                                                 *)
SyncDir(w) ==
  /\ \/ Goto(w, "syncingDir", "durable") /\ diskDir' = dir
     \/ Goto(w, "syncingDir", "done") /\ UNCHANGED diskDir
  /\ UNCHANGED << next, fd, dir, parent, content, diskContent, meetings >>

-----------------------------------------------------------------------------
(* The kernel writes the directory back at any time, and its own entry. *)
Writeback ==
  /\ \/ diskDir # dir /\ diskDir' = dir /\ UNCHANGED parent
     \/ parent = "made" /\ parent' = "stable" /\ UNCHANGED diskDir
  /\ UNCHANGED << pc, next, fd, dir, content, diskContent, meetings >>

Killed(w) ==
  /\ Active(w)
  /\ pc' = [pc EXCEPT ![w] = "killed"]
  /\ fd' = [fd EXCEPT ![w] = None]
  /\ UNCHANGED << next, dir, diskDir, parent, content, diskContent, meetings >>

(* The directory is what the disk had, and gone if it was not on disk; of  *)
(* the data that was not synced, a file may have lost any.                 *)
PowerLoss ==
  /\ \E w \in Writers : pc[w] # "idle" /\ pc[w] # "killed"
  /\ pc' = [w \in Writers |-> IF pc[w] = "idle" THEN "idle" ELSE "killed"]
  /\ fd' = [w \in Writers |-> None]
  /\ parent' = IF parent = "made" THEN "absent" ELSE parent
  /\ diskDir' = IF parent = "stable" THEN diskDir ELSE [tmp |-> None, final |-> None]
  /\ dir' = diskDir'
  /\ \E lost \in SUBSET { i \in Inodes : content[i] # diskContent[i] } :
       content' = [i \in Inodes |-> IF i \in lost THEN diskContent[i] ELSE content[i]]
  /\ diskContent' = content'
  /\ UNCHANGED << next, meetings >>

WriterNext ==
  \/ \E w \in Writers :
       \/ Start(w) \/ Prepare(w)
       \/ OpenArchive(w) \/ WriteEntry(w) \/ CloseArchive(w)
       \/ SyncTmp(w) \/ Rename(w) \/ SyncDir(w)
       \/ \E at \in Working \ {"syncingDir"} : Fails(w, at)
       \/ Killed(w)
  \/ Writeback \/ PowerLoss

WriterSpec == WriterInit /\ [][WriterNext]_writerVars

-----------------------------------------------------------------------------
(* Type invariant; an archive is open exactly while it is written.         *)
WriterTypeOK ==
  /\ pc \in [Writers -> Working \union
               {"idle", "preparing", "durable", "done", "failed", "killed"}]
  /\ next \in [Writers -> 1 .. Entries + 1]
  /\ fd \in [Writers -> Inodes \union {None}]
  /\ \A w \in Writers : fd[w] # None <=> pc[w] \in {"writing", "closing"}
  /\ dir \in [tmp : Inodes \union {None}, final : Inodes \union {None}]
  /\ diskDir \in [tmp : Inodes \union {None}, final : Inodes \union {None}]
  /\ parent \in {"absent", "made", "stable"}
  /\ content \in [Inodes -> [Pieces -> Data]]
  /\ diskContent \in [Inodes -> [Pieces -> Data]]
  /\ meetings \in [met : SUBSET Writers, renamer : [Inodes -> Inodes]]

(* What a file is to a reader: nothing, the bundle of one run, with those  *)
(* of its pieces that are not what they should be, or no bundle.           *)
Bundles == [by : Inodes, flaws : SUBSET Doubtful]
Corrupt == [by |-> None, flaws |-> {}]
Bundle(inode, data) ==
  IF inode = None THEN None
  ELSE IF \E run \in Inodes : Complete(data[inode], run)
       THEN [by |-> CHOOSE run \in Inodes : Complete(data[inode], run),
             flaws |-> { piece \in Pieces : ~ data[inode][piece].sound }]
       ELSE Corrupt

Publication == INSTANCE AtomicPublish WITH
  Nothing <- None,
  published <- Bundle(dir.final, content),
  durable <- Bundle(diskDir.final, diskContent),
  rooted <- parent = "stable"

(* The output path holds all of one run's bundle or what it held before,   *)
(* also after a failure of any step, a kill or a power loss (which may     *)
(* take a directory made for it), as long as captures to one path follow   *)
(* each other: up to the first two that are at work at once, write_bundle  *)
(* implements AtomicPublish.  What of the scratch files could not be read  *)
(* back is zeros in the bundle or wrong in its digests.                    *)
PublishesAtomically ==
  /\ Publication!PublishInit
  /\ [][meetings.met' = {} => Publication!PublishNext]_<< Bundle(dir.final, content),
                                                       Bundle(diskDir.final, diskContent),
                                                       parent = "stable" >>

(* What the only run there was leaves behind.  If its directory sync       *)
(* succeeded, its bundle is in the directory the disk has, and lost only   *)
(* with that directory, if it had to be made; and whether it succeeded or  *)
(* failed after opening the archive, no .tmp is left: the next run starts  *)
(* clean.                                                                  *)
DurableWhenDone ==
  \A w \in Writers :
    pc[w] = "durable" /\ (\A other \in Writers \ {w} : pc[other] = "idle")
      => diskDir.final # None /\ Complete(diskContent[diskDir.final], w)

NoTmpLeft ==
  \A w \in Writers :
    (pc[w] \in {"syncingDir", "done", "durable"} \/ (pc[w] = "failed" /\ next[w] > 1))
      /\ (\A other \in Writers \ {w} : pc[other] = "idle")
      => dir.tmp = None

LoneRunEndsClean == DurableWhenDone /\ NoTmpLeft

(* What is at the path, and what a power loss would bring back, has all    *)
(* its pieces, on disk and of the run that renamed it there, and those     *)
(* written from memory are whole, unless that run was at work while        *)
(* another was: two runs share one .tmp, but what they leave behind harms  *)
(* no later run.                                                           *)
LoneRunsPublishWhole ==
  \A inode \in {dir.final, diskDir.final} \ {None} :
    LET run == meetings.renamer[inode]
    IN  run \notin meetings.met =>
          Complete(content[inode], run) /\ diskContent[inode] = content[inode]
=============================================================================
