------------------------- MODULE ArtifactCollector -------------------------
(***************************************************************************)
(* capture::ArtifactCollector: the paths the target wrote are gathered     *)
(* while it runs, and at the end their files are copied, within bounds and *)
(* one copy per content.  Processes the target left behind still write     *)
(* while the copying goes on: every look at the file system (lstat, open,  *)
(* read) may find something else than the one before it.                   *)
(***************************************************************************)
EXTENDS Naturals, FiniteSets, FiniteSetsExt

CONSTANTS
  Paths,          \* absolute paths, ordered as the strings are: numbers
  Contents,       \* [tag, size] records: what a file may hold
  MaxCandidates,  \* max_candidates
  MaxFileSize,    \* max_file_bytes
  MaxTotalSize,   \* max_total_bytes
  MaxCount        \* max_count

ASSUME CollectorAssumption ==
  /\ Paths \subseteq Nat /\ IsFiniteSet(Paths)
  /\ \A d \in Contents : d.size \in Nat
  /\ MaxCandidates \in Nat /\ MaxFileSize \in Nat /\ MaxTotalSize \in Nat /\ MaxCount \in Nat

(* A file event, with the path it may have produced: the path opened, or   *)
(* the destination of a rename.                                            *)
FileEvents == [kind : {"openat", "renameat2", "unlinkat"}, ok : BOOLEAN,
               writes : BOOLEAN, absolute : BOOLEAN, path : Paths]

VARIABLES
  candidates, \* candidates_
  truncated,  \* truncated_
  dropped,    \* history: paths the target produced that are no candidates
  phase,      \* "observing", then in finalize: "next", "looked", "copying";
              \* "blocked" in open(2) or read(2), "done"
  todo,       \* candidates the loop has not finished
  seen,       \* what lstat said of the path at hand: [kind, size]
  records,    \* the records, each with its source paths
  stored,     \* contents in the artifacts directory
  total,      \* total_bytes
  okCount,    \* ok_count
  growth      \* history: what the file copied last had gained since its lstat

vars == << candidates, truncated, dropped, phase, todo, seen, records, stored,
           total, okCount, growth >>

Nothing == [kind |-> "none", size |-> 0]
Kinds == {"missing", "symlink", "special", "fifo", "regular"}
Sizes == { d.size : d \in Contents }

Init ==
  /\ candidates = {} /\ truncated = FALSE /\ dropped = {}
  /\ phase = "observing" /\ todo = {} /\ seen = Nothing
  /\ records = {} /\ stored = {} /\ total = 0 /\ okCount = 0 /\ growth = 0

-----------------------------------------------------------------------------
(* observe. *)
Produces(e) ==
  /\ e.ok /\ e.absolute
  /\ e.kind = "renameat2" \/ (e.kind = "openat" /\ e.writes)

Observe(e) ==
  /\ phase = "observing" /\ Produces(e)
  /\ IF Cardinality(candidates) >= MaxCandidates
     THEN /\ truncated' = TRUE
          /\ dropped' = dropped \union ({e.path} \ candidates)
          /\ UNCHANGED candidates
     ELSE /\ candidates' = candidates \union {e.path}
          /\ UNCHANGED << truncated, dropped >>
  /\ UNCHANGED << phase, todo, seen, records, stored, total, okCount, growth >>

-----------------------------------------------------------------------------
(* finalize: one turn of its loop. *)
Finalize ==
  /\ phase = "observing"
  /\ phase' = "next" /\ todo' = candidates
  /\ UNCHANGED << candidates, truncated, dropped, seen, records, stored, total, okCount,
                  growth >>

Current == Min(todo)
NextPath == phase' = "next" /\ todo' = todo \ {Current} /\ seen' = Nothing
Record(status, size) ==
  /\ records' = records \union
       {[paths |-> {Current}, status |-> status, size |-> size, data |-> Nothing]}
  /\ NextPath
Unchanged == UNCHANGED << candidates, truncated, dropped, stored, total, okCount, growth >>

(* Variant of the next definition: off by one.  Never used.                *)
NoRoomOffByOne(size) == okCount > MaxCount \/ total + size > MaxTotalSize
NoRoomFor(size) == okCount >= MaxCount \/ total + size > MaxTotalSize

StatusByLook(kind, size) ==
  CASE kind = "missing"             -> "missing"
    [] kind = "symlink"             -> "symlink"
    [] kind \in {"special", "fifo"} -> "special"
    [] size > MaxFileSize           -> "too_large"
    [] NoRoomFor(size)              -> "bound_exceeded"
    [] OTHER                        -> "copy"

(* Variant of the next definition without the S_ISREG test.  Never used.   *)
StatusAsIfRegular(kind, size) ==
  IF kind \in {"special", "fifo"} THEN "copy" ELSE StatusByLook(kind, size)
StatusOf(kind, size) == StatusByLook(kind, size)

Lstat ==
  /\ phase = "next" /\ todo # {}
  /\ \E kind \in Kinds : \E size \in IF kind = "regular" THEN Sizes ELSE {0} :
       IF StatusOf(kind, size) = "copy"
       THEN /\ phase' = "looked" /\ seen' = [kind |-> kind, size |-> size]
            /\ UNCHANGED << todo, records >>
       ELSE Record(StatusOf(kind, size), size)
  /\ Unchanged

LstatFails == phase = "next" /\ todo # {} /\ Record("unreadable", 0) /\ Unchanged

(* open(O_NOFOLLOW): a symlink swapped in is refused, and so is a socket,  *)
(* or a directory when it is read; the staging file may not open.  What    *)
(* was swapped in and is no regular file may make open and each read wait: *)
(* a fifo for a writer and then for what it writes, a terminal or another  *)
(* device for data.  "blocked" is all of that waiting.                     *)
Open ==
  /\ phase = "looked"
  /\ \/ phase' = "copying" /\ UNCHANGED << todo, seen, records >>
     \/ phase' = "blocked" /\ UNCHANGED << todo, seen, records >>
     \/ Record("missing", seen.size)
     \/ Record("unreadable", seen.size)
  /\ Unchanged

(* Whatever it waited for has come, the end of the data included.  Nothing *)
(* says that it ever does.                                                 *)
WaitIsOver ==
  phase = "blocked" /\ phase' = "copying" /\ UNCHANGED << todo, seen, records >> /\ Unchanged

CopyFails == phase = "copying" /\ Record("unreadable", seen.size) /\ Unchanged

OutgrowsLimit(d) ==
  phase = "copying" /\ d.size > MaxFileSize /\ Record("too_large", seen.size) /\ Unchanged

IsCopied(d) == \E r \in records : r.status = "ok" /\ r.data = d

(* The content is there already: the path joins the record that has it.    *)
JoinsRecord(d) ==
  records' = { IF r.status = "ok" /\ r.data = d
               THEN [r EXCEPT !.paths = @ \union {Current}] ELSE r : r \in records }

(* Variants of the next action: one forgets the path, the other counts the *)
(* content again.  Never used.                                             *)
MergesForgetfully(d) ==
  /\ phase = "copying" /\ d.size <= MaxFileSize /\ IsCopied(d)
  /\ UNCHANGED records
  /\ NextPath /\ Unchanged
MergesAndCounts(d) ==
  /\ phase = "copying" /\ d.size <= MaxFileSize /\ IsCopied(d)
  /\ JoinsRecord(d)
  /\ total' = total + d.size /\ okCount' = okCount + 1
  /\ NextPath
  /\ UNCHANGED << candidates, truncated, dropped, stored, growth >>

Merges(d) ==
  /\ phase = "copying" /\ d.size <= MaxFileSize /\ IsCopied(d)
  /\ JoinsRecord(d)
  /\ NextPath /\ Unchanged

RenameFails(d) ==
  /\ phase = "copying" /\ d.size <= MaxFileSize /\ ~ IsCopied(d)
  /\ Record("unreadable", d.size) /\ Unchanged

Keeps(d) ==
  /\ phase = "copying" /\ d.size <= MaxFileSize /\ ~ IsCopied(d)
  /\ stored' = stored \union {d}
  /\ records' = records \union
       {[paths |-> {Current}, status |-> "ok", size |-> d.size, data |-> d]}
  /\ okCount' = okCount + 1
  /\ growth' = IF d.size > seen.size THEN d.size - seen.size ELSE 0
  /\ NextPath
  /\ UNCHANGED << candidates, truncated, dropped >>

(* Variant of the next action that counts what lstat said.  Never used.    *)
CopyCountingLstat(d) == Keeps(d) /\ total' = total + seen.size

Copy(d) == Keeps(d) /\ total' = total + d.size

Return ==
  /\ phase = "next" /\ todo = {}
  /\ phase' = "done"
  /\ UNCHANGED << todo, seen, records >> /\ Unchanged

Step ==
  \/ Lstat \/ LstatFails \/ Open \/ CopyFails
  \/ \E d \in Contents : OutgrowsLimit(d) \/ Merges(d) \/ RenameFails(d) \/ Copy(d)
  \/ Return

Next == (\E e \in FileEvents : Observe(e)) \/ Finalize \/ Step \/ WaitIsOver

Spec == Init /\ [][Next]_vars /\ WF_vars(Step)

-----------------------------------------------------------------------------
Statuses == {"ok", "missing", "unreadable", "symlink", "special", "too_large",
             "bound_exceeded"}
Copied == { r \in records : r.status = "ok" }
CopiedSize == MapThenSumSet(LAMBDA r : r.size, Copied)

(* Types.  No file above the limit of one file is kept, and no more files  *)
(* than allowed.                                                           *)
TypeOK ==
  /\ candidates \subseteq Paths /\ dropped \subseteq Paths /\ todo \subseteq candidates
  /\ Cardinality(candidates) <= MaxCandidates
  /\ truncated \in BOOLEAN
  /\ phase \in {"observing", "next", "looked", "copying", "blocked", "done"}
  /\ seen.kind \in Kinds \union {"none"} /\ seen.size \in Nat
  /\ \A r \in records : r.status \in Statuses /\ r.size \in Nat
  /\ \A d \in stored : d.size <= MaxFileSize
  /\ okCount \in 0 .. MaxCount
  /\ total \in Nat /\ growth \in 0 .. MaxFileSize

(* The artifacts together exceed the total only by what the last of them   *)
(* grew between lstat and copy; then nothing more is copied                *)
(* (artifact_collector.cpp:101, 189; artifact_collector.h:17).             *)
OverrunOwedToGrowth == CopiedSize <= MaxTotalSize + growth

(* Each candidate the loop has finished is named by exactly one record,    *)
(* merged or not; no content is kept twice; what is in the directory is    *)
(* what the records name, and the counters are those of the records        *)
(* (artifact_collector.cpp:178-199).  A path that was left out is          *)
(* reported.                                                               *)
EachPathOnce ==
  /\ phase # "observing" => UNION { r.paths : r \in records } = candidates \ todo
  /\ \A r, s \in records : r # s => r.paths \intersect s.paths = {}
  /\ \A r, s \in Copied : r # s => r.data # s.data
  /\ stored = { r.data : r \in Copied }
  /\ total = CopiedSize /\ okCount = Cardinality(Copied)
  /\ dropped # {} => truncated

(* A file refused for the bounds found no room that the copied files do    *)
(* not take up: duplicates of what is there cost nothing                   *)
(* (artifact_collector.cpp:101, 179).                                      *)
RefusedForLackOfRoom ==
  \A r \in records :
    r.status = "bound_exceeded" =>
      Cardinality(Copied) >= MaxCount \/ CopiedSize + r.size > MaxTotalSize

(* finalize ends, whatever happens to the files under it, unless a regular *)
(* file gave way between lstat and open to something that is none, and     *)
(* open or read waits on that: only the lstat keeps the code from waiting  *)
(* (artifact_collector.cpp:87, 109, 132).                                  *)
FinalizeEnds ==
  phase = "next" ~> phase = "done" \/ (phase = "blocked" /\ seen.kind = "regular")
=============================================================================
