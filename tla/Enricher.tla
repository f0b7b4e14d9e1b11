------------------------------ MODULE Enricher ------------------------------
(***************************************************************************)
(* EnrichProcessEvent (enricher/enricher.cpp) for one process event, while *)
(* the process that emitted it goes on: it may exec again, die, be reaped, *)
(* and its id may be given to another process, between the event and the   *)
(* enrichment and between any two reads of /proc.  A value names the       *)
(* process it was read from and the image that process was running.        *)
(***************************************************************************)
EXTENDS Integers

CONSTANTS
  MaxClock,   \* bound on the clock, in ticks
  MaxOwners   \* bound on the processes that have the id one after the other

ASSUME EnricherAssumption == MaxClock \in Nat \ {0} /\ MaxOwners \in Nat \ {0}

VARIABLES
  clock,       \* now, in ticks
  owner,       \* the process that has the id, or had it last: [id, start, image]
  parentOwner, \* the process that has the parent's id; 0: none
  event,       \* the event: [kind, task, start, and the fields]
  trusted,     \* proc_trustworthy
  checked,     \* history: the process whose stat the guard read; 0: none
  started,     \* history: when each process that had the id was started
  pc

enricherVars == << clock, owner, parentOwner, event, trusted, checked, started, pc >>

Value(id, image) == [id |-> id, image |-> image]
Empty == Value(0, 0)
Zombie == 0      \* the images of a process that runs none,
Gone == -1       \* and of one that has been reaped

(* The process that emits is number 1, its parent is number 1 of the       *)
(* parents.  start is that of the emitting task, which may be a thread, or *)
(* 0 on a kernel without start_boottime.  An exec event carries the path   *)
(* and, unless that failed, the arguments and the parent's name; it is the *)
(* leader's.                                                               *)
Carrying(path, args, comm) ==
  [filename |-> path, exec_path |-> Empty, cwd |-> Empty, cmdline |-> args, parent_comm |-> comm]
EventsAt(now) ==
  { [kind |-> "other", task |-> t, start |-> s, field |-> Carrying(Empty, Empty, Empty)] :
      t \in 1 .. now, s \in {0, 1} }
  \union
  { [kind |-> "exec", task |-> 1, start |-> s, field |-> Carrying(Value(1, 1), args, comm)] :
      s \in {0, 1}, args \in {Empty, Value(1, 1)}, comm \in {Empty, Value(1, 1)} }

EnricherInit ==
  /\ clock \in 1 .. MaxClock
  /\ owner = [id |-> 1, start |-> 1, image |-> 1]
  /\ parentOwner = 1
  /\ \E e \in EventsAt(clock) :
       event = [e EXCEPT !.start = IF e.start = 0 THEN 0 ELSE e.task]
  /\ trusted = TRUE /\ checked = 0
  /\ started = [id \in 1 .. MaxOwners |-> 1]
  /\ pc = "check"

-----------------------------------------------------------------------------
(* What happens to the ids meanwhile. *)
World == UNCHANGED << event, trusted, checked, pc >>

Tick == clock < MaxClock /\ clock' = clock + 1 /\ UNCHANGED << owner, parentOwner, started >> /\ World

ExecsAgain ==
  /\ owner.image = 1
  /\ owner' = [owner EXCEPT !.image = 2]
  /\ UNCHANGED << clock, parentOwner, started >> /\ World

Dies ==
  /\ owner.image \in {1, 2}
  /\ owner' = [owner EXCEPT !.image = Zombie]
  /\ UNCHANGED << clock, parentOwner, started >> /\ World

Reaped ==
  /\ owner.image = Zombie
  /\ owner' = [owner EXCEPT !.image = Gone]
  /\ UNCHANGED << clock, parentOwner, started >> /\ World

IdReused ==
  /\ owner.image = Gone /\ owner.id < MaxOwners
  /\ owner' = [id |-> owner.id + 1, start |-> clock, image |-> 1]
  /\ started' = [started EXCEPT ![owner.id + 1] = clock]
  /\ UNCHANGED << clock, parentOwner >> /\ World

ParentReplaced ==
  /\ parentOwner = 1
  /\ parentOwner' \in {0, 2}
  /\ UNCHANGED << clock, owner, started >> /\ World

-----------------------------------------------------------------------------
(* The reads of /proc.  A zombie has a stat and nothing else.              *)
FromProc == IF owner.image \in {Zombie, Gone} THEN Empty ELSE Value(owner.id, owner.image)
StatStart == IF owner.image = Gone THEN 0 ELSE owner.start

Enriches(step, next) ==
  /\ pc = step /\ pc' = next
  /\ UNCHANGED << clock, owner, parentOwner, started >>

Near(a, b) == a - b \in -1 .. 1

(* Variant of the next definition that takes any start not earlier than    *)
(* the event's.  Never used.                                               *)
SameStartOrLater(a, b) == b >= a
(* Variant of the next definition without the tolerance.  Never used.      *)
SameStartExactly(a, b) == a = b
SameStart(a, b) == Near(a, b)

(* The guard: no stat, or no start time in the event, is taken for trust.  *)
CheckStart ==
  /\ Enriches("check", "exe")
  /\ IF event.start = 0 \/ StatStart = 0 THEN UNCHANGED << trusted, checked >>
     ELSE /\ trusted' = SameStart(event.start, StatStart)
          /\ checked' = owner.id
  /\ UNCHANGED event

Fill(name, value) ==
  IF trusted /\ event.field[name] = Empty THEN [event EXCEPT !.field[name] = value] ELSE event

(* The path: from /proc, else the one the kernel captured; and the other   *)
(* way round for the legacy field.                                         *)
WithFallback(e) ==
  LET path == IF e.field.exec_path = Empty THEN e.field.filename ELSE e.field.exec_path
      name == IF e.field.filename = Empty THEN path ELSE e.field.filename
  IN  [e EXCEPT !.field.exec_path = path, !.field.filename = name]

(* Variant of the next action without the fallback.  Never used.           *)
ReadExeOnly ==
  /\ Enriches("exe", "cwd")
  /\ event' = Fill("exec_path", FromProc)
  /\ UNCHANGED << trusted, checked >>

ReadExe ==
  /\ Enriches("exe", "cwd")
  /\ event' = WithFallback(Fill("exec_path", FromProc))
  /\ UNCHANGED << trusted, checked >>

ReadCwd ==
  /\ Enriches("cwd", "cmdline")
  /\ event' = Fill("cwd", FromProc)
  /\ UNCHANGED << trusted, checked >>

ReadCmdline ==
  /\ Enriches("cmdline", "parent")
  /\ event' = Fill("cmdline", FromProc)
  /\ UNCHANGED << trusted, checked >>

ReadParentComm ==
  /\ Enriches("parent", "start")
  /\ event' = Fill("parent_comm", Value(parentOwner, IF parentOwner = 0 THEN 0 ELSE 1))
  /\ UNCHANGED << trusted, checked >>

FillStart ==
  /\ Enriches("start", "done")
  /\ event' = IF event.start = 0 THEN [event EXCEPT !.start = StatStart] ELSE event
  /\ UNCHANGED << trusted, checked >>

EnricherNext ==
  \/ Tick \/ ExecsAgain \/ Dies \/ Reaped \/ IdReused \/ ParentReplaced
  \/ CheckStart \/ ReadExe \/ ReadCwd \/ ReadCmdline \/ ReadParentComm \/ FillStart

EnricherSpec == EnricherInit /\ [][EnricherNext]_enricherVars

-----------------------------------------------------------------------------
(* "Without ever using another process's data" (enricher.cpp:175): where   *)
(* the event carries what was read from a later process of the id, that    *)
(* process is not the one the guard looked at (it looked at none, or at    *)
(* an earlier one, and the id was reused after), or it started within the  *)
(* one tick of tolerance.  A foreign path is copied into filename too.     *)
ForeignDataExplained ==
  \A name \in {"filename", "exec_path", "cwd", "cmdline"} :
    LET id == event.field[name].id IN
    id \notin {0, 1} => checked # id \/ Near(event.start, started[id])

(* An exec event leaves the enricher with a path, whether or not its       *)
(* process still exists, and it is the path that was executed unless the   *)
(* process executed again, or its id was reused, before exe was read; and  *)
(* then filename still is the path that was executed.                      *)
ExecPathExplained ==
  event.kind = "exec" /\ pc \notin {"check", "exe"} =>
    /\ event.field.exec_path # Empty /\ event.field.filename = Value(1, 1)
    /\ \/ event.field.exec_path = Value(1, 1)
       \/ event.field.exec_path = Value(1, 2)
       \/ event.field.exec_path.id > 1

(* The reading of /proc is refused to an event of a process that still has *)
(* its id only when a thread emitted it, whose own start is later than the *)
(* one /proc gives for the process.                                        *)
RefusalExplained ==
  ~trusted => checked # 1 \/ event.task > 2
=============================================================================
