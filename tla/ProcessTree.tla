----------------------------- MODULE ProcessTree -----------------------------
(***************************************************************************)
(* The process tree of a bundle: the process events that reached           *)
(* events.ndjson, the tree that reconstruct_tree makes of them             *)
(* (bundle/process_tree.cpp) and what `vishaya tree` prints of it          *)
(* (inspect/tree.cpp).  The kernel side says what really happened:         *)
(* processes and threads share one space of ids, ids are used again,       *)
(* orphans are given to a reaper, a process may make a sibling of itself   *)
(* or live in a pid namespace, any event may be lost.                      *)
(***************************************************************************)
EXTENDS Naturals, Sequences, FiniteSets, SequencesExt

CONSTANTS
  Ids,        \* task ids the target's tasks may have
  Root,       \* the target's id: root_pid
  Outside,    \* a process outside the capture: Root's parent, and the reaper
  MaxSteps,   \* bound on the kernel's steps
  MaxDepth,   \* kMaxDepth of `vishaya tree`: 512
  MaxHops     \* the hops of its walk up to the target: 1000

ASSUME TreeAssumption ==
  /\ Root \in Ids /\ IsFiniteSet(Ids) /\ Outside \notin Ids /\ Outside # 0 /\ 0 \notin Ids
  /\ MaxDepth \in Nat \ {0} /\ MaxHops \in Nat \ {0}

VARIABLES
  task,       \* for each id in use the process (tgid) it belongs to, else 0
  parent,     \* real_parent of each process, by tgid
  log,        \* the process events in events.ndjson
  steps,      \* steps the kernel has made
  forks,      \* history: <<parent, child>> for each process created
  lostForks,  \* history: those of which no report was recorded
  adopted,    \* history: <<parent, child>> where another process made the child
  misnamed,   \* history: the children clone named by a number of a pid namespace
  used        \* history: how often each id was given out

vars == << task, parent, log, steps, forks, lostForks, adopted, misnamed, used >>

Event(kind, tgid, child) == [kind |-> kind, tgid |-> tgid, ppid |-> parent[tgid], child |-> child]

Running(p) == \E t \in Ids : task[t] = p
Free(t) == task[t] = 0 /\ ~ Running(t)

Init ==
  /\ task = [t \in Ids |-> IF t = Root THEN Root ELSE 0]
  /\ parent = [t \in Ids |-> Outside]
  /\ log = << >> /\ steps = 0
  /\ forks = {} /\ lostForks = {} /\ adopted = {} /\ misnamed = {}
  /\ used = [t \in Ids |-> IF t = Root THEN 1 ELSE 0]

-----------------------------------------------------------------------------
(* The kernel and the probes: each step is one task's, and its event is    *)
(* recorded or lost.                                                       *)
Acts == steps < MaxSteps /\ steps' = steps + 1
Records(e) == log' = Append(log, e)

(* fork, clone, vfork: the event is the caller's (on_sched_fork); under    *)
(* CLONE_PARENT the child's parent is the caller's parent.                 *)
Forks(p, c) ==
  /\ Acts
  /\ Running(p) /\ Free(c)
  /\ task' = [task EXCEPT ![c] = c]
  /\ \E q \in {p, parent[p]} :
       /\ parent' = [parent EXCEPT ![c] = q]
       /\ adopted' = IF q \in {p, Outside} THEN adopted ELSE adopted \union {<< q, c >>}
  /\ used' = [used EXCEPT ![c] = @ + 1]
  /\ forks' = forks \union {<< p, c >>}
  /\ \/ Records(Event("fork", p, c)) /\ UNCHANGED lostForks
     \/ lostForks' = lostForks \union {<< p, c >>} /\ UNCHANGED log
  /\ UNCHANGED misnamed

(* clone(CLONE_THREAD): on_sched_fork reports the thread's id as a child.  *)
StartsThread(p, t) ==
  /\ Acts
  /\ Running(p) /\ Free(t)
  /\ task' = [task EXCEPT ![t] = p]
  /\ used' = [used EXCEPT ![t] = @ + 1]
  /\ Records(Event("fork", p, t)) \/ UNCHANGED log
  /\ UNCHANGED << parent, forks, lostForks, adopted, misnamed >>

(* clone's return in the caller: the second report of the child.  For a    *)
(* caller in a pid namespace of its own it is the child's number there,    *)
(* which may be another task's id.                                         *)
CloneReturns(p, n) ==
  /\ Acts
  /\ Running(p) /\ \E f \in forks : f[1] = p
  /\ Records(Event("clone", p, n))
  /\ IF << p, n >> \in forks
     THEN lostForks' = lostForks \ {<< p, n >>} /\ UNCHANGED misnamed
     ELSE misnamed' = misnamed \union {<< p, n >>} /\ UNCHANGED lostForks
  /\ UNCHANGED << task, parent, forks, adopted, used >>

(* exec, and the child's return from clone, which reports no child.        *)
Execs(p) ==
  /\ Acts
  /\ Running(p)
  /\ Records(Event("exec", p, 0)) \/ Records(Event("clone", p, 0)) \/ UNCHANGED log
  /\ UNCHANGED << task, parent, forks, lostForks, adopted, misnamed, used >>

Ancestors(p) ==
  LET at[n \in 0 .. Cardinality(Ids)] ==
        IF n = 0 THEN p ELSE IF at[n - 1] \in Ids THEN parent[at[n - 1]] ELSE Outside
  IN  { at[n] : n \in 1 .. Cardinality(Ids) } \ {p}

(* sched_process_exit fires for each task and carries its process's id     *)
(* (on_sched_exit).  The children of a process that ends go to the reaper: *)
(* the one outside, or an ancestor that is a subreaper.                    *)
Exits(t) ==
  /\ Acts
  /\ task[t] # 0
  /\ task' = [task EXCEPT ![t] = 0]
  /\ Records(Event("exit", task[t], 0)) \/ UNCHANGED log
  /\ LET left == { c \in Ids : parent[c] = task[t] /\ \A u \in Ids \ {t} : task[u] # task[t] }
     IN  \E reaper \in {Outside} \union Ancestors(task[t]) :
           /\ parent' = [c \in Ids |-> IF c \in left THEN reaper ELSE parent[c]]
           /\ adopted' = IF reaper = Outside THEN adopted
                         ELSE adopted \union ({reaper} \X left)
  /\ UNCHANGED << forks, lostForks, misnamed, used >>

Next ==
  \/ \E p, c \in Ids : Forks(p, c) \/ StartsThread(p, c) \/ CloneReturns(p, c)
  \/ \E t \in Ids : Execs(t) \/ Exits(t)

Spec == Init /\ [][Next]_vars

-----------------------------------------------------------------------------
(* reconstruct_tree: one pass over the events gives a record for each tgid *)
(* that emitted one, and candidate edges; the edges between records stay.  *)
NoRecords == [records |-> << >>, edges |-> {}]

(* touch_record: the first event of a tgid gives the record its parent.    *)
TouchRecord(records, e) ==
  IF e.tgid \in DOMAIN records THEN records
  ELSE [t \in DOMAIN records \union {e.tgid} |->
          IF t = e.tgid THEN [ppid |-> e.ppid, ended |-> FALSE] ELSE records[t]]

(* Variant of the next definition that resolves an edge at once, when the  *)
(* child has emitted nothing yet.  Never used.                             *)
ReadEventResolving(e, read) ==
  LET records == TouchRecord(read.records, e) IN
  [records |-> IF e.kind = "exit" THEN [records EXCEPT ![e.tgid].ended = TRUE] ELSE records,
   edges   |-> IF e.child \notin {0, e.tgid} /\ e.child \in DOMAIN records
               THEN read.edges \union {<< e.tgid, e.child >>} ELSE read.edges]

ReadEvent(e, read) ==
  LET records == TouchRecord(read.records, e) IN
  [records |-> IF e.kind = "exit" THEN [records EXCEPT ![e.tgid].ended = TRUE] ELSE records,
   edges   |-> IF e.child \notin {0, e.tgid}
               THEN read.edges \union {<< e.tgid, e.child >>} ELSE read.edges]

(* Variant of the next definition that keeps every candidate.  Never used. *)
ResolveNothing(read) == read

(* An edge stays when both ends have a record: a thread has none.          *)
Resolve(read) ==
  [read EXCEPT !.edges = { e \in @ : {e[1], e[2]} \subseteq DOMAIN read.records }]

ReconstructTree(events) ==
  Resolve(FoldLeft(LAMBDA read, e : ReadEvent(e, read), NoRecords, events))

-----------------------------------------------------------------------------
(* run_tree. *)

(* print_node: what is below a node, along the children, and no deeper     *)
(* than the limit.                                                         *)
Below(tree, from) ==
  LET level[n \in 0 .. MaxDepth - 1] ==
        IF n = 0 THEN {from}
        ELSE level[n - 1] \union { e[2] : e \in { f \in tree.edges : f[1] \in level[n - 1] } }
  IN  level[MaxDepth - 1] \intersect DOMAIN tree.records

(* So many of the ids that the ppids lead to. *)
Up(tree, from, count) ==
  LET at[n \in 0 .. count - 1] ==
        IF n = 0 THEN from
        ELSE LET cur == at[n - 1] IN
             IF cur = Root \/ cur \notin DOMAIN tree.records THEN cur
             ELSE tree.records[cur].ppid
  IN  { at[n] : n \in DOMAIN at }

(* The walk up that decides who is an orphan. *)
WalkUp(tree, from) == Up(tree, from, MaxHops)

Orphans(tree) == { t \in DOMAIN tree.records \ {Root} : Root \notin WalkUp(tree, t) }

Printed(tree) == UNION { Below(tree, t) : t \in {Root} \union Orphans(tree) }

-----------------------------------------------------------------------------
Tree == ReconstructTree(log)
LostFork(c) == \E f \in lostForks : f[2] = c
Adopted(c) == \E f \in adopted : f[2] = c
TooDeep(t) == Root \notin Up(Tree, t, MaxDepth)

(* What the tree says is true: its edges are forks that happened, and all  *)
(* that were reported and whose child was recorded; a process's parent is  *)
(* the one that made it, the one that got it later or the reaper outside.  *)
(* Threads are no processes.  Only an id given out twice or a number of a  *)
(* pid namespace can make it err (process_tree.cpp:23-32, 113-128).        *)
TreeIsTrue ==
  /\ \A e \in Tree.edges : e \in forks \union misnamed \/ used[e[2]] > 1
  /\ \A f \in forks \ lostForks : f[2] \in DOMAIN Tree.records => f \in Tree.edges
  /\ \A t \in DOMAIN Tree.records :
       used[t] = 1 => \/ Tree.records[t].ppid = Outside
                      \/ << Tree.records[t].ppid, t >> \in forks \union adopted

(* `vishaya tree` shows every process of the bundle, under the target or   *)
(* among the orphans, but for two reasons.  On its way to the target a     *)
(* fork was not reported, an id was used again or a process has a child    *)
(* that another one made: then the ppids reach the target while the edges  *)
(* do not.  Or the target is more forks away than print_node goes down     *)
(* and not more than the walk goes up.  Then neither list has the process  *)
(* (tree.cpp:25, 59-63, 127-152).                                          *)
HiddenOnlyByLostForks ==
  \A t \in DOMAIN Tree.records \ Printed(Tree) :
    \/ \E u \in WalkUp(Tree, t) \intersect Ids : LostFork(u) \/ used[u] > 1 \/ Adopted(u)
    \/ TooDeep(t)

(* bundle-spec-v0.1.md:371 says that end_ts_ns is "`ts_ns` of the `exit`   *)
(* event, or `null` if still running when capture ended".  It does not     *)
(* hold of a process one of whose threads has exited.                      *)
EndedProcessesHaveEnded ==
  \A t \in DOMAIN Tree.records :
    Tree.records[t].ended /\ used[t] = 1 => ~ Running(t)
=============================================================================
