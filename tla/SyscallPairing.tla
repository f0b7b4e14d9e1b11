--------------------------- MODULE SyscallPairing ---------------------------
(***************************************************************************)
(* The kernel side of an enter/exit family of probes (file or raw          *)
(* syscall): a handler on syscall entry saves a payload in an LRU map      *)
(* under <<pid_tgid, kind>>, a handler on syscall exit looks it up, adds   *)
(* the return value and submits one event to the shared ring buffer.  Both *)
(* families are this machine, each over a map of its own; the network      *)
(* family adds the socket gate, which is SocketFds' subject.               *)
(*                                                                         *)
(* A handler runs with its task pinned in the kernel, so one handler is    *)
(* one step; between a task's enter and its exit anything may happen to    *)
(* the ring, to the map and to the scope of the capture.                   *)
(***************************************************************************)
EXTENDS Naturals, Sequences, FiniteSets

CONSTANTS
  Tasks,          \* pid_tgid values; the kernel hands one out again after its task died
  Suppressed,     \* the tasks of the collector itself (suppress_tgid)
  Kinds,          \* correlation kinds of the family (event kinds or syscall numbers)
  EnabledKinds,   \* kinds whose probe toggle is on (fixed before attaching)
  ForkKinds,      \* kinds a new task returns from without having entered them
  RingCapacity,   \* records the events ring holds between two polls
  StateMapMax,    \* STATE_MAP_MAX_ENTRIES
  MaxCalls,       \* bound on syscalls and process events of a behaviour
  AllowHostWide,  \* --allow-host-wide: run unscoped when scoping fails
  Target, Other,  \* cgroups: the capture's own one and any other
  NoCgroup        \* cgroup of a pid_tgid that no task has

ASSUME KindsAssumption ==
  /\ Suppressed \subseteq Tasks
  /\ EnabledKinds \subseteq Kinds
  /\ ForkKinds \subseteq Kinds
ASSUME BoundsAssumption ==
  /\ RingCapacity \in Nat \ {0}
  /\ StateMapMax \in Nat \ {0}
  /\ MaxCalls \in Nat
ASSUME ScopeAssumption ==
  /\ AllowHostWide \in BOOLEAN
  /\ Target # Other /\ NoCgroup \notin {Target, Other}

Programs == {"enter", "exit", "process"}
Keys == Tasks \X Kinds
CallIds == 0 .. MaxCalls
NoEntry == 0

VARIABLES
  phase,          \* "attaching" until the session has scoped the capture
  attached,       \* BPF programs attached so far (a failed attachment is tolerated)
  targetCgroup,   \* target_cgroup_id: NoCgroup (0) lets every task through
  cgroup,         \* cgroup of each task
  call,           \* the syscall each task is in: id 0 is user mode
  enterState,     \* *_enter_state: id of the call that saved the entry, NoEntry when absent
  ring,           \* events: records not consumed yet, oldest first
  nextCall,       \* calls and process events so far
  emitted,        \* history: every pairing event submitted
  tally           \* per key: the bpf_stats counters and the history the properties need

vars == << phase, attached, targetCgroup, cgroup, call, enterState, ring, nextCall,
           emitted, tally >>

Call == [id : CallIds, kind : Kinds, traced : BOOLEAN]

(* A ring record: the call whose payload it carries, the call whose return *)
(* value it carries, the cgroup of its task when it was submitted.         *)
Record == [enter : CallIds, exit : CallIds, from : {Target, Other, NoCgroup}]
(* A scratch record of an enter handler: its space is freed only when the  *)
(* consumer passes it.                                                     *)
Discarded == [enter |-> 0, exit |-> 0, from |-> NoCgroup]

(* What is counted for a key: shares of the bpf_stats counters, and the    *)
(* history the properties need.                                            *)
Counters == {
  "calls",         \* syscalls issued
  "untraced",      \* of them, entered without the enter handler running
  "refused",       \* of BPF_STAT_RINGBUF_RESERVE_FAIL, on entry or on exit
  "refusedEnter",  \* of them, on entry
  "collision",     \* of BPF_STAT_*_STATE_COLLISION
  "saveFail",      \* of BPF_STAT_*_STATE_SAVE_FAIL
  "evicted",       \* entries the LRU map threw out
  "miss",          \* of BPF_STAT_*_STATE_MISS
  "delivered",     \* events submitted
  "mispaired",     \* of them, with the payload of another call
  "lostExit" }     \* traced calls that ended without the exit handler running

Number(counter, t, k) == tally[<<t, k>>][counter]

(* The counters after one more of each of the given ones for a key. *)
Counted(key, counters) ==
  [tally EXCEPT ![key] = [c \in Counters |-> IF c \in counters THEN @[c] + 1 ELSE @[c]]]

-----------------------------------------------------------------------------
Alive(t) == cgroup[t] # NoCgroup
InCall(t, k) == call[t].id # 0 /\ call[t].kind = k
InUserMode(t) == Alive(t) /\ call[t].id = 0
RingFull == Len(ring) >= RingCapacity
Live == { key \in Keys : enterState[key] # NoEntry }

(* Variant of the next operator that forgets the scope; the specification  *)
(* never uses it.                                                          *)
IsEventAllowedWithoutScope(t) == t \notin Suppressed

(* is_event_allowed: not the collector itself, and in the target cgroup    *)
(* itself (not in a descendant of it) unless no cgroup is configured.      *)
IsEventAllowed(t) ==
  /\ t \notin Suppressed
  /\ targetCgroup # NoCgroup => cgroup[t] = targetCgroup

(* The gates at the head of an enter or exit handler. *)
Handles(program, t, k) ==
  /\ program \in attached
  /\ IsEventAllowed(t)
  /\ k \in EnabledKinds

(* Entry the LRU map throws out to admit one more: none while there is     *)
(* room, any other key's when it is full (eviction is approximate).        *)
Victims(key) ==
  IF Cardinality(Live) < StateMapMax THEN {key} ELSE Live \ {key}

Init ==
  /\ phase = "attaching"
  /\ attached = {}
  /\ targetCgroup = NoCgroup
  /\ cgroup \in [Tasks -> {Other, NoCgroup}]
  /\ \A t \in Suppressed : cgroup[t] = Other
  /\ call \in [Tasks -> [id : {0}, kind : Kinds, traced : {FALSE}]]
  /\ enterState = [key \in Keys |-> NoEntry]
  /\ ring = << >>
  /\ nextCall = 0
  /\ emitted = {}
  /\ tally = [key \in Keys |-> [c \in Counters |-> 0]]

-----------------------------------------------------------------------------
(* Start attaches the programs one by one; a program that fails to attach  *)
(* is skipped, so a later session may run with the enter side only.        *)
Attach(program) ==
  /\ phase = "attaching"
  /\ program \notin attached
  /\ attached' = attached \union {program}
  /\ UNCHANGED << phase, targetCgroup, cgroup, call, enterState, ring, nextCall,
                  emitted, tally >>

(* The session scopes the capture after Start returned; until then every   *)
(* task of the host passes the gate.                                       *)
SetTargetCgroup ==
  /\ phase = "attaching"
  /\ attached # {}
  /\ phase' = "running"
  /\ targetCgroup' \in {Target} \union (IF AllowHostWide THEN {NoCgroup} ELSE {})
  /\ UNCHANGED << attached, cgroup, call, enterState, ring, nextCall, emitted, tally >>

(* PollOnce: the consumer passes one record, submitted or discarded; the   *)
(* session polls only once it is constructed, after scoping.               *)
PollRecord ==
  /\ phase = "running"
  /\ ring # << >>
  /\ ring' = Tail(ring)
  /\ UNCHANGED << phase, attached, targetCgroup, cgroup, call, enterState, nextCall,
                  emitted, tally >>

-----------------------------------------------------------------------------
(* Variants a plausible slip in the code would give; the specification     *)
(* never uses them.                                                        *)
ExitRefusedKeepsEntry(t, k) ==
  /\ InCall(t, k)
  /\ Handles("exit", t, k)
  /\ enterState[<<t, k>>] # NoEntry
  /\ RingFull
  /\ call' = [call EXCEPT ![t] = [id |-> 0, kind |-> k, traced |-> FALSE]]
  /\ tally' = Counted(<<t, k>>, {"refused"})
  /\ UNCHANGED << phase, attached, targetCgroup, cgroup, nextCall, enterState, ring, emitted >>

ExitEmitsKeepsEntry(t, k) ==
  /\ InCall(t, k)
  /\ Handles("exit", t, k)
  /\ enterState[<<t, k>>] # NoEntry
  /\ ~ RingFull
  /\ call' = [call EXCEPT ![t] = [id |-> 0, kind |-> k, traced |-> FALSE]]
  /\ LET out == [enter |-> enterState[<<t, k>>], exit |-> call[t].id, from |-> cgroup[t]]
     IN  /\ ring' = Append(ring, out)
         /\ emitted' = emitted \union {out}
         /\ tally' = Counted(<<t, k>>, IF out.enter = out.exit THEN {"delivered"}
                                        ELSE {"delivered", "mispaired"})
  /\ UNCHANGED << phase, attached, targetCgroup, cgroup, nextCall, enterState >>

EnterCollidesDropsBoth(t, k) ==
  /\ Handles("enter", t, k)
  /\ ~ RingFull
  /\ enterState[<<t, k>>] # NoEntry
  /\ InUserMode(t)
  /\ nextCall < MaxCalls
  /\ nextCall' = nextCall + 1
  /\ call' = [call EXCEPT ![t] = [id |-> nextCall + 1, kind |-> k, traced |-> TRUE]]
  /\ ring' = Append(ring, Discarded)
  /\ enterState' = [enterState EXCEPT ![<<t, k>>] = NoEntry]
  /\ tally' = Counted(<<t, k>>, {"calls", "collision"})
  /\ UNCHANGED << phase, attached, targetCgroup, cgroup, emitted >>

-----------------------------------------------------------------------------
(* One step of task t into syscall kind k, common to every path through    *)
(* the enter handler.                                                      *)
Issue(t, k, traced) ==
  /\ InUserMode(t)
  /\ nextCall < MaxCalls
  /\ nextCall' = nextCall + 1
  /\ call' = [call EXCEPT ![t] = [id |-> nextCall + 1, kind |-> k, traced |-> traced]]
  /\ UNCHANGED << phase, attached, targetCgroup, cgroup, emitted >>

EnterUntraced(t, k) ==
  /\ ~ Handles("enter", t, k)
  /\ Issue(t, k, FALSE)
  /\ tally' = Counted(<<t, k>>, {"calls", "untraced"})
  /\ UNCHANGED << enterState, ring >>

(* reserve_*_event fails: counted, nothing saved. *)
EnterRefused(t, k) ==
  /\ Handles("enter", t, k)
  /\ RingFull
  /\ Issue(t, k, TRUE)
  /\ tally' = Counted(<<t, k>>, {"calls", "refused", "refusedEnter"})
  /\ UNCHANGED << enterState, ring >>

(* An entry is already there: it is kept, the new payload is dropped. *)
EnterCollides(t, k) ==
  /\ Handles("enter", t, k)
  /\ ~ RingFull
  /\ enterState[<<t, k>>] # NoEntry
  /\ Issue(t, k, TRUE)
  /\ ring' = Append(ring, Discarded)
  /\ tally' = Counted(<<t, k>>, {"calls", "collision"})
  /\ UNCHANGED enterState

EnterSaveFails(t, k) ==
  /\ Handles("enter", t, k)
  /\ ~ RingFull
  /\ enterState[<<t, k>>] = NoEntry
  /\ Issue(t, k, TRUE)
  /\ ring' = Append(ring, Discarded)
  /\ tally' = Counted(<<t, k>>, {"calls", "saveFail"})
  /\ UNCHANGED enterState

(* bpf_map_update_elem succeeds; a victim other than the key was evicted. *)
EnterSaves(t, k) ==
  /\ Handles("enter", t, k)
  /\ ~ RingFull
  /\ enterState[<<t, k>>] = NoEntry
  /\ Issue(t, k, TRUE)
  /\ ring' = Append(ring, Discarded)
  /\ \E victim \in Victims(<<t, k>>) :
       /\ enterState' = [key \in Keys |-> IF key = <<t, k>> THEN nextCall + 1
                                          ELSE IF key = victim THEN NoEntry
                                          ELSE enterState[key]]
       /\ tally' = [key \in Keys |->
                      IF key = <<t, k>> THEN Counted(key, {"calls"})[key]
                      ELSE IF key = victim THEN Counted(key, {"evicted"})[key]
                      ELSE tally[key]]

-----------------------------------------------------------------------------
Return(t) ==
  /\ call[t].id # 0
  /\ call' = [call EXCEPT ![t] = [id |-> 0, kind |-> call[t].kind, traced |-> FALSE]]
  /\ UNCHANGED << phase, attached, targetCgroup, cgroup, nextCall >>

(* The exit handler is gated off: what the enter handler saved stays. *)
ExitUntraced(t, k) ==
  /\ InCall(t, k)
  /\ ~ Handles("exit", t, k)
  /\ Return(t)
  /\ tally' = Counted(<<t, k>>, IF call[t].traced THEN {"lostExit"} ELSE {})
  /\ UNCHANGED << enterState, ring, emitted >>

ExitMiss(t, k) ==
  /\ InCall(t, k)
  /\ Handles("exit", t, k)
  /\ enterState[<<t, k>>] = NoEntry
  /\ Return(t)
  /\ tally' = Counted(<<t, k>>, {"miss"})
  /\ UNCHANGED << enterState, ring, emitted >>

(* The ring is full: the entry is deleted with the event. *)
ExitRefused(t, k) ==
  /\ InCall(t, k)
  /\ Handles("exit", t, k)
  /\ enterState[<<t, k>>] # NoEntry
  /\ RingFull
  /\ Return(t)
  /\ enterState' = [enterState EXCEPT ![<<t, k>>] = NoEntry]
  /\ tally' = Counted(<<t, k>>, {"refused"})
  /\ UNCHANGED << ring, emitted >>

(* The event takes the entry's payload, whichever call saved it. *)
ExitEmits(t, k) ==
  /\ InCall(t, k)
  /\ Handles("exit", t, k)
  /\ enterState[<<t, k>>] # NoEntry
  /\ ~ RingFull
  /\ Return(t)
  /\ LET out == [enter |-> enterState[<<t, k>>], exit |-> call[t].id, from |-> cgroup[t]]
     IN  /\ ring' = Append(ring, out)
         /\ emitted' = emitted \union {out}
         /\ tally' = Counted(<<t, k>>, IF out.enter = out.exit THEN {"delivered"}
                                        ELSE {"delivered", "mispaired"})
  /\ enterState' = [enterState EXCEPT ![<<t, k>>] = NoEntry]

-----------------------------------------------------------------------------
(* One process event: reserved and submitted by the same handler.          *)
ProcessEvent(t) == [enter |-> nextCall + 1, exit |-> nextCall + 1, from |-> cgroup[t]]

(* fork, exec and clone exits submit one event at once; refused when full. *)
SchedEvent(t) ==
  /\ Alive(t)
  /\ "process" \in attached
  /\ IsEventAllowed(t)
  /\ nextCall < MaxCalls
  /\ nextCall' = nextCall + 1
  /\ ring' = IF RingFull THEN ring ELSE Append(ring, ProcessEvent(t))
  /\ UNCHANGED << phase, attached, targetCgroup, cgroup, call, enterState, emitted, tally >>

(* Task t dies, in user mode or inside a syscall that never returns        *)
(* (exit_group, or execve of another thread): sched_process_exit runs, no  *)
(* syscall-exit handler does.                                              *)
TaskDies(t) ==
  /\ Alive(t) /\ t \notin Suppressed
  /\ nextCall < MaxCalls
  /\ nextCall' = nextCall + 1
  /\ cgroup' = [cgroup EXCEPT ![t] = NoCgroup]
  /\ call' = [call EXCEPT ![t] = [id |-> 0, kind |-> call[t].kind, traced |-> FALSE]]
  /\ tally' = Counted(<<t, call[t].kind>>,
                      IF call[t].id # 0 /\ call[t].traced THEN {"lostExit"} ELSE {})
  /\ ring' = IF "process" \in attached /\ IsEventAllowed(t) /\ ~ RingFull
             THEN Append(ring, ProcessEvent(t)) ELSE ring
  /\ UNCHANGED << phase, attached, targetCgroup, enterState, emitted >>

(* The kernel gives a free pid_tgid to a new task, in its parent's cgroup. *)
TaskStarts(t, c) ==
  /\ ~ Alive(t)
  /\ \E parent \in Tasks : cgroup[parent] = c
  /\ cgroup' = [cgroup EXCEPT ![t] = c]
  /\ UNCHANGED << phase, attached, targetCgroup, enterState, ring, emitted >>

(* Made by a syscall that is not of the family, the new task is first seen *)
(* in user mode; ...                                                       *)
StartsInUserMode(t, c) ==
  /\ TaskStarts(t, c)
  /\ UNCHANGED << call, nextCall, tally >>

(* ... a fork syscall of the raw family it is about to return from.        *)
StartsInFork(t, c, k) ==
  /\ k \in ForkKinds
  /\ TaskStarts(t, c)
  /\ nextCall < MaxCalls
  /\ nextCall' = nextCall + 1
  /\ call' = [call EXCEPT ![t] = [id |-> nextCall + 1, kind |-> k, traced |-> FALSE]]
  /\ tally' = Counted(<<t, k>>, {"calls", "untraced"})

(* A write of cgroup.procs: attach_pid moves the launched child into the   *)
(* target cgroup while it waits in read(2); a root target may move itself. *)
Migrate(t, c) ==
  /\ phase = "running"
  /\ Alive(t) /\ t \notin Suppressed
  /\ cgroup[t] # c
  /\ cgroup' = [cgroup EXCEPT ![t] = c]
  /\ UNCHANGED << phase, attached, targetCgroup, call, enterState, ring, nextCall,
                  emitted, tally >>

Next ==
  \/ \E program \in Programs : Attach(program)
  \/ SetTargetCgroup
  \/ PollRecord
  \/ \E t \in Tasks, k \in Kinds :
       \/ EnterUntraced(t, k) \/ EnterRefused(t, k) \/ EnterCollides(t, k)
       \/ EnterSaveFails(t, k) \/ EnterSaves(t, k)
       \/ ExitUntraced(t, k) \/ ExitMiss(t, k) \/ ExitRefused(t, k) \/ ExitEmits(t, k)
  \/ \E t \in Tasks : SchedEvent(t) \/ TaskDies(t)
  \/ \E t \in Tasks, c \in {Target, Other} :
       \/ StartsInUserMode(t, c) \/ Migrate(t, c)
       \/ \E k \in Kinds : StartsInFork(t, c, k)

Spec == Init /\ [][Next]_vars

-----------------------------------------------------------------------------
(* Type invariant. *)
TypeOK ==
  /\ phase \in {"attaching", "running"}
  /\ attached \subseteq Programs
  /\ targetCgroup \in {Target, NoCgroup}
  /\ cgroup \in [Tasks -> {Target, Other, NoCgroup}]
  /\ call \in [Tasks -> Call]
  /\ enterState \in [Keys -> CallIds]
  /\ ring \in Seq(Record)
  /\ nextCall \in CallIds
  /\ emitted \subseteq Record
  /\ tally \in [Keys -> [Counters -> Nat]]

(* A stale entry was saved by a call that is over.                         *)
Stale(t, k) ==
  /\ enterState[<<t, k>>] # NoEntry
  /\ ~ (InCall(t, k) /\ call[t].id = enterState[<<t, k>>])

Owed(condition) == IF condition THEN 1 ELSE 0

(* An event carries another call's payload only because the exit handler   *)
(* of an earlier call of the same task and kind was never run (gated off   *)
(* by a scope change, never attached, or the task died), and each such     *)
(* loss mispairs at most one event: emit_*_exit_event deletes what it used.*)
MispairingOwedToLostExits ==
  \A t \in Tasks, k \in Kinds :
    Number("mispaired", t, k) + Owed(Stale(t, k)) <= Number("lostExit", t, k)

(* A STATE_COLLISION is never a reentry of the same call: every one of     *)
(* them is owed to a distinct lost exit of that task and kind.             *)
CollisionsOwedToLostExits ==
  \A t \in Tasks, k \in Kinds :
    Number("collision", t, k) + Owed(Stale(t, k) /\ ~ InCall(t, k))
      <= Number("lostExit", t, k)

(* A STATE_MISS is explained by an enter that was not recorded: not        *)
(* traced, refused by the ring, failed to save, or evicted by the LRU map; *)
(* a collision alone never makes one.                                      *)
MissesExplained ==
  \A t \in Tasks, k \in Kinds :
    Number("miss", t, k) + Owed(InCall(t, k) /\ enterState[<<t, k>>] = NoEntry)
      <= Number("untraced", t, k) + Number("refusedEnter", t, k)
           + Number("saveFail", t, k) + Number("evicted", t, k)

(* ringbuf_reserve_fail, the bundle's events_dropped, never overstates the *)
(* loss: drops and delivered events together are at most the calls made,   *)
(* although one call reserves twice, on entry and on exit.                 *)
DropsNeverOverstated ==
  \A t \in Tasks, k \in Kinds :
    Number("refused", t, k) + Number("delivered", t, k)
      + Owed(enterState[<<t, k>>] # NoEntry) <= Number("calls", t, k)

(* The payload of one enter is submitted in at most one event.             *)
PayloadUsedOnce == \A a, b \in emitted : a.enter = b.enter => a = b

(* In a scoped capture the events of other cgroups that are still in the   *)
(* ring, submitted between attaching and scoping, all precede the target's *)
(* events: draining the ring before the launch would remove them.          *)
HostEventsPrecedeTargetEvents ==
  targetCgroup = Target =>
    \A i, j \in 1 .. Len(ring) : ring[i].from = Target /\ ring[j].from = Other => j < i
=============================================================================
