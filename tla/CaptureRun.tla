----------------------------- MODULE CaptureRun -----------------------------
(***************************************************************************)
(* One `vishaya capture`: run_capture with the scratch directory, the      *)
(* cgroup and the session it owns, launch_target with the child it forks,  *)
(* the poll loop against waitpid and signals, and the stack unwinding that *)
(* ends every path.  The collector, the child and the processes the target *)
(* leaves behind run concurrently; a signal, or the death of either side,  *)
(* may come between any two steps.                                         *)
(*                                                                         *)
(* What the session does inside is CaptureSession's subject, what the      *)
(* bundle writer does BundleWriter's: here each is one step.               *)
(***************************************************************************)
EXTENDS Naturals

CONSTANT
  RemovalAttempts   \* times ~Cgroup tries rmdir (10 in the code)

ASSUME RunAssumption == RemovalAttempts \in Nat \ {0}

(* Where run_capture is: construction, launch_target, the loop, the end of *)
(* the capture, then the destructors in reverse order of construction.     *)
Steps == { "TmpDir", "Cgroup", "Session",
           "fork", "attach", "go", "killUnlaunched", "reapUnlaunched",
           "loop", "poll", "signalled?", "kill", "reap", "drain", "drainAgain", "stop", "bundle",
           "~Session", "~Cgroup", "~TmpDir" }
Ended == {"returned", "killed"}

(* The forked child: blocked on the sync pipe, setting itself up, about to *)
(* exec, the target itself, killed and on its way out, a zombie, gone.     *)
ChildStates == {"none", "waiting", "setUp", "ready", "running", "dying", "zombie", "gone"}

(* What run_capture caught; "sigpipe" is not caught, it kills.             *)
Faults == {"none", "TmpDir", "Cgroup", "cgroupId", "Session", "launch", "sigpipe", "bundle"}

VARIABLES
  pc,         \* the collector: the step it is at, or how it ended
  fault,      \* what ended the capture early
  running,    \* g_running
  inherited,  \* signal dispositions from the parent: SIGCHLD and SIGPIPE ignored
  pipe,       \* sync pipe: "open", the byte in it ("go"), or its write end "closed"
  session,    \* "none", "running", "stopped"
  scratch, cgroup,  \* the directories exist
  warned,     \* directories whose removal failed with a warning
  attempts,   \* rmdir attempts of ~Cgroup so far
  unread,     \* whose records wait in the ring
  lost,       \* whose records stop freed unread
  recorded,   \* events were written to the WAL
  bundled,    \* the bundle was published
  child,      \* the child
  inCgroup,   \* it is in the target cgroup
  armed,      \* it dies with the collector (PR_SET_PDEATHSIG took effect)
  hit,        \* whom the last SIGKILL reached
  pidReused,  \* the child is gone and its pid belongs to a stranger
  straggler   \* another process is in the cgroup, mostly one the target started

setting == << running, inherited >>
dirs == << scratch, cgroup, warned, attempts >>
records == << unread, lost, recorded, bundled >>
kid == << child, inCgroup, armed, hit >>
others == << pidReused, straggler >>
vars == << pc, fault, setting, pipe, session, dirs, records, kid, others >>

Init ==
  /\ pc = "TmpDir" /\ fault = "none" /\ running = TRUE
  /\ inherited \in [sigchldIgnored : BOOLEAN, sigpipeIgnored : BOOLEAN]
  /\ pipe = "closed" /\ session = "none"
  /\ scratch = FALSE /\ cgroup = FALSE /\ warned = {} /\ attempts = 0
  /\ unread = {} /\ lost = {} /\ recorded = FALSE /\ bundled = FALSE
  /\ child = "none" /\ inCgroup = FALSE /\ armed = FALSE /\ hit = "none"
  /\ pidReused = FALSE /\ straggler = FALSE

-----------------------------------------------------------------------------
Alive == child \in {"waiting", "setUp", "ready", "running"}
CollectorGone == pc \in Ended

(* A dead child stays a zombie until it is waited for, unless nobody will. *)
DeadChild == IF inherited.sigchldIgnored \/ CollectorGone THEN "gone" ELSE "zombie"

(* A process of the cgroup may leave a record, if the probes are attached: *)
(* the ring may refuse it, or the step may not be one that is recorded.    *)
MaySubmit(source) ==
  /\ unread' \in (IF session = "running" THEN {unread, unread \union {source}} ELSE {unread})
  /\ UNCHANGED << lost, recorded, bundled >>

(* The collector goes from one step to another ... *)
Goes(from, to) == pc = from /\ pc' = to
(* ... and may throw, which the catch of run_capture meets after the       *)
(* destructors of what has been constructed.                               *)
Throws(from, what, unwinding) ==
  /\ Goes(from, unwinding)
  /\ fault' = what

(* A step that touches nothing but pc. *)
Only == UNCHANGED << fault, setting, pipe, session, dirs, records, kid, others >>

-----------------------------------------------------------------------------
(* Construction. *)
MakeTmpDir ==
  /\ \/ Goes("TmpDir", "Cgroup") /\ scratch' = TRUE /\ UNCHANGED fault
     \/ Throws("TmpDir", "TmpDir", "returned") /\ UNCHANGED scratch
  /\ UNCHANGED << setting, pipe, session, cgroup, warned, attempts, records, kid, others >>

(* The directory is made, then its id read: when that fails the            *)
(* constructor throws, and no destructor removes what it made.             *)
MakeCgroup ==
  /\ \/ Goes("Cgroup", "Session") /\ cgroup' = TRUE /\ UNCHANGED fault
     \/ Throws("Cgroup", "Cgroup", "~TmpDir") /\ UNCHANGED cgroup
     \/ Throws("Cgroup", "cgroupId", "~TmpDir") /\ cgroup' = TRUE
  /\ UNCHANGED << setting, pipe, session, scratch, warned, attempts, records, kid, others >>

MakeSession ==
  /\ \/ Goes("Session", "fork") /\ session' = "running" /\ UNCHANGED fault
     \/ Throws("Session", "Session", "~Cgroup") /\ UNCHANGED session
  /\ UNCHANGED << setting, pipe, dirs, records, kid, others >>

-----------------------------------------------------------------------------
(* launch_target, in the parent. *)
Fork ==
  /\ \/ Goes("fork", "attach") /\ child' = "waiting" /\ pipe' = "open" /\ UNCHANGED fault
     \/ Throws("fork", "launch", "~Session") /\ UNCHANGED << child, pipe >>
  /\ UNCHANGED << setting, session, dirs, records, inCgroup, armed, hit, others >>

(* attach_pid moves whoever has the pid; when it fails the write end is    *)
(* closed before the child is killed and waited for.                       *)
AttachToCgroup ==
  /\ \/ /\ Goes("attach", "go")
        /\ child = "gone" => pidReused
        /\ inCgroup' = (child # "gone")
        /\ straggler' = (child = "gone")
        /\ UNCHANGED << pipe, fault >>
     \/ /\ Throws("attach", "launch", "killUnlaunched")
        /\ pipe' = "closed"
        /\ UNCHANGED << inCgroup, straggler >>
  /\ UNCHANGED << setting, session, dirs, records, child, armed, hit, pidReused >>

(* The byte is written while the child holds the read end; with that       *)
(* closed by the child's death, write raises SIGPIPE, and fails only where *)
(* the signal is ignored.                                                  *)
WriteGo ==
  /\ \/ /\ Goes("go", "loop")
        /\ Alive \/ child = "dying"
        /\ pipe' = "go"
        /\ UNCHANGED << fault, session, unread, child >>
     \/ /\ Throws("go", "launch", "killUnlaunched")
        /\ ~ Alive /\ inherited.sigpipeIgnored
        /\ pipe' = "closed"
        /\ UNCHANGED << session, unread, child >>
     \/ /\ Throws("go", "sigpipe", "killed")
        /\ ~ Alive /\ ~ inherited.sigpipeIgnored
        /\ pipe' = "closed" /\ session' = "stopped" /\ unread' = {}
        /\ child' = IF child = "zombie" THEN "gone" ELSE child
  /\ UNCHANGED << setting, dirs, lost, recorded, bundled, inCgroup, armed, hit, others >>

(* kill(2) on the child's pid, whoever has it now. *)
Kill ==
  /\ child' = IF Alive THEN "dying" ELSE child
  /\ hit' = IF child # "gone" THEN "target" ELSE IF pidReused THEN "stranger" ELSE "nobody"
  /\ UNCHANGED << fault, setting, pipe, session, dirs, records, inCgroup, armed, others >>

(* waitpid(2) without WNOHANG: blocks until the child is dead; a child     *)
(* that is gone already makes it fail, which nobody looks at.              *)
Reap ==
  /\ child \in {"zombie", "gone"}
  /\ child' = "gone"
  /\ UNCHANGED << fault, setting, pipe, session, dirs, records, inCgroup, armed, hit, others >>

(* Variant of the next action after which nobody waits for the child.      *)
KillUnlaunchedForgetsToWait == Goes("killUnlaunched", "~Session") /\ Kill

KillUnlaunched == Goes("killUnlaunched", "reapUnlaunched") /\ Kill
ReapUnlaunched == Goes("reapUnlaunched", "~Session") /\ Reap

-----------------------------------------------------------------------------
(* The poll loop. *)
LoopWaits ==
  /\ running
  /\ \/ Goes("loop", "poll") /\ child \notin {"zombie", "gone"} /\ UNCHANGED child
     \/ Goes("loop", "signalled?") /\ child \in {"zombie", "gone"} /\ child' = "gone"
  /\ UNCHANGED << fault, setting, pipe, session, dirs, records, inCgroup, armed, hit, others >>

LoopEnds == ~ running /\ Goes("loop", "signalled?") /\ Only

(* session.poll: every record in the ring is written, or counted. *)
Consume ==
  /\ unread' = {}
  /\ recorded' = (recorded \/ unread # {})
  /\ UNCHANGED << fault, setting, pipe, session, dirs, lost, bundled, kid, others >>

Poll == Goes("poll", "loop") /\ Consume

(* Variants of the next action: a signalled capture is finished without    *)
(* killing the target, waits for it without killing it, or is given up; a  *)
(* capture that was not signalled kills too.                               *)
SignalStopsWithoutKill == Goes("signalled?", "drain") /\ Only
SignalWaitsWithoutKill == Goes("signalled?", IF running THEN "drain" ELSE "reap") /\ Only
SignalGivesUp == Goes("signalled?", IF running THEN "drain" ELSE "~Session") /\ Only
KillsAnyway == Goes("signalled?", "kill") /\ Only

TestSignalled == Goes("signalled?", IF running THEN "drain" ELSE "kill") /\ Only
KillTarget == Goes("kill", "reap") /\ Kill
ReapTarget == Goes("reap", "drain") /\ Reap

-----------------------------------------------------------------------------
(* The end of the capture; first, a variant that stops without draining.   *)
DrainSkipped == (Goes("drain", "drainAgain") \/ Goes("drainAgain", "stop")) /\ Only

(* session.poll(50), twice. *)
Drain == (Goes("drain", "drainAgain") \/ Goes("drainAgain", "stop")) /\ Consume

(* Session::stop: records still in the ring are freed with it.             *)
Stop ==
  /\ session' = (IF session = "running" THEN "stopped" ELSE session)
  /\ lost' = lost \union unread
  /\ unread' = {}
  /\ UNCHANGED << fault, setting, pipe, dirs, recorded, bundled, kid, others >>

StopSession == Goes("stop", "bundle") /\ Stop

(* ArtifactCollector::finalize and write_bundle. *)
Bundle ==
  /\ \/ Goes("bundle", "~Session") /\ bundled' = TRUE /\ UNCHANGED fault
     \/ Throws("bundle", "bundle", "~Session") /\ UNCHANGED bundled
  /\ UNCHANGED << setting, pipe, session, dirs, unread, lost, recorded, kid, others >>

-----------------------------------------------------------------------------
(* The destructors. *)
DestroySession == Goes("~Session", "~Cgroup") /\ Stop

LeavesCgroup == UNCHANGED << fault, setting, pipe, session, scratch, records, kid, others >>

RemoveCgroup ==
  /\ Goes("~Cgroup", "~TmpDir")
  /\ ~ straggler
  /\ cgroup' = FALSE
  /\ UNCHANGED << warned, attempts >> /\ LeavesCgroup

GivesUp == Goes("~Cgroup", "~TmpDir") /\ warned' = warned \union {"cgroup"}
TriesAgain == Goes("~Cgroup", "~Cgroup") /\ UNCHANGED warned

(* Variant of the next action that gives up without the warning.           *)
CgroupBusySilently ==
  /\ attempts' = attempts + 1
  /\ Goes("~Cgroup", IF attempts' = RemovalAttempts THEN "~TmpDir" ELSE "~Cgroup")
  /\ UNCHANGED << cgroup, warned >> /\ LeavesCgroup

(* EBUSY, while processes are in the cgroup or the kernel has not finished *)
(* with it: try again, the last time give up with a warning.               *)
CgroupBusy ==
  /\ attempts' = attempts + 1
  /\ IF attempts' = RemovalAttempts THEN GivesUp ELSE TriesAgain
  /\ UNCHANGED cgroup /\ LeavesCgroup

(* Any other failure of rmdir ends the attempts.                           *)
CgroupNotRemovable == GivesUp /\ UNCHANGED << cgroup, attempts >> /\ LeavesCgroup

RemoveTmpDir ==
  /\ Goes("~TmpDir", "returned")
  /\ \/ scratch' = FALSE /\ UNCHANGED warned
     \/ warned' = warned \union {"scratch"} /\ UNCHANGED scratch
  /\ UNCHANGED << fault, setting, pipe, session, cgroup, attempts, records, kid, others >>

-----------------------------------------------------------------------------
(* launch_target, in the child. *)
LeavesRun == UNCHANGED << pc, fault, setting, pipe, session, dirs, hit >>

Becomes(from, to) ==
  /\ child = from /\ child' = to
  /\ UNCHANGED << records, inCgroup, others >> /\ LeavesRun

(* _exit, or death by a signal: the exit probe runs in the cgroup.         *)
Dies ==
  /\ child' = DeadChild
  /\ IF inCgroup THEN MaySubmit("target") ELSE UNCHANGED records
  /\ UNCHANGED << inCgroup, armed, others >> /\ LeavesRun

ReadGo == pipe = "go" /\ Becomes("waiting", "setUp") /\ UNCHANGED armed

(* Variant of the next action with the child's write end left open: the    *)
(* pipe never comes to its end.                                            *)
ReadNeverEnds == FALSE /\ Dies

(* The write end is closed and no byte was written: exit 126. *)
ReadEnds == pipe = "closed" /\ child = "waiting" /\ Dies

(* unshare, mount, chdir, then prctl, which may be rejected and has no     *)
(* effect once the collector is dead.                                      *)
ArmsPdeathsig ==
  /\ Becomes("setUp", "ready")
  /\ armed' \in (IF CollectorGone THEN {FALSE} ELSE BOOLEAN)

Execs == Becomes("ready", "running") /\ UNCHANGED armed

(* A failed unshare, mount, chdir or execve: exit 127. *)
SetUpFails == child \in {"setUp", "ready"} /\ Dies

-----------------------------------------------------------------------------
(* The target and the world. *)
TargetActs ==
  /\ child = "running"
  /\ MaySubmit("target")
  /\ straggler' \in {straggler, TRUE}
  /\ UNCHANGED << child, inCgroup, armed, pidReused >> /\ LeavesRun

TargetExits == child = "running" /\ Dies
DyingEnds == child = "dying" /\ Dies

(* Somebody else, or the kernel, kills the child at any moment.            *)
KilledByOthers ==
  /\ \E alive \in {"waiting", "setUp", "ready", "running"} : Becomes(alive, "dying")
  /\ UNCHANGED armed

StragglerActs ==
  /\ straggler
  /\ MaySubmit("straggler")
  /\ straggler' \in BOOLEAN
  /\ UNCHANGED << child, inCgroup, armed, pidReused >> /\ LeavesRun

PidReused ==
  /\ child = "gone" /\ ~ pidReused
  /\ pidReused' = TRUE
  /\ UNCHANGED << records, child, inCgroup, armed, straggler >> /\ LeavesRun

(* SIGINT or SIGTERM: the handler stops the loop. *)
Signal ==
  /\ running /\ ~ CollectorGone
  /\ running' = FALSE
  /\ UNCHANGED << pc, fault, inherited, pipe, session, dirs, records, kid, others >>

(* SIGKILL: no destructor runs.  The kernel closes the pipe and detaches   *)
(* the probes; the child dies too if it is armed.                          *)
CollectorIsKilled ==
  /\ ~ CollectorGone
  /\ pc' = "killed"
  /\ pipe' = IF pipe = "open" THEN "closed" ELSE pipe
  /\ session' = (IF session = "running" THEN "stopped" ELSE session)
  /\ unread' = {}
  /\ child' = IF child = "zombie" THEN "gone"
              ELSE IF armed /\ Alive THEN "dying" ELSE child
  /\ UNCHANGED << fault, setting, dirs, lost, recorded, bundled, inCgroup, armed, hit, others >>

-----------------------------------------------------------------------------
CollectorStep ==
  \/ MakeTmpDir \/ MakeCgroup \/ MakeSession
  \/ Fork \/ AttachToCgroup \/ WriteGo \/ KillUnlaunched \/ ReapUnlaunched
  \/ LoopWaits \/ LoopEnds \/ Poll \/ TestSignalled \/ KillTarget \/ ReapTarget
  \/ Drain \/ StopSession \/ Bundle
  \/ DestroySession \/ RemoveCgroup \/ CgroupBusy \/ CgroupNotRemovable \/ RemoveTmpDir

(* The child's own code up to the exec, and the end of a killed process.   *)
ChildStep == ReadGo \/ ReadEnds \/ ArmsPdeathsig \/ Execs \/ SetUpFails \/ DyingEnds

World ==
  \/ TargetActs \/ TargetExits \/ KilledByOthers \/ StragglerActs \/ PidReused
  \/ Signal \/ CollectorIsKilled

Next == CollectorStep \/ ChildStep \/ World

(* The kernel schedules the collector and the child; neither the target's  *)
(* exit nor a signal is assumed.  A poll is one step: that it returns, the *)
(* consumer catching up with the probes, is assumed of libbpf.             *)
Fairness == WF_vars(CollectorStep) /\ WF_vars(ChildStep)

Spec == Init /\ [][Next]_vars /\ Fairness

-----------------------------------------------------------------------------
(* Type invariant; the attempts of ~Cgroup are limited.                    *)
TypeOK ==
  /\ pc \in Steps \union Ended /\ fault \in Faults /\ running \in BOOLEAN
  /\ inherited \in [sigchldIgnored : BOOLEAN, sigpipeIgnored : BOOLEAN]
  /\ child \in ChildStates
  /\ inCgroup \in BOOLEAN /\ armed \in BOOLEAN /\ pidReused \in BOOLEAN
  /\ straggler \in BOOLEAN
  /\ pipe \in {"open", "go", "closed"}
  /\ session \in {"none", "running", "stopped"}
  /\ scratch \in BOOLEAN /\ cgroup \in BOOLEAN /\ warned \subseteq {"scratch", "cgroup"}
  /\ attempts \in 0 .. RemovalAttempts
  /\ unread \subseteq {"target", "straggler"} /\ lost \subseteq {"target", "straggler"}
  /\ recorded \in BOOLEAN /\ bundled \in BOOLEAN
  /\ hit \in {"none", "target", "stranger", "nobody"}

(* target_launch.h: no instruction of the target runs outside the cgroup,  *)
(* nor with the probes detached, as long as the collector was not killed:  *)
(* whatever failed, the target is dead before the session stops.           *)
TargetRunsObserved ==
  child = "running" /\ pc # "killed" => inCgroup /\ session = "running"

(* Every path on which run_capture returns has waited for its child: no    *)
(* failed launch, lost race or signal leaves one running or a zombie.      *)
NoChildLeft == pc = "returned" => child \in {"none", "gone"}

(* Whichever path was taken, a directory that is still there was warned    *)
(* about; the exception is a cgroup whose constructor threw.               *)
LeftoversAreReported ==
  pc = "returned" =>
    /\ scratch => "scratch" \in warned
    /\ cgroup => "cgroup" \in warned \/ fault = "cgroupId"

(* What the target's own process submitted up to its exit record is in     *)
(* every bundle, unless the ring refused it: the ring is drained between   *)
(* the child's death and stop.                                             *)
TargetDrained == bundled => "target" \notin lost

(* Once events were recorded they are on disk, in the bundle or in the     *)
(* scratch directory, unless writing the bundle failed: signals, kills and *)
(* lost races lose none.                                                   *)
RecordsLostOnlyByFailedBundle == recorded => bundled \/ scratch \/ fault = "bundle"

(* A SIGKILL reaches a stranger only when a signal comes after the loop    *)
(* has waited for a target that exited: a failed launch kills before it    *)
(* waits, while the pid is still the child's.  Only an ignored SIGCHLD,    *)
(* which leaves no zombie to hold the pid, defeats this.                   *)
StrangersAreSpared ==
  hit = "stranger" /\ ~ inherited.sigchldIgnored => ~ running /\ fault # "launch"

(* Once the target is dead or a signal has come, the capture ends.         *)
ShutsDown == (~ running \/ child \in {"dying", "zombie", "gone"}) ~> CollectorGone

(* The child never waits forever on the sync pipe, even if the collector   *)
(* dies before it has written the byte.                                    *)
ChildNeverHangs == (child = "waiting") ~> (child # "waiting")
=============================================================================
