-------------------------- MODULE CaptureRun_proofs --------------------------
(***************************************************************************)
(* Proofs about CaptureRun, for every number of removal attempts.          *)
(***************************************************************************)
EXTENDS CaptureRun, TLAPS

(* The phases of run_capture. *)
Constructing == {"TmpDir", "Cgroup", "Session", "fork"}
Launching == {"attach", "go", "killUnlaunched", "reapUnlaunched"}
Watching == {"loop", "poll", "signalled?", "kill", "reap"}
Draining == {"drain", "drainAgain", "stop"}
Unwinding == {"~Session", "~Cgroup", "~TmpDir"}

(* What the session is in each phase; a session that does not run has no   *)
(* ring.                                                                   *)
SessionByPhase ==
  /\ pc \in {"TmpDir", "Cgroup", "Session"} => session = "none"
  /\ pc \in {"fork"} \union Launching \union Watching \union Draining
       => session = "running"
  /\ pc \in {"bundle", "~Cgroup", "~TmpDir"} \union Ended => session # "running"
  /\ session # "running" => unread = {}

(* What the child is in each phase. *)
ChildByPhase ==
  /\ pc \in Constructing => child = "none"
  /\ pc \in Launching \union Watching => child # "none"
  /\ pc \in {"reapUnlaunched", "reap"} => ~ Alive
  /\ pc = "signalled?" /\ running => child = "gone"
  /\ pc = "kill" => ~ running
  /\ pc \in Draining \union {"bundle", "returned"} \union Unwinding
       => child \in {"none", "gone"}

(* The sync pipe is released only after the cgroup attachment, and the     *)
(* child goes past it only when it is.                                     *)
PipeProtocol ==
  /\ pc \in Constructing \union {"killUnlaunched", "reapUnlaunched"} => pipe = "closed"
  /\ pc \in {"attach", "go"} => pipe = "open"
  /\ pc = "go" => inCgroup \/ child = "gone"
  /\ pipe = "go" => inCgroup
  /\ child \in {"setUp", "ready", "running"} => pipe = "go"

(* Which directories exist, and what was said of those that remain. *)
DirsByPhase ==
  /\ pc \in Steps => (scratch <=> pc # "TmpDir")
  /\ pc = "returned" /\ scratch => "scratch" \in warned
  /\ pc \in {"TmpDir", "Cgroup"} => ~ cgroup
  /\ pc \in {"~TmpDir", "returned"} /\ cgroup
       => "cgroup" \in warned \/ fault = "cgroupId"
  /\ pc = "~Cgroup" => attempts < RemovalAttempts
  /\ pc \in Steps \ {"~Cgroup", "~TmpDir"} => attempts = 0

(* Where records can be: in the WAL from the first poll on, in stop's      *)
(* loss only if no target wrote them after the drain.                      *)
RecordsByPhase ==
  /\ pc \in Constructing \union Launching => ~ recorded
  /\ recorded /\ ~ bundled /\ fault # "bundle" =>
       scratch /\ pc \in Watching \union Draining \union {"bundle", "killed"}
  /\ bundled => pc \in Unwinding \union Ended /\ session # "running"
  /\ pc \in {"drainAgain", "stop"} => "target" \notin unread
  /\ pc \in Steps \ ({"bundle"} \union Unwinding) => lost = {}
  /\ pc = "bundle" => "target" \notin lost

(* What was thrown, and whom a SIGKILL reached. *)
KillsByPhase ==
  /\ pc \in Constructing \union {"attach", "go"} \union Watching \union Draining
            \union {"bundle"}
       => fault = "none"
  /\ pc \in Constructing \union {"attach", "go", "killUnlaunched"}
            \union {"loop", "poll", "signalled?", "kill"}
       => hit = "none"
  /\ pc \in Launching \union {"loop", "poll"} /\ ~ inherited.sigchldIgnored
       => child # "gone"

(* TypeOK in two halves: the Boolean variables and the others. *)
Booleans ==
  /\ running \in BOOLEAN
  /\ inherited \in [sigchldIgnored : BOOLEAN, sigpipeIgnored : BOOLEAN]
  /\ inCgroup \in BOOLEAN /\ armed \in BOOLEAN 
  /\ pidReused \in BOOLEAN /\ straggler \in BOOLEAN
  /\ scratch \in BOOLEAN /\ cgroup \in BOOLEAN
  /\ recorded \in BOOLEAN /\ bundled \in BOOLEAN

Enumerated ==
  /\ pc \in Steps \union Ended /\ fault \in Faults /\ child \in ChildStates
  /\ pipe \in {"open", "go", "closed"} /\ session \in {"none", "running", "stopped"}
  /\ warned \subseteq {"scratch", "cgroup"} /\ attempts \in 0 .. RemovalAttempts
  /\ unread \subseteq {"target", "straggler"} /\ lost \subseteq {"target", "straggler"}
  /\ hit \in {"none", "target", "stranger", "nobody"}

(* What the steps keep, given the types of the Boolean variables. *)
Core ==
  /\ Enumerated
  /\ SessionByPhase
  /\ ChildByPhase
  /\ PipeProtocol
  /\ DirsByPhase
  /\ RecordsByPhase
  /\ KillsByPhase
  /\ TargetDrained
  /\ StrangersAreSpared

(* The inductive invariant: where each party is, phase by phase.           *)
IInv == Booleans /\ Core
-----------------------------------------------------------------------------
(* The initial states satisfy the invariant. *)
LEMMA InitIInv == Init => IInv
<1>1. Init => Booleans
  BY Zenon DEF Init, Booleans
<1>2. Init => Core
  BY <1>1, RunAssumption
  DEF RunAssumption, Init, IInv, Booleans, Core, Enumerated, SessionByPhase,
      ChildByPhase, PipeProtocol, DirsByPhase, RecordsByPhase, KillsByPhase,
      TargetDrained, StrangersAreSpared, Steps, Ended, Faults, ChildStates,
      Constructing, Launching, Watching, Draining, Unwinding, Alive
<1> QED
  BY <1>1, <1>2 DEF IInv

(* The Boolean variables stay Boolean. *)
LEMMA BooleansKept == Booleans /\ [Next]_vars => Booleans'
<1> SUFFICES ASSUME Booleans, [Next]_vars
             PROVE  Booleans'
  OBVIOUS
<1> USE DEF Booleans, Throws, Kill, Reap, Only, Consume, Stop, LeavesCgroup, GivesUp,
    TriesAgain, LeavesRun, Becomes, Dies, MaySubmit, setting, dirs, records, kid, others
<1>1. CASE CollectorStep
  <2>1. CASE MakeTmpDir
    BY <2>1, Zenon DEF MakeTmpDir
  <2>2. CASE MakeCgroup
    BY <2>2, Zenon DEF MakeCgroup
  <2>3. CASE MakeSession
    BY <2>3, Zenon DEF MakeSession
  <2>4. CASE Fork
    BY <2>4, Zenon DEF Fork
  <2>5. CASE AttachToCgroup
    BY <2>5, Zenon DEF AttachToCgroup
  <2>6. CASE WriteGo
    BY <2>6, Zenon DEF WriteGo
  <2>7. CASE KillUnlaunched
    BY <2>7, Zenon DEF KillUnlaunched
  <2>8. CASE ReapUnlaunched
    BY <2>8, Zenon DEF ReapUnlaunched
  <2>9. CASE LoopWaits
    BY <2>9, Zenon DEF LoopWaits
  <2>10. CASE LoopEnds
    BY <2>10, Zenon DEF LoopEnds
  <2>11. CASE Poll
    BY <2>11, Zenon DEF Poll
  <2>12. CASE TestSignalled
    BY <2>12, Zenon DEF TestSignalled
  <2>13. CASE KillTarget
    BY <2>13, Zenon DEF KillTarget
  <2>14. CASE ReapTarget
    BY <2>14, Zenon DEF ReapTarget
  <2>15. CASE Drain
    BY <2>15, Zenon DEF Drain
  <2>16. CASE StopSession
    BY <2>16, Zenon DEF StopSession
  <2>17. CASE Bundle
    BY <2>17, Zenon DEF Bundle
  <2>18. CASE DestroySession
    BY <2>18, Zenon DEF DestroySession
  <2>19. CASE RemoveCgroup
    BY <2>19, Zenon DEF RemoveCgroup
  <2>20. CASE CgroupBusy
    BY <2>20, Zenon DEF CgroupBusy
  <2>21. CASE CgroupNotRemovable
    BY <2>21, Zenon DEF CgroupNotRemovable
  <2>22. CASE RemoveTmpDir
    BY <2>22, Zenon DEF RemoveTmpDir
  <2> QED
    BY <1>1, <2>1, <2>2, <2>3, <2>4, <2>5, <2>6, <2>7, <2>8, <2>9, <2>10, <2>11, <2>12,
       <2>13, <2>14, <2>15, <2>16, <2>17, <2>18, <2>19, <2>20, <2>21, <2>22
    DEF CollectorStep
<1>2. CASE ChildStep \/ World
  <2>1. CASE ReadGo
    BY <2>1, Zenon DEF ReadGo
  <2>2. CASE ReadEnds
    BY <2>2, Zenon DEF ReadEnds
  <2>3. CASE ArmsPdeathsig
    BY <2>3, Zenon DEF ArmsPdeathsig
  <2>4. CASE Execs
    BY <2>4, Zenon DEF Execs
  <2>5. CASE SetUpFails
    BY <2>5, Zenon DEF SetUpFails
  <2>6. CASE DyingEnds
    BY <2>6, Zenon DEF DyingEnds
  <2>7. CASE TargetActs
    BY <2>7, Zenon DEF TargetActs
  <2>8. CASE TargetExits
    BY <2>8, Zenon DEF TargetExits
  <2>9. CASE KilledByOthers
    BY <2>9, Zenon DEF KilledByOthers
  <2>10. CASE StragglerActs
    BY <2>10, Zenon DEF StragglerActs
  <2>11. CASE PidReused
    BY <2>11, Zenon DEF PidReused
  <2>12. CASE Signal
    BY <2>12, Zenon DEF Signal
  <2>13. CASE CollectorIsKilled
    BY <2>13, Zenon DEF CollectorIsKilled
  <2> QED
    BY <1>2, <2>1, <2>2, <2>3, <2>4, <2>5, <2>6, <2>7, <2>8, <2>9, <2>10, <2>11, <2>12,
       <2>13
    DEF ChildStep, World
<1>3. CASE UNCHANGED vars
  BY <1>3 DEF vars, setting, dirs, records, kid, others
<1> QED
  BY <1>1, <1>2, <1>3 DEF Next

(* A step that leaves the enumerated variables alone, or in their type,    *)
(* keeps their types.                                                      *)
LEMMA StillEnumerated ==
  ASSUME Enumerated,
         UNCHANGED << fault, child, pipe, session, unread, lost, hit >>,
         pc' \in Steps \union Ended,
         warned' \subseteq {"scratch", "cgroup"},
         attempts' \in 0 .. RemovalAttempts
  PROVE  Enumerated'
  BY Zenon DEF Enumerated

(* Each step of the collector keeps the invariant, ... *)
LEMMA CollectorKeeps ==
  ASSUME IInv, CollectorStep
  PROVE  Core'
<1> USE RunAssumption
    DEF RunAssumption, IInv, Booleans, Core, Enumerated, SessionByPhase, ChildByPhase,
        PipeProtocol, DirsByPhase, RecordsByPhase, KillsByPhase, TargetDrained,
        StrangersAreSpared, Steps, Ended, Faults, ChildStates, Constructing, Launching,
        Watching, Draining, Unwinding, Alive,
        Goes, Throws, Only, setting, dirs, records, kid, others
<1>1. CASE MakeTmpDir
  BY <1>1 DEF MakeTmpDir
<1>2. CASE MakeCgroup
  BY <1>2 DEF MakeCgroup
<1>3. CASE MakeSession
  BY <1>3 DEF MakeSession
<1>4. CASE Fork
  BY <1>4 DEF Fork
<1>5. CASE AttachToCgroup
  BY <1>5 DEF AttachToCgroup
<1>6. CASE WriteGo
  BY <1>6 DEF WriteGo
<1>7. CASE KillUnlaunched
  BY <1>7 DEF KillUnlaunched, Kill
<1>8. CASE ReapUnlaunched
  BY <1>8 DEF ReapUnlaunched, Reap
<1>9. CASE LoopWaits
  BY <1>9 DEF LoopWaits
<1>10. CASE LoopEnds
  BY <1>10 DEF LoopEnds
<1>11. CASE Poll
  BY <1>11 DEF Poll, Consume
<1>12. CASE TestSignalled
  BY <1>12 DEF TestSignalled
<1>13. CASE KillTarget
  BY <1>13 DEF KillTarget, Kill
<1>14. CASE ReapTarget
  BY <1>14 DEF ReapTarget, Reap
<1>15. CASE Drain
  BY <1>15 DEF Drain, Consume
<1>16. CASE StopSession
  BY <1>16 DEF StopSession, Stop
<1>17. CASE Bundle
  BY <1>17 DEF Bundle
<1>18. CASE DestroySession
  BY <1>18 DEF DestroySession, Stop
<1>19. CASE RemoveCgroup
  BY <1>19 DEF RemoveCgroup, LeavesCgroup
<1>20. CASE CgroupBusy
  <2>1. attempts \in 0 .. RemovalAttempts /\ attempts < RemovalAttempts
       /\ attempts' = attempts + 1
    BY <1>20, Zenon DEF CgroupBusy, GivesUp, TriesAgain
  <2>2. attempts' \in 0 .. RemovalAttempts
    BY ONLY <2>1, RunAssumption DEF RunAssumption
  <2>3. pc' \in Steps \union Ended /\ warned' \subseteq {"scratch", "cgroup"}
    BY <1>20 DEF CgroupBusy, GivesUp, TriesAgain
  <2>4. UNCHANGED << fault, child, pipe, session, unread, lost, hit >>
    BY <1>20, Zenon DEF CgroupBusy, LeavesCgroup
  <2>5. Enumerated'
    BY ONLY Core, <2>2, <2>3, <2>4, StillEnumerated DEF Core
  <2>6. CASE attempts' = RemovalAttempts
    BY <1>20, <2>1, <2>5, <2>6 DEF CgroupBusy, LeavesCgroup, GivesUp
  <2>7. CASE attempts' # RemovalAttempts
    BY <1>20, <2>1, <2>5, <2>7 DEF CgroupBusy, LeavesCgroup, TriesAgain
  <2> QED
    BY <2>6, <2>7
<1>21. CASE CgroupNotRemovable
  BY <1>21 DEF CgroupNotRemovable, LeavesCgroup, GivesUp
<1>22. CASE RemoveTmpDir
  <2>1. CASE scratch' = FALSE /\ UNCHANGED warned
    <3>1. DirsByPhase'
      BY <1>22, <2>1 DEF RemoveTmpDir
    <3>2. Core' \/ ~ DirsByPhase'
      BY <1>22, <2>1 DEF RemoveTmpDir
    <3> QED
      BY <3>1, <3>2
  <2>2. CASE warned' = warned \union {"scratch"} /\ UNCHANGED scratch
    <3>1. DirsByPhase'
      BY <1>22, <2>2 DEF RemoveTmpDir
    <3>2. Core' \/ ~ DirsByPhase'
      BY <1>22, <2>2 DEF RemoveTmpDir
    <3> QED
      BY <3>1, <3>2
  <2> QED
    BY <1>22, <2>1, <2>2 DEF RemoveTmpDir
<1> QED
  BY <1>1, <1>2, <1>3, <1>4, <1>5, <1>6, <1>7, <1>8, <1>9, <1>10, <1>11, <1>12, <1>13,
      <1>14, <1>15, <1>16, <1>17, <1>18, <1>19, <1>20, <1>21, <1>22 DEF CollectorStep

(* A dying child keeps it: it leaves a record only in the cgroup. *)
LEMMA DyingKeeps ==
  ASSUME IInv, Dies, child \in ChildStates \ {"none", "zombie", "gone"},
         child = "waiting" => pipe = "closed"
  PROVE  Core'
<1> USE RunAssumption
    DEF RunAssumption, IInv, Booleans, Core, Enumerated, SessionByPhase, ChildByPhase,
        PipeProtocol, DirsByPhase, RecordsByPhase, KillsByPhase, TargetDrained,
        StrangersAreSpared, Steps, Ended, Faults, ChildStates, Constructing, Launching,
        Watching, Draining, Unwinding, Alive,
        CollectorGone, DeadChild, MaySubmit, LeavesRun, Dies, setting, dirs, records,
        kid, others
<1>1. CASE inCgroup
  <2>1. Enumerated'
    BY <1>1
  <2>2. SessionByPhase'
    BY <1>1
  <2>3. ChildByPhase'
    BY <1>1
  <2>4. PipeProtocol'
    BY <1>1
  <2>5. DirsByPhase'
    BY <1>1
  <2>6. RecordsByPhase'
    BY <1>1
  <2>7. KillsByPhase'
    BY <1>1
  <2>8. TargetDrained'
    BY <1>1
  <2>9. StrangersAreSpared'
    BY <1>1
  <2> QED
    BY <2>1, <2>2, <2>3, <2>4, <2>5, <2>6, <2>7, <2>8, <2>9
<1>2. CASE ~ inCgroup
  <2>1. Enumerated'
    BY <1>2
  <2>2. SessionByPhase'
    BY <1>2
  <2>3. ChildByPhase'
    BY <1>2
  <2>4. PipeProtocol'
    BY <1>2
  <2>5. DirsByPhase'
    BY <1>2
  <2>6. RecordsByPhase'
    BY <1>2
  <2>7. KillsByPhase'
    BY <1>2
  <2>8. TargetDrained'
    BY <1>2
  <2>9. StrangersAreSpared'
    BY <1>2
  <2> QED
    BY <2>1, <2>2, <2>3, <2>4, <2>5, <2>6, <2>7, <2>8, <2>9
<1> QED
  BY <1>1, <1>2

(* ... and each step of the child, of the target and of the world. *)
LEMMA OthersKeep ==
  ASSUME IInv, ChildStep \/ World
  PROVE  Core'
<1> USE RunAssumption
    DEF RunAssumption, IInv, Booleans, Core, Enumerated, SessionByPhase, ChildByPhase,
        PipeProtocol, DirsByPhase, RecordsByPhase, KillsByPhase, TargetDrained,
        StrangersAreSpared, Steps, Ended, Faults, ChildStates, Constructing, Launching,
        Watching, Draining, Unwinding, Alive,
        CollectorGone, DeadChild, MaySubmit, LeavesRun, Becomes, setting, dirs, records,
        kid, others
<1>1. CASE ReadGo
  BY <1>1 DEF ReadGo
<1>2. CASE ReadEnds
  BY <1>2, DyingKeeps DEF ReadEnds
<1>3. CASE ArmsPdeathsig
  BY <1>3 DEF ArmsPdeathsig
<1>4. CASE Execs
  BY <1>4 DEF Execs
<1>5. CASE SetUpFails
  BY <1>5, DyingKeeps DEF SetUpFails
<1>6. CASE DyingEnds
  BY <1>6, DyingKeeps DEF DyingEnds
<1>7. CASE TargetActs
  BY <1>7 DEF TargetActs
<1>8. CASE TargetExits
  BY <1>8, DyingKeeps DEF TargetExits
<1>9. CASE KilledByOthers
  BY <1>9 DEF KilledByOthers
<1>10. CASE StragglerActs
  BY <1>10 DEF StragglerActs
<1>11. CASE PidReused
  BY <1>11 DEF PidReused
<1>12. CASE Signal
  BY <1>12 DEF Signal
<1>13. CASE CollectorIsKilled
  BY <1>13 DEF CollectorIsKilled
<1> QED
  BY <1>1, <1>2, <1>3, <1>4, <1>5, <1>6, <1>7, <1>8, <1>9, <1>10, <1>11, <1>12, <1>13
      DEF ChildStep, World

(* A step of none of them keeps it. *)
LEMMA StutterKeeps ==
  ASSUME IInv, UNCHANGED vars
  PROVE  Core'
  BY DEF IInv, Core, Enumerated, SessionByPhase, ChildByPhase, PipeProtocol,
      DirsByPhase, RecordsByPhase, KillsByPhase, TargetDrained, StrangersAreSpared,
      Alive, vars, setting, dirs, records, kid, others

(* The invariant is inductive. *)
LEMMA NextIInv == IInv /\ [Next]_vars => IInv'
<1> SUFFICES ASSUME IInv, [Next]_vars
             PROVE  IInv'
  OBVIOUS
<1>1. Booleans'
  BY BooleansKept DEF IInv
<1>2. CASE CollectorStep
  BY <1>1, <1>2, CollectorKeeps DEF IInv
<1>3. CASE ChildStep \/ World
  BY <1>1, <1>3, OthersKeep DEF IInv
<1>4. CASE UNCHANGED vars
  BY <1>1, <1>4, StutterKeeps DEF IInv
<1> QED
  BY <1>2, <1>3, <1>4 DEF Next

(* The invariant holds in every reachable state, with any number of        *)
(* removal attempts.                                                       *)
THEOREM Invariance == Spec => []IInv
  BY InitIInv, NextIInv, PTL DEF Spec
-----------------------------------------------------------------------------
(* Every variable keeps its type; in particular ~Cgroup never tries more   *)
(* than RemovalAttempts times.                                             *)
THEOREM TypeCorrect == Spec => []TypeOK
<1>1. IInv => TypeOK
  BY DEF IInv, Booleans, Core, Enumerated, TypeOK
<1> QED
  BY <1>1, Invariance, PTL

(* Unless the collector is killed, the target runs only in its cgroup and  *)
(* only while the session does: launch_target releases it after the        *)
(* attachment, and every way out of run_capture waits for its death before *)
(* the session is stopped.                                                 *)
THEOREM TargetRunsObservedAlways == Spec => []TargetRunsObserved
<1>1. IInv => TargetRunsObserved
  BY DEF IInv, Core, Enumerated, SessionByPhase, ChildByPhase, PipeProtocol,
      TargetRunsObserved, Steps, Ended, Constructing, Launching, Watching, Draining,
      Unwinding
<1> QED
  BY <1>1, Invariance, PTL

(* Every path on which run_capture returns has waited for its child.       *)
THEOREM NoChildLeftAlways == Spec => []NoChildLeft
<1>1. IInv => NoChildLeft
  BY DEF IInv, Core, ChildByPhase, NoChildLeft
<1> QED
  BY <1>1, Invariance, PTL

(* A directory that outlives run_capture was warned about, but for a       *)
(* cgroup whose constructor threw, whatever the number of attempts.        *)
THEOREM LeftoversAreReportedAlways == Spec => []LeftoversAreReported
<1>1. IInv => LeftoversAreReported
  BY DEF IInv, Core, DirsByPhase, LeftoversAreReported
<1> QED
  BY <1>1, Invariance, PTL

(* No bundle misses a record the target's own process left in the ring:    *)
(* the child is dead, and what it left is drained, before stop.            *)
THEOREM TargetDrainedAlways == Spec => []TargetDrained
<1>1. IInv => TargetDrained
  BY DEF IInv, Core
<1> QED
  BY <1>1, Invariance, PTL

(* Recorded events are on disk, in the bundle or in the scratch directory, *)
(* unless writing the bundle failed.                                       *)
THEOREM RecordsAreKept == Spec => []RecordsLostOnlyByFailedBundle
<1>1. IInv => RecordsLostOnlyByFailedBundle
  BY DEF IInv, Core, RecordsByPhase, RecordsLostOnlyByFailedBundle
<1> QED
  BY <1>1, Invariance, PTL

(* A process that took over the child's pid is killed only after a signal, *)
(* or where SIGCHLD is ignored.                                            *)
THEOREM StrangersAreSparedAlways == Spec => []StrangersAreSpared
<1>1. IInv => StrangersAreSpared
  BY DEF IInv, Core
<1> QED
  BY <1>1, Invariance, PTL
=============================================================================
