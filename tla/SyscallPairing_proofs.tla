------------------------ MODULE SyscallPairing_proofs ------------------------
(***************************************************************************)
(* Proofs about SyscallPairing, for every set of tasks and kinds and every *)
(* capacity.                                                               *)
(***************************************************************************)
EXTENDS SyscallPairing, TLAPS

(* The inductive invariant.  Call ids are handed out once and in order, so *)
(* an entry names one call; a call that owns its entry was traced; a dead  *)
(* task is in no call.                                                     *)
CallsInOrder ==
  /\ \A t \in Tasks : call[t].id <= nextCall
  /\ \A key \in Keys : enterState[key] <= nextCall
  /\ \A e \in emitted : e.enter <= nextCall /\ e.enter # NoEntry

OwnersAreTraced ==
  \A t \in Tasks, k \in Kinds :
    InCall(t, k) /\ enterState[<<t, k>>] = call[t].id => call[t].traced

DeadTasksAreIdle == \A t \in Tasks : ~ Alive(t) => call[t].id = 0

(* An entry in the map belongs to one key and has not been submitted.      *)
EntriesAreUnused ==
  /\ \A key, other \in Keys :
       enterState[key] = enterState[other] /\ enterState[key] # NoEntry => key = other
  /\ \A key \in Keys, e \in emitted : enterState[key] # e.enter

(* CollisionsOwedToLostExits, made inductive: a stale entry stays owed     *)
(* while its task is in a call that the enter handler did not see.         *)
CollisionDebt ==
  \A t \in Tasks, k \in Kinds :
    Number("collision", t, k)
      + Owed(Stale(t, k) /\ ~ (InCall(t, k) /\ call[t].traced))
      <= Number("lostExit", t, k)

Pairing ==
  /\ CallsInOrder
  /\ OwnersAreTraced
  /\ DeadTasksAreIdle
  /\ EntriesAreUnused
  /\ PayloadUsedOnce
  /\ MispairingOwedToLostExits
  /\ CollisionDebt
  /\ MissesExplained
  /\ DropsNeverOverstated

Inductive == TypeOK /\ Pairing
-----------------------------------------------------------------------------

(* What Counted adds, and to what. *)
LEMMA CountedIs ==
  ASSUME tally \in [Keys -> [Counters -> Nat]], NEW key \in Keys, NEW counters
  PROVE  /\ Counted(key, counters) \in [Keys -> [Counters -> Nat]]
         /\ \A q \in Keys, c \in Counters :
              Counted(key, counters)[q][c] =
                IF q = key /\ c \in counters THEN tally[q][c] + 1 ELSE tally[q][c]
  BY DEF Counted

(* A task and a kind make a key. *)
LEMMA KeyType == \A t \in Tasks, k \in Kinds : <<t, k>> \in Keys
  BY DEF Keys

(* The initial states have the types. *)
LEMMA InitTypeOK == Init => TypeOK
<1> SUFFICES ASSUME Init PROVE TypeOK
  OBVIOUS
<1>0. 0 \in CallIds
  BY BoundsAssumption DEF BoundsAssumption, CallIds
<1>1. call \in [Tasks -> Call]
  <2>1. [id : {0}, kind : Kinds, traced : {FALSE}] \subseteq Call
    BY <1>0 DEF Call
  <2> QED
    BY <2>1 DEF Init
<1>2. ring \in Seq(Record)
  BY DEF Init
<1>3. tally \in [Keys -> [Counters -> Nat]]
  BY DEF Init
<1>4. enterState \in [Keys -> CallIds]
  BY <1>0 DEF Init, NoEntry
<1> QED
  BY <1>0, <1>1, <1>2, <1>3, <1>4 DEF Init, TypeOK

(* A scratch record has the type of the others. *)
LEMMA DiscardedType == Discarded \in Record
  BY BoundsAssumption DEF BoundsAssumption, Discarded, Record, CallIds

(* What entering a syscall leaves in call, whatever the handler does. *)
LEMMA IssueType ==
  ASSUME TypeOK, NEW t \in Tasks, NEW k \in Kinds, NEW traced \in BOOLEAN,
         Issue(t, k, traced)
  PROVE  /\ phase' \in {"attaching", "running"}
         /\ attached' \subseteq Programs
         /\ targetCgroup' \in {Target, NoCgroup}
         /\ cgroup' \in [Tasks -> {Target, Other, NoCgroup}]
         /\ call' \in [Tasks -> Call]
         /\ nextCall + 1 \in CallIds
         /\ nextCall' = nextCall + 1
         /\ emitted' \subseteq Record
<1>1. nextCall + 1 \in CallIds
  BY BoundsAssumption DEF BoundsAssumption, CallIds, TypeOK, Issue
<1>2. [id |-> nextCall + 1, kind |-> k, traced |-> traced] \in Call
  BY <1>1 DEF Call
<1> QED
  BY <1>1, <1>2 DEF TypeOK, Issue

(* What leaving a syscall leaves in call, whatever the handler does. *)
LEMMA ReturnType ==
  ASSUME TypeOK, NEW t \in Tasks, Return(t)
  PROVE  /\ phase' \in {"attaching", "running"}
         /\ attached' \subseteq Programs
         /\ targetCgroup' \in {Target, NoCgroup}
         /\ cgroup' \in [Tasks -> {Target, Other, NoCgroup}]
         /\ call' \in [Tasks -> Call]
         /\ nextCall' \in CallIds
<1>1. [id |-> 0, kind |-> call[t].kind, traced |-> FALSE] \in Call
  BY BoundsAssumption DEF BoundsAssumption, CallIds, TypeOK, Call
<1> QED
  BY <1>1 DEF TypeOK, Return

(* Every step keeps the types: one case per action. *)
LEMMA NextTypeOK == TypeOK /\ [Next]_vars => TypeOK'
<1> SUFFICES ASSUME TypeOK, [Next]_vars PROVE TypeOK'
  OBVIOUS
<1>z. 0 \in CallIds
  BY BoundsAssumption DEF BoundsAssumption, CallIds
<1>1. ASSUME NEW program \in Programs, Attach(program) PROVE TypeOK'
  BY <1>1 DEF Attach, TypeOK
<1>2. CASE SetTargetCgroup
  BY <1>2 DEF SetTargetCgroup, TypeOK
<1>3. CASE PollRecord
  BY <1>3 DEF PollRecord, TypeOK
<1>4. ASSUME NEW t \in Tasks, NEW k \in Kinds, EnterUntraced(t, k) PROVE TypeOK'
  <2>1. Issue(t, k, FALSE) /\ FALSE \in BOOLEAN
    BY <1>4 DEF EnterUntraced
  <2>2. ring' \in Seq(Record) /\ enterState' \in [Keys -> CallIds]
    BY <1>4 DEF EnterUntraced, TypeOK
  <2>3. tally' \in [Keys -> [Counters -> Nat]]
    BY <1>4, CountedIs, KeyType DEF EnterUntraced, TypeOK
  <2> QED
    BY <2>1, <2>2, <2>3, IssueType DEF TypeOK
<1>5. ASSUME NEW t \in Tasks, NEW k \in Kinds, EnterRefused(t, k) PROVE TypeOK'
  <2>1. Issue(t, k, TRUE) /\ TRUE \in BOOLEAN
    BY <1>5 DEF EnterRefused
  <2>2. ring' \in Seq(Record) /\ enterState' \in [Keys -> CallIds]
    BY <1>5 DEF EnterRefused, TypeOK
  <2>3. tally' \in [Keys -> [Counters -> Nat]]
    BY <1>5, CountedIs, KeyType DEF EnterRefused, TypeOK
  <2> QED
    BY <2>1, <2>2, <2>3, IssueType DEF TypeOK
<1>6. ASSUME NEW t \in Tasks, NEW k \in Kinds, EnterCollides(t, k) PROVE TypeOK'
  <2>1. Issue(t, k, TRUE) /\ TRUE \in BOOLEAN
    BY <1>6 DEF EnterCollides
  <2>2. ring' \in Seq(Record) /\ enterState' \in [Keys -> CallIds]
    BY <1>6, DiscardedType DEF EnterCollides, TypeOK
  <2>3. tally' \in [Keys -> [Counters -> Nat]]
    BY <1>6, CountedIs, KeyType DEF EnterCollides, TypeOK
  <2> QED
    BY <2>1, <2>2, <2>3, IssueType DEF TypeOK
<1>7. ASSUME NEW t \in Tasks, NEW k \in Kinds, EnterSaveFails(t, k) PROVE TypeOK'
  <2>1. Issue(t, k, TRUE) /\ TRUE \in BOOLEAN
    BY <1>7 DEF EnterSaveFails
  <2>2. ring' \in Seq(Record) /\ enterState' \in [Keys -> CallIds]
    BY <1>7, DiscardedType DEF EnterSaveFails, TypeOK
  <2>3. tally' \in [Keys -> [Counters -> Nat]]
    BY <1>7, CountedIs, KeyType DEF EnterSaveFails, TypeOK
  <2> QED
    BY <2>1, <2>2, <2>3, IssueType DEF TypeOK
<1>8. ASSUME NEW t \in Tasks, NEW k \in Kinds, EnterSaves(t, k) PROVE TypeOK'
  <2>1. Issue(t, k, TRUE) /\ TRUE \in BOOLEAN
    BY <1>8 DEF EnterSaves
  <2>2. nextCall + 1 \in CallIds
    BY <2>1, IssueType
  <2>3. ring' \in Seq(Record)
    BY <1>8, DiscardedType DEF EnterSaves, TypeOK
  <2>4. enterState' \in [Keys -> CallIds]
    BY <1>8, <1>z, <2>2 DEF EnterSaves, TypeOK, NoEntry
  <2>5. tally' \in [Keys -> [Counters -> Nat]]
    BY <1>8, CountedIs, KeyType DEF EnterSaves, TypeOK
  <2> QED
    BY <2>1, <2>3, <2>4, <2>5, IssueType DEF TypeOK
<1>9. ASSUME NEW t \in Tasks, NEW k \in Kinds, ExitUntraced(t, k) PROVE TypeOK'
  BY <1>9, CountedIs, KeyType, ReturnType DEF ExitUntraced, TypeOK
<1>10. ASSUME NEW t \in Tasks, NEW k \in Kinds, ExitMiss(t, k) PROVE TypeOK'
  BY <1>10, CountedIs, KeyType, ReturnType DEF ExitMiss, TypeOK
<1>11. ASSUME NEW t \in Tasks, NEW k \in Kinds, ExitRefused(t, k) PROVE TypeOK'
  BY <1>11, <1>z, CountedIs, KeyType, ReturnType DEF ExitRefused, TypeOK, NoEntry
<1>12. ASSUME NEW t \in Tasks, NEW k \in Kinds, ExitEmits(t, k) PROVE TypeOK'
  <2> DEFINE out == [enter |-> enterState[<<t, k>>], exit |-> call[t].id, from |-> cgroup[t]]
  <2>1. out \in Record
    BY KeyType DEF TypeOK, Record, Call
  <2>2. ring' = Append(ring, out) /\ emitted' = emitted \union {out}
    BY <1>12 DEF ExitEmits
  <2>3. ring' \in Seq(Record) /\ emitted' \subseteq Record
    <3> HIDE DEF out
    <3> QED
      BY <2>1, <2>2 DEF TypeOK
  <2>4. tally' \in [Keys -> [Counters -> Nat]]
    BY <1>12, CountedIs, KeyType DEF ExitEmits, TypeOK
  <2>5. enterState' \in [Keys -> CallIds]
    BY <1>12, <1>z DEF ExitEmits, TypeOK, NoEntry
  <2> QED
    BY <1>12, <2>3, <2>4, <2>5, ReturnType DEF ExitEmits, TypeOK
<1>13. ASSUME NEW t \in Tasks, nextCall < MaxCalls
       PROVE  nextCall + 1 \in CallIds /\ ProcessEvent(t) \in Record
  BY <1>13, BoundsAssumption DEF BoundsAssumption, TypeOK, ProcessEvent, Record, CallIds
<1>14. ASSUME NEW t \in Tasks, SchedEvent(t) PROVE TypeOK'
  <2>1. ring' \in Seq(Record)
    <3>1. CASE RingFull
      BY <1>14, <3>1 DEF SchedEvent, TypeOK
    <3>2. CASE ~ RingFull
      BY <1>13, <1>14, <3>2 DEF SchedEvent, TypeOK
    <3> QED
      BY <3>1, <3>2
  <2> QED
    BY <1>13, <1>14, <2>1 DEF SchedEvent, TypeOK
<1>15. ASSUME NEW t \in Tasks, TaskDies(t) PROVE TypeOK'
  <2>1. ring' \in Seq(Record)
    <3>1. ring' \in {ring, Append(ring, ProcessEvent(t))}
      BY <1>15 DEF TaskDies
    <3> QED
      BY <1>13, <1>15, <3>1 DEF TaskDies, TypeOK
  <2>2. [id |-> 0, kind |-> call[t].kind, traced |-> FALSE] \in Call
    BY <1>z DEF TypeOK, Call
  <2>3. call[t].kind \in Kinds
    BY DEF TypeOK, Call
  <2> QED
    BY <1>13, <1>15, <2>1, <2>2, <2>3, CountedIs, KeyType DEF TaskDies, TypeOK
<1>16. ASSUME NEW t \in Tasks, NEW c \in {Target, Other},
              StartsInUserMode(t, c) \/ Migrate(t, c)
       PROVE TypeOK'
  BY <1>16 DEF StartsInUserMode, TaskStarts, Migrate, TypeOK
<1>17. ASSUME NEW t \in Tasks, NEW c \in {Target, Other}, NEW k \in Kinds,
              StartsInFork(t, c, k)
       PROVE TypeOK'
  <2>1. nextCall + 1 \in CallIds
    BY <1>17, <1>13 DEF StartsInFork
  <2>2. [id |-> nextCall + 1, kind |-> k, traced |-> FALSE] \in Call
    BY <2>1 DEF Call
  <2>3. tally' \in [Keys -> [Counters -> Nat]]
    BY <1>17, CountedIs, KeyType DEF StartsInFork, TypeOK
  <2> QED
    BY <1>17, <2>1, <2>2, <2>3 DEF StartsInFork, TaskStarts, TypeOK
<1>18. CASE UNCHANGED vars
  BY <1>18 DEF vars, TypeOK
<1>19. CASE \E t \in Tasks, k \in Kinds :
              \/ EnterUntraced(t, k) \/ EnterRefused(t, k) \/ EnterCollides(t, k)
              \/ EnterSaveFails(t, k) \/ EnterSaves(t, k)
              \/ ExitUntraced(t, k) \/ ExitMiss(t, k) \/ ExitRefused(t, k) \/ ExitEmits(t, k)
  BY <1>19, <1>4, <1>5, <1>6, <1>7, <1>8, <1>9, <1>10, <1>11, <1>12
<1>20. CASE \E t \in Tasks, c \in {Target, Other} :
              \/ StartsInUserMode(t, c) \/ Migrate(t, c)
              \/ \E k \in Kinds : StartsInFork(t, c, k)
  BY <1>20, <1>16, <1>17
<1> QED
  BY <1>1, <1>2, <1>3, <1>14, <1>15, <1>18, <1>19, <1>20 DEF Next

(* Type correctness. *)
THEOREM TypeCorrect == Spec => []TypeOK
<1>1. TypeOK /\ [Next]_vars => TypeOK'
  BY NextTypeOK
<1> QED
  BY InitTypeOK, <1>1, PTL DEF Spec

-----------------------------------------------------------------------------
(* One more of each of the given counters for <<t, k>>, and nothing else. *)
CountersAfter(t, k, counters) ==
  \A u \in Tasks, j \in Kinds, c \in Counters :
    /\ tally[<<u, j>>][c] \in Nat
    /\ tally'[<<u, j>>][c] =
         IF u = t /\ j = k /\ c \in counters THEN tally[<<u, j>>][c] + 1
         ELSE tally[<<u, j>>][c]

(* A counter of a key after Counted. *)
LEMMA NumberAfter ==
  ASSUME TypeOK, NEW t \in Tasks, NEW k \in Kinds, NEW counters,
         tally' = Counted(<<t, k>>, counters)
  PROVE  CountersAfter(t, k, counters)
<1> SUFFICES ASSUME NEW u \in Tasks, NEW j \in Kinds, NEW c \in Counters
             PROVE  /\ tally[<<u, j>>][c] \in Nat
                    /\ tally'[<<u, j>>][c] =
                         IF u = t /\ j = k /\ c \in counters THEN tally[<<u, j>>][c] + 1
                         ELSE tally[<<u, j>>][c]
  BY DEF CountersAfter
<1>1. <<u, j>> \in Keys /\ <<t, k>> \in Keys
  BY KeyType
<1>2. <<u, j>> = <<t, k>> <=> u = t /\ j = k
  OBVIOUS
<1>3. tally \in [Keys -> [Counters -> Nat]]
  BY DEF TypeOK
<1>4. tally'[<<u, j>>][c] =
        IF <<u, j>> = <<t, k>> /\ c \in counters THEN tally[<<u, j>>][c] + 1
        ELSE tally[<<u, j>>][c]
  BY <1>1, <1>3, CountedIs
<1> QED
  BY <1>1, <1>2, <1>3, <1>4

(* Nothing is owed at the start. *)
LEMMA InitPairing == Init => Pairing
<1> SUFFICES ASSUME Init PROVE Pairing
  OBVIOUS
<1>1. \A t \in Tasks : call[t].id = 0
  BY DEF Init
<1>2. \A key \in Keys : enterState[key] = NoEntry
  BY DEF Init
<1>3. \A t \in Tasks, k \in Kinds, c \in Counters : tally[<<t, k>>][c] = 0
  BY KeyType DEF Init
<1>4. \A t \in Tasks, k \in Kinds : ~ Stale(t, k) /\ ~ InCall(t, k)
  BY <1>1, <1>2, KeyType DEF Stale, InCall
<1>5. emitted = {} /\ nextCall = 0
  BY DEF Init
<1>6. /\ MispairingOwedToLostExits /\ CollisionDebt
      /\ MissesExplained /\ DropsNeverOverstated
  BY <1>2, <1>3, <1>4, KeyType
     DEF MispairingOwedToLostExits, CollisionDebt, MissesExplained, DropsNeverOverstated,
         Number, Owed, Counters
<1> QED
  BY <1>1, <1>2, <1>4, <1>5, <1>6
     DEF Pairing, CallsInOrder, OwnersAreTraced, DeadTasksAreIdle, EntriesAreUnused,
         PayloadUsedOnce, NoEntry

(* The ranges of the ids, for every task and key. *)
LEMMA Ranges ==
  ASSUME Inductive
  PROVE  /\ nextCall \in Nat
         /\ \A u \in Tasks : call[u].id \in Nat /\ call[u].id <= nextCall
         /\ \A u \in Tasks, j \in Kinds :
              enterState[<<u, j>>] \in Nat /\ enterState[<<u, j>>] <= nextCall
<1>1. CallIds \subseteq Nat
  BY BoundsAssumption DEF BoundsAssumption, CallIds
<1>2. nextCall \in CallIds /\ enterState \in [Keys -> CallIds] /\ call \in [Tasks -> Call]
  BY DEF Inductive, TypeOK
<1>3. \A u \in Tasks : call[u].id \in CallIds
  BY <1>2 DEF Call
<1>4. /\ \A u \in Tasks : call[u].id <= nextCall
      /\ \A key \in Keys : enterState[key] <= nextCall
  BY DEF Inductive, Pairing, CallsInOrder
<1> QED
  BY <1>1, <1>2, <1>3, <1>4, KeyType

(* The ids stay in order when none is handed out but the next one. *)
LEMMA OrderKept ==
  ASSUME Inductive, nextCall' \in {nextCall, nextCall + 1},
         \A u \in Tasks : call'[u].id \in {0, call[u].id, nextCall'},
         \A key \in Keys : enterState'[key] \in {NoEntry, enterState[key], nextCall'},
         \A e \in emitted' : e \in emitted
           \/ \E key \in Keys : e.enter = enterState[key] /\ e.enter # NoEntry
  PROVE  CallsInOrder'
<1>1. TypeOK /\ Pairing
  BY DEF Inductive
<1>2. \A key \in Keys : enterState[key] \in Nat /\ enterState[key] <= nextCall
  BY <1>1, BoundsAssumption DEF Pairing, CallsInOrder, TypeOK, CallIds, BoundsAssumption
<1>3. \A u \in Tasks : call'[u].id <= nextCall'
  BY Ranges
<1>4. \A key \in Keys : enterState'[key] <= nextCall'
  BY <1>2, Ranges DEF NoEntry
<1>5. \A e \in emitted : e.enter \in Nat /\ e.enter <= nextCall /\ e.enter # NoEntry
  BY <1>1, BoundsAssumption
     DEF Pairing, CallsInOrder, TypeOK, Record, CallIds, BoundsAssumption
<1>6. \A e \in emitted' : e.enter <= nextCall' /\ e.enter # NoEntry
  BY <1>2, <1>5, Ranges
<1> QED
  BY <1>3, <1>4, <1>6 DEF CallsInOrder

(* A step that leaves calls, entries, events and counters alone. *)
LEMMA OtherPairing ==
  ASSUME Inductive, UNCHANGED << call, enterState, emitted, tally >>,
         nextCall' \in {nextCall, nextCall + 1},
         \A u \in Tasks : Alive(u) => Alive(u)'
  PROVE  Pairing'
<1>1. TypeOK /\ Pairing
  BY DEF Inductive
<1>2. CallsInOrder'
  BY OrderKept
<1>3. DeadTasksAreIdle'
  BY <1>1 DEF Pairing, DeadTasksAreIdle
<1>4. OwnersAreTraced' /\ EntriesAreUnused' /\ PayloadUsedOnce'
  BY <1>1 DEF Pairing, OwnersAreTraced, EntriesAreUnused, PayloadUsedOnce, InCall
<1>5. /\ MispairingOwedToLostExits' /\ CollisionDebt'
      /\ MissesExplained' /\ DropsNeverOverstated'
  BY <1>1 DEF Pairing, MispairingOwedToLostExits, CollisionDebt, MissesExplained,
              DropsNeverOverstated, Number, Owed, Stale, InCall
<1> QED
  BY <1>2, <1>3, <1>4, <1>5 DEF Pairing

(* Task t enters a call; it is alive from then on. *)
Begins(t, k, traced) ==
  /\ call[t].id = 0
  /\ call' = [call EXCEPT ![t] = [id |-> nextCall + 1, kind |-> k, traced |-> traced]]
  /\ nextCall' = nextCall + 1
  /\ emitted' = emitted
  /\ cgroup'[t] # NoCgroup
  /\ \A u \in Tasks : u # t => cgroup'[u] = cgroup[u]

(* A call starts and its enter handler leaves the entries alone: every path *)
(* through the handler but the one that saves.                              *)
LEMMA EnterPairing ==
  ASSUME Inductive,
         NEW t \in Tasks, NEW k \in Kinds, NEW traced \in BOOLEAN, Begins(t, k, traced),
         enterState' = enterState,
         NEW counters, CountersAfter(t, k, counters),
         "calls" \in counters,
         \A c \in {"mispaired", "lostExit", "delivered", "miss", "evicted"} : c \notin counters,
         "collision" \in counters => traced /\ enterState[<<t, k>>] # NoEntry,
         enterState[<<t, k>>] = NoEntry =>
           \E c \in {"untraced", "refusedEnter", "saveFail"} : c \in counters
  PROVE  Pairing'
<1>1. TypeOK /\ Pairing
  BY DEF Inductive
<1>2. /\ nextCall' = nextCall + 1 /\ emitted' = emitted /\ call[t].id = 0
      /\ \A u \in Tasks : Alive(u)' <=> Alive(u) \/ u = t
  BY DEF Begins, Alive
<1>3. /\ call'[t].id = nextCall + 1 /\ call'[t].kind = k /\ call'[t].traced = traced
      /\ \A u \in Tasks : u # t => call'[u] = call[u]
  BY <1>1 DEF Begins, TypeOK
<1>4. nextCall \in Nat /\ nextCall + 1 # 0
  BY Ranges
<1>5. \A u \in Tasks, j \in Kinds :
        InCall(u, j)' <=> IF u = t THEN j = k ELSE InCall(u, j)
  BY <1>2, <1>3, <1>4 DEF InCall
<1>6. \A u \in Tasks, j \in Kinds : Stale(u, j)' <=> Stale(u, j)
  <2> SUFFICES ASSUME NEW u \in Tasks, NEW j \in Kinds PROVE Stale(u, j)' <=> Stale(u, j)
    OBVIOUS
  <2>1. enterState[<<u, j>>] # nextCall + 1
    BY Ranges
  <2>2. CASE u = t
    BY <1>2, <1>3, <1>4, <2>1, <2>2 DEF Stale, InCall
  <2>3. CASE u # t
    BY <1>3, <2>3 DEF Stale, InCall
  <2> QED
    BY <2>2, <2>3
<1>8. CallsInOrder'
  <2>1. \A u \in Tasks : call'[u].id \in {0, call[u].id, nextCall'}
    BY <1>2, <1>3
  <2> QED
    BY <1>2, <2>1, OrderKept
<1>9. OwnersAreTraced'
  BY <1>1, <1>2, <1>3, <1>5, <1>6, Ranges DEF Pairing, OwnersAreTraced, InCall
<1>10. DeadTasksAreIdle'
  BY <1>1, <1>2, <1>3 DEF Pairing, DeadTasksAreIdle
<1>11. EntriesAreUnused' /\ PayloadUsedOnce'
  BY <1>1, <1>2 DEF Pairing, EntriesAreUnused, PayloadUsedOnce
<1> DEFINE N(c, u, j) == tally[<<u, j>>][c]
           M(c, u, j) == tally'[<<u, j>>][c]
<1>12. \A u \in Tasks, j \in Kinds :
         /\ N("calls", u, j) \in Nat /\ N("untraced", u, j) \in Nat
         /\ N("refused", u, j) \in Nat /\ N("refusedEnter", u, j) \in Nat
         /\ N("collision", u, j) \in Nat /\ N("saveFail", u, j) \in Nat
         /\ N("evicted", u, j) \in Nat /\ N("miss", u, j) \in Nat
         /\ N("delivered", u, j) \in Nat /\ N("mispaired", u, j) \in Nat
         /\ N("lostExit", u, j) \in Nat
  BY DEF CountersAfter, Counters
<1>13. \A u \in Tasks, j \in Kinds :
         /\ M("mispaired", u, j) = N("mispaired", u, j)
         /\ M("lostExit", u, j) = N("lostExit", u, j)
         /\ M("delivered", u, j) = N("delivered", u, j)
         /\ M("miss", u, j) = N("miss", u, j)
         /\ M("evicted", u, j) = N("evicted", u, j)
  BY DEF CountersAfter, Counters
<1>14. \A u \in Tasks, j \in Kinds, c \in Counters :
         M(c, u, j) = IF u = t /\ j = k /\ c \in counters THEN N(c, u, j) + 1 ELSE N(c, u, j)
  BY DEF CountersAfter
<1> HIDE DEF N, M
<1>15. ASSUME NEW u \in Tasks, NEW j \in Kinds
       PROVE  M("mispaired", u, j) + Owed(Stale(u, j)') <= M("lostExit", u, j)
  <2>1. N("mispaired", u, j) + Owed(Stale(u, j)) <= N("lostExit", u, j)
    BY <1>1 DEF Pairing, MispairingOwedToLostExits, Number, N
  <2> QED
    BY <2>1, <1>6, <1>13 DEF Owed
<1>16. ASSUME NEW u \in Tasks, NEW j \in Kinds
       PROVE  M("collision", u, j) + Owed((Stale(u, j) /\ ~ (InCall(u, j) /\ call[u].traced))')
                <= M("lostExit", u, j)
  <2>1. N("collision", u, j) + Owed(Stale(u, j) /\ ~ (InCall(u, j) /\ call[u].traced))
          <= N("lostExit", u, j)
    BY <1>1 DEF Pairing, CollisionDebt, Number, N
  <2>2. CASE u = t /\ j = k
    <3>1. ~ InCall(u, j) /\ InCall(u, j)' /\ call'[u].traced = traced
      BY <1>2, <1>3, <1>5, <2>2 DEF InCall
    <3>2. CASE "collision" \in counters
      BY <1>6, <1>12, <1>13, <1>14, <2>1, <2>2, <3>1, <3>2 DEF Owed, Counters, Stale, InCall
    <3>3. CASE "collision" \notin counters
      BY <1>6, <1>12, <1>13, <1>14, <2>1, <2>2, <3>1, <3>3 DEF Owed, Counters
    <3> QED
      BY <3>2, <3>3
  <2>3. CASE ~ (u = t /\ j = k)
    <3>1. (Stale(u, j) /\ ~ (InCall(u, j) /\ call[u].traced))'
            <=> Stale(u, j) /\ ~ (InCall(u, j) /\ call[u].traced)
      BY <1>2, <1>3, <1>5, <1>6, <2>3 DEF InCall
    <3> QED
      BY <1>12, <1>13, <1>14, <2>1, <2>3, <3>1 DEF Owed, Counters
  <2> QED
    BY <2>2, <2>3
<1>17. ASSUME NEW u \in Tasks, NEW j \in Kinds
       PROVE  M("miss", u, j) + Owed(InCall(u, j)' /\ enterState'[<<u, j>>] = NoEntry)
                <= M("untraced", u, j) + M("refusedEnter", u, j) + M("saveFail", u, j)
                     + M("evicted", u, j)
  <2>1. N("miss", u, j) + Owed(InCall(u, j) /\ enterState[<<u, j>>] = NoEntry)
          <= N("untraced", u, j) + N("refusedEnter", u, j) + N("saveFail", u, j)
               + N("evicted", u, j)
    BY <1>1 DEF Pairing, MissesExplained, Number, N
  <2>2. CASE u = t /\ j = k
    <3>1. ~ InCall(u, j)
      BY <1>2, <2>2 DEF InCall
    <3> QED
      BY <1>12, <1>13, <1>14, <2>1, <2>2, <3>1 DEF Owed, Counters
  <2>3. CASE ~ (u = t /\ j = k)
    <3>1. InCall(u, j)' => InCall(u, j)
      BY <1>5, <2>3
    <3> QED
      BY <1>12, <1>13, <1>14, <2>1, <2>3, <3>1 DEF Owed, Counters
  <2> QED
    BY <2>2, <2>3
<1>18. ASSUME NEW u \in Tasks, NEW j \in Kinds
       PROVE  M("refused", u, j) + M("delivered", u, j) + Owed(enterState'[<<u, j>>] # NoEntry)
                <= M("calls", u, j)
  <2>1. N("refused", u, j) + N("delivered", u, j) + Owed(enterState[<<u, j>>] # NoEntry)
          <= N("calls", u, j)
    BY <1>1 DEF Pairing, DropsNeverOverstated, Number, N
  <2> QED
    BY <1>12, <1>13, <1>14, <2>1 DEF Owed, Counters
<1>19. /\ MispairingOwedToLostExits' /\ CollisionDebt'
       /\ MissesExplained' /\ DropsNeverOverstated'
  BY <1>15, <1>16, <1>17, <1>18
     DEF MispairingOwedToLostExits, CollisionDebt, MissesExplained, DropsNeverOverstated,
         Number, M
<1> QED
  BY <1>8, <1>9, <1>10, <1>11, <1>19 DEF Pairing

(* Task t is in no call any more. *)
Ends(t) ==
  call' = [call EXCEPT ![t] = [id |-> 0, kind |-> call[t].kind, traced |-> FALSE]]

(* A call ends, or an idle task dies, and the entries stay. *)
LEMMA LeavePairing ==
  ASSUME Inductive,
         NEW t \in Tasks, NEW k \in Kinds, k = call[t].kind, Ends(t),
         UNCHANGED << enterState, emitted >>, nextCall' \in {nextCall, nextCall + 1},
         \A u \in Tasks : u # t => cgroup'[u] = cgroup[u],
         NEW counters, CountersAfter(t, k, counters), counters \subseteq {"lostExit", "miss"},
         InCall(t, k) /\ call[t].traced /\ enterState[<<t, k>>] # NoEntry
           => "lostExit" \in counters,
         "miss" \in counters => InCall(t, k) /\ enterState[<<t, k>>] = NoEntry
  PROVE  Pairing'
<1>1. TypeOK /\ Pairing
  BY DEF Inductive
<1>2. /\ nextCall' \in {nextCall, nextCall + 1} /\ emitted' = emitted
      /\ enterState' = enterState
  OBVIOUS
<1>3. /\ call'[t].id = 0
      /\ \A u \in Tasks : u # t => call'[u] = call[u]
  BY <1>1 DEF Ends, TypeOK
<1>5. \A u \in Tasks, j \in Kinds : InCall(u, j)' <=> InCall(u, j) /\ u # t
  BY <1>3 DEF InCall
<1>6. /\ \A u \in Tasks, j \in Kinds : ~ (u = t /\ j = k) => (Stale(u, j)' <=> Stale(u, j))
      /\ Stale(t, k)' <=> enterState[<<t, k>>] # NoEntry
  BY <1>2, <1>3, <1>5 DEF Stale, InCall
<1>8. CallsInOrder'
  <2>1. \A u \in Tasks : call'[u].id \in {0, call[u].id, nextCall'}
    BY <1>2, <1>3
  <2> QED
    BY <1>2, <2>1, OrderKept
<1>9. OwnersAreTraced'
  BY <1>1, <1>2, <1>3, <1>5 DEF Pairing, OwnersAreTraced
<1>10. DeadTasksAreIdle'
  BY <1>1, <1>3 DEF Pairing, DeadTasksAreIdle, Alive
<1>11. EntriesAreUnused' /\ PayloadUsedOnce'
  BY <1>1, <1>2 DEF Pairing, EntriesAreUnused, PayloadUsedOnce
<1> DEFINE N(c, u, j) == tally[<<u, j>>][c]
           M(c, u, j) == tally'[<<u, j>>][c]
<1>12. \A u \in Tasks, j \in Kinds :
         /\ N("calls", u, j) \in Nat /\ N("untraced", u, j) \in Nat
         /\ N("refused", u, j) \in Nat /\ N("refusedEnter", u, j) \in Nat
         /\ N("collision", u, j) \in Nat /\ N("saveFail", u, j) \in Nat
         /\ N("evicted", u, j) \in Nat /\ N("miss", u, j) \in Nat
         /\ N("delivered", u, j) \in Nat /\ N("mispaired", u, j) \in Nat
         /\ N("lostExit", u, j) \in Nat
  BY DEF CountersAfter, Counters
<1>13. \A u \in Tasks, j \in Kinds :
         /\ M("calls", u, j) = N("calls", u, j)
         /\ M("untraced", u, j) = N("untraced", u, j)
         /\ M("refused", u, j) = N("refused", u, j)
         /\ M("refusedEnter", u, j) = N("refusedEnter", u, j)
         /\ M("collision", u, j) = N("collision", u, j)
         /\ M("saveFail", u, j) = N("saveFail", u, j)
         /\ M("evicted", u, j) = N("evicted", u, j)
         /\ M("delivered", u, j) = N("delivered", u, j)
         /\ M("mispaired", u, j) = N("mispaired", u, j)
  <2>1. \A c \in {"calls", "untraced", "refused", "refusedEnter", "collision", "saveFail",
                  "evicted", "delivered", "mispaired"} : c \in Counters /\ c \notin counters
    BY DEF Counters
  <2> QED
    BY <2>1 DEF CountersAfter
<1>14. \A u \in Tasks, j \in Kinds, c \in Counters :
         M(c, u, j) = IF u = t /\ j = k /\ c \in counters THEN N(c, u, j) + 1 ELSE N(c, u, j)
  BY DEF CountersAfter
<1> HIDE DEF N, M
<1>15. ASSUME NEW u \in Tasks, NEW j \in Kinds
       PROVE  M("mispaired", u, j) + Owed(Stale(u, j)') <= M("lostExit", u, j)
  <2>1. N("mispaired", u, j) + Owed(Stale(u, j)) <= N("lostExit", u, j)
    BY <1>1 DEF Pairing, MispairingOwedToLostExits, Number, N
  <2>2. CASE u = t /\ j = k
    <3>1. enterState[<<t, k>>] # NoEntry /\ ~ Stale(t, k) => "lostExit" \in counters
      BY <1>1 DEF Stale, Pairing, OwnersAreTraced
    <3>2. M("lostExit", t, k) \in {N("lostExit", t, k), N("lostExit", t, k) + 1}
          /\ ("lostExit" \in counters => M("lostExit", t, k) = N("lostExit", t, k) + 1)
      BY <1>14 DEF Counters
    <3> QED
      BY <1>6, <1>12, <1>13, <2>1, <2>2, <3>1, <3>2 DEF Owed, Stale
  <2>3. CASE ~ (u = t /\ j = k)
    BY <1>6, <1>12, <1>13, <1>14, <2>1, <2>3 DEF Owed, Counters
  <2> QED
    BY <2>2, <2>3
<1>16. ASSUME NEW u \in Tasks, NEW j \in Kinds
       PROVE  M("collision", u, j) + Owed((Stale(u, j) /\ ~ (InCall(u, j) /\ call[u].traced))')
                <= M("lostExit", u, j)
  <2>1. N("collision", u, j) + Owed(Stale(u, j) /\ ~ (InCall(u, j) /\ call[u].traced))
          <= N("lostExit", u, j)
    BY <1>1 DEF Pairing, CollisionDebt, Number, N
  <2>2. CASE u = t /\ j = k
    <3>1. enterState[<<t, k>>] # NoEntry /\ InCall(t, k) /\ call[t].traced
            => "lostExit" \in counters
      OBVIOUS
    <3>2. enterState[<<t, k>>] # NoEntry /\ ~ (InCall(t, k) /\ call[t].traced) => Stale(t, k)
      BY <1>1 DEF Stale, Pairing, OwnersAreTraced
    <3>3. M("lostExit", t, k) \in {N("lostExit", t, k), N("lostExit", t, k) + 1}
          /\ ("lostExit" \in counters => M("lostExit", t, k) = N("lostExit", t, k) + 1)
      BY <1>14 DEF Counters
    <3> QED
      BY <1>6, <1>12, <1>13, <2>1, <2>2, <3>1, <3>2, <3>3 DEF Owed
  <2>3. CASE ~ (u = t /\ j = k)
    <3>1. (Stale(u, j) /\ ~ (InCall(u, j) /\ call[u].traced))'
            <=> Stale(u, j) /\ ~ (InCall(u, j) /\ call[u].traced)
      BY <1>3, <1>5, <1>6, <2>3 DEF InCall
    <3> QED
      BY <1>12, <1>13, <1>14, <2>1, <2>3, <3>1 DEF Owed, Counters
  <2> QED
    BY <2>2, <2>3
<1>17. ASSUME NEW u \in Tasks, NEW j \in Kinds
       PROVE  M("miss", u, j) + Owed(InCall(u, j)' /\ enterState'[<<u, j>>] = NoEntry)
                <= M("untraced", u, j) + M("refusedEnter", u, j) + M("saveFail", u, j)
                     + M("evicted", u, j)
  <2>1. N("miss", u, j) + Owed(InCall(u, j) /\ enterState[<<u, j>>] = NoEntry)
          <= N("untraced", u, j) + N("refusedEnter", u, j) + N("saveFail", u, j)
               + N("evicted", u, j)
    BY <1>1 DEF Pairing, MissesExplained, Number, N
  <2>2. CASE u = t /\ j = k
    BY <1>5, <1>12, <1>13, <1>14, <2>1, <2>2 DEF Owed, Counters
  <2>3. CASE ~ (u = t /\ j = k)
    BY <1>5, <1>12, <1>13, <1>14, <2>1, <2>3 DEF Owed, Counters
  <2> QED
    BY <2>2, <2>3
<1>18. ASSUME NEW u \in Tasks, NEW j \in Kinds
       PROVE  M("refused", u, j) + M("delivered", u, j) + Owed(enterState'[<<u, j>>] # NoEntry)
                <= M("calls", u, j)
  BY <1>1, <1>13 DEF Pairing, DropsNeverOverstated, Number, N
<1>19. /\ MispairingOwedToLostExits' /\ CollisionDebt'
       /\ MissesExplained' /\ DropsNeverOverstated'
  BY <1>15, <1>16, <1>17, <1>18
     DEF MispairingOwedToLostExits, CollisionDebt, MissesExplained, DropsNeverOverstated,
         Number, M
<1> QED
  BY <1>8, <1>9, <1>10, <1>11, <1>19 DEF Pairing

(* The exit handler finds an entry: it is deleted and its payload is        *)
(* submitted, or refused by the ring.                                       *)
LEMMA RemovePairing ==
  ASSUME Inductive,
         NEW t \in Tasks, NEW k \in Kinds, InCall(t, k), Ends(t),
         enterState[<<t, k>>] # NoEntry,
         enterState' = [enterState EXCEPT ![<<t, k>>] = NoEntry],
         UNCHANGED << nextCall, cgroup >>,
         NEW outs, emitted' = emitted \union outs,
         \A a \in outs : a.enter = enterState[<<t, k>>],
         \A a, b \in outs : a = b,
         NEW counters, CountersAfter(t, k, counters),
         counters \subseteq {"refused", "delivered", "mispaired"},
         ~ ("refused" \in counters /\ "delivered" \in counters),
         "mispaired" \in counters => enterState[<<t, k>>] # call[t].id
  PROVE  Pairing'
<1>1. TypeOK /\ Pairing
  BY DEF Inductive
<1>2. <<t, k>> \in Keys
  BY KeyType
<1>3. /\ call'[t].id = 0
      /\ \A u \in Tasks : u # t => call'[u] = call[u]
  BY <1>1 DEF Ends, TypeOK
<1>4. /\ enterState'[<<t, k>>] = NoEntry
      /\ \A key \in Keys : key # <<t, k>> => enterState'[key] = enterState[key]
  BY <1>1, <1>2 DEF TypeOK
<1>5. \A u \in Tasks, j \in Kinds :
        /\ InCall(u, j)' <=> InCall(u, j) /\ u # t
        /\ ~ (u = t /\ j = k) => enterState'[<<u, j>>] = enterState[<<u, j>>]
  BY <1>3, <1>4, KeyType DEF InCall
<1>6. \A u \in Tasks, j \in Kinds :
        Stale(u, j)' => Stale(u, j) /\ ~ (u = t /\ j = k)
  <2> SUFFICES ASSUME NEW u \in Tasks, NEW j \in Kinds, Stale(u, j)'
               PROVE  Stale(u, j) /\ ~ (u = t /\ j = k)
    OBVIOUS
  <2>1. ~ (u = t /\ j = k)
    BY <1>4 DEF Stale
  <2>2. CASE u = t
    BY <1>5, <2>1, <2>2 DEF Stale, InCall
  <2>3. CASE u # t
    BY <1>3, <1>5, <2>1, <2>3 DEF Stale, InCall
  <2> QED
    BY <2>1, <2>2, <2>3
<1>7. CallsInOrder'
  <2>1. \A u \in Tasks : call'[u].id \in {0, call[u].id, nextCall'}
    BY <1>3
  <2>2. \A key \in Keys : enterState'[key] \in {NoEntry, enterState[key], nextCall'}
    BY <1>4
  <2>3. \A e \in emitted' : e \in emitted
          \/ \E key \in Keys : e.enter = enterState[key] /\ e.enter # NoEntry
    BY <1>2
  <2> QED
    BY <2>1, <2>2, <2>3, OrderKept
<1>8. OwnersAreTraced'
  <2> SUFFICES ASSUME NEW u \in Tasks, NEW j \in Kinds,
                      InCall(u, j)', enterState'[<<u, j>>] = call'[u].id
               PROVE  call'[u].traced
    BY DEF OwnersAreTraced
  <2>1. u # t /\ InCall(u, j) /\ call'[u] = call[u] /\ enterState[<<u, j>>] = call[u].id
    BY <1>3, <1>5
  <2> QED
    BY <1>1, <2>1 DEF Pairing, OwnersAreTraced
<1>9. DeadTasksAreIdle'
  BY <1>1, <1>3 DEF Pairing, DeadTasksAreIdle, Alive
<1>10. EntriesAreUnused'
  <2>1. \A key \in Keys : enterState'[key] # NoEntry =>
          enterState'[key] = enterState[key] /\ key # <<t, k>>
    BY <1>4
  <2>2. \A e \in emitted' : e.enter # NoEntry
    BY <1>7 DEF CallsInOrder
  <2>3. \A key, other \in Keys :
          enterState'[key] = enterState'[other] /\ enterState'[key] # NoEntry => key = other
    BY <1>1, <2>1 DEF Pairing, EntriesAreUnused
  <2>4. \A key \in Keys, e \in emitted' : enterState'[key] # e.enter
    BY <1>1, <1>2, <2>1, <2>2 DEF Pairing, EntriesAreUnused
  <2> QED
    BY <2>3, <2>4 DEF EntriesAreUnused
<1>11. PayloadUsedOnce'
  BY <1>1, <1>2 DEF Pairing, PayloadUsedOnce, EntriesAreUnused
<1> DEFINE N(c, u, j) == tally[<<u, j>>][c]
           M(c, u, j) == tally'[<<u, j>>][c]
<1>12. \A u \in Tasks, j \in Kinds :
         /\ N("calls", u, j) \in Nat /\ N("untraced", u, j) \in Nat
         /\ N("refused", u, j) \in Nat /\ N("refusedEnter", u, j) \in Nat
         /\ N("collision", u, j) \in Nat /\ N("saveFail", u, j) \in Nat
         /\ N("evicted", u, j) \in Nat /\ N("miss", u, j) \in Nat
         /\ N("delivered", u, j) \in Nat /\ N("mispaired", u, j) \in Nat
         /\ N("lostExit", u, j) \in Nat
  BY DEF CountersAfter, Counters
<1>13. \A u \in Tasks, j \in Kinds :
         /\ M("calls", u, j) = N("calls", u, j)
         /\ M("untraced", u, j) = N("untraced", u, j)
         /\ M("refusedEnter", u, j) = N("refusedEnter", u, j)
         /\ M("collision", u, j) = N("collision", u, j)
         /\ M("saveFail", u, j) = N("saveFail", u, j)
         /\ M("evicted", u, j) = N("evicted", u, j)
         /\ M("miss", u, j) = N("miss", u, j)
         /\ M("lostExit", u, j) = N("lostExit", u, j)
  <2>1. \A c \in {"calls", "untraced", "refusedEnter", "collision", "saveFail",
                  "evicted", "miss", "lostExit"} : c \in Counters /\ c \notin counters
    BY DEF Counters
  <2> QED
    BY <2>1 DEF CountersAfter
<1>14. \A u \in Tasks, j \in Kinds, c \in Counters :
         M(c, u, j) = IF u = t /\ j = k /\ c \in counters THEN N(c, u, j) + 1 ELSE N(c, u, j)
  BY DEF CountersAfter
<1> HIDE DEF N, M
<1>15. ASSUME NEW u \in Tasks, NEW j \in Kinds
       PROVE  M("mispaired", u, j) + Owed(Stale(u, j)') <= M("lostExit", u, j)
  <2>1. N("mispaired", u, j) + Owed(Stale(u, j)) <= N("lostExit", u, j)
    BY <1>1 DEF Pairing, MispairingOwedToLostExits, Number, N
  <2>2. CASE u = t /\ j = k
    <3>1. "mispaired" \in counters => Stale(t, k)
      BY DEF Stale
    <3> QED
      BY <1>6, <1>12, <1>13, <1>14, <2>1, <2>2, <3>1 DEF Owed, Counters
  <2>3. CASE ~ (u = t /\ j = k)
    BY <1>6, <1>12, <1>13, <1>14, <2>1, <2>3 DEF Owed, Counters
  <2> QED
    BY <2>2, <2>3
<1>16. ASSUME NEW u \in Tasks, NEW j \in Kinds
       PROVE  M("collision", u, j) + Owed((Stale(u, j) /\ ~ (InCall(u, j) /\ call[u].traced))')
                <= M("lostExit", u, j)
  <2>1. N("collision", u, j) + Owed(Stale(u, j) /\ ~ (InCall(u, j) /\ call[u].traced))
          <= N("lostExit", u, j)
    BY <1>1 DEF Pairing, CollisionDebt, Number, N
  <2>2. (Stale(u, j) /\ ~ (InCall(u, j) /\ call[u].traced))'
          => Stale(u, j) /\ ~ (InCall(u, j) /\ call[u].traced)
    <3>1. CASE u = t
      BY <1>6, <3>1 DEF InCall
    <3>2. CASE u # t
      BY <1>3, <1>5, <1>6, <3>2
    <3> QED
      BY <3>1, <3>2
  <2> QED
    BY <1>12, <1>13, <2>1, <2>2 DEF Owed
<1>17. ASSUME NEW u \in Tasks, NEW j \in Kinds
       PROVE  M("miss", u, j) + Owed(InCall(u, j)' /\ enterState'[<<u, j>>] = NoEntry)
                <= M("untraced", u, j) + M("refusedEnter", u, j) + M("saveFail", u, j)
                     + M("evicted", u, j)
  <2>1. N("miss", u, j) + Owed(InCall(u, j) /\ enterState[<<u, j>>] = NoEntry)
          <= N("untraced", u, j) + N("refusedEnter", u, j) + N("saveFail", u, j)
               + N("evicted", u, j)
    BY <1>1 DEF Pairing, MissesExplained, Number, N
  <2>2. InCall(u, j)' /\ enterState'[<<u, j>>] = NoEntry
          => InCall(u, j) /\ enterState[<<u, j>>] = NoEntry
    BY <1>5
  <2> QED
    BY <1>12, <1>13, <2>1, <2>2 DEF Owed
<1>18. ASSUME NEW u \in Tasks, NEW j \in Kinds
       PROVE  M("refused", u, j) + M("delivered", u, j) + Owed(enterState'[<<u, j>>] # NoEntry)
                <= M("calls", u, j)
  <2>1. N("refused", u, j) + N("delivered", u, j) + Owed(enterState[<<u, j>>] # NoEntry)
          <= N("calls", u, j)
    BY <1>1 DEF Pairing, DropsNeverOverstated, Number, N
  <2>2. CASE u = t /\ j = k
    BY <1>4, <1>12, <1>13, <1>14, <2>1, <2>2 DEF Owed, Counters
  <2>3. CASE ~ (u = t /\ j = k)
    BY <1>5, <1>12, <1>13, <1>14, <2>1, <2>3 DEF Owed, Counters
  <2> QED
    BY <2>2, <2>3
<1>19. /\ MispairingOwedToLostExits' /\ CollisionDebt'
       /\ MissesExplained' /\ DropsNeverOverstated'
  BY <1>15, <1>16, <1>17, <1>18
     DEF MispairingOwedToLostExits, CollisionDebt, MissesExplained, DropsNeverOverstated,
         Number, M
<1> QED
  BY <1>7, <1>8, <1>9, <1>10, <1>11, <1>19 DEF Pairing

(* The counters after <<t, k>> was saved and victim, if another, evicted. *)
SavedAfter(t, k, victim) ==
  \A u \in Tasks, j \in Kinds, c \in Counters :
    /\ tally[<<u, j>>][c] \in Nat
    /\ tally'[<<u, j>>][c] =
         IF u = t /\ j = k
         THEN IF c = "calls" THEN tally[<<u, j>>][c] + 1 ELSE tally[<<u, j>>][c]
         ELSE IF <<u, j>> = victim /\ c = "evicted" THEN tally[<<u, j>>][c] + 1
         ELSE tally[<<u, j>>][c]

(* The enter handler saves the entry; the map may evict another one. *)
LEMMA SavePairing ==
  ASSUME Inductive,
         NEW t \in Tasks, NEW k \in Kinds, Begins(t, k, TRUE),
         enterState[<<t, k>>] = NoEntry,
         NEW victim \in Keys, SavedAfter(t, k, victim),
         enterState' = [key \in Keys |-> IF key = <<t, k>> THEN nextCall + 1
                                         ELSE IF key = victim THEN NoEntry
                                         ELSE enterState[key]]
  PROVE  Pairing'
<1>1. TypeOK /\ Pairing
  BY DEF Inductive
<1>2. /\ nextCall' = nextCall + 1 /\ emitted' = emitted /\ call[t].id = 0
      /\ \A u \in Tasks : Alive(u)' <=> Alive(u) \/ u = t
  BY DEF Begins, Alive
<1>3. /\ call'[t].id = nextCall + 1 /\ call'[t].kind = k /\ call'[t].traced
      /\ \A u \in Tasks : u # t => call'[u] = call[u]
  BY <1>1 DEF Begins, TypeOK
<1>4. nextCall \in Nat /\ nextCall + 1 # 0 /\ <<t, k>> \in Keys
  BY Ranges, KeyType
<1>5. \A u \in Tasks, j \in Kinds :
        /\ InCall(u, j)' <=> IF u = t THEN j = k ELSE InCall(u, j)
        /\ u = t => ~ InCall(u, j)
  BY <1>2, <1>3, <1>4 DEF InCall
<1>6. /\ enterState'[<<t, k>>] = nextCall + 1
      /\ \A key \in Keys : key # <<t, k>> =>
           enterState'[key] = IF key = victim THEN NoEntry ELSE enterState[key]
  BY <1>4
<1>7. \A u \in Tasks, j \in Kinds : ~ (u = t /\ j = k) =>
        enterState'[<<u, j>>] = IF <<u, j>> = victim THEN NoEntry ELSE enterState[<<u, j>>]
  BY <1>6, KeyType
<1>8. CallsInOrder'
  <2>1. \A u \in Tasks : call'[u].id \in {0, call[u].id, nextCall'}
    BY <1>2, <1>3
  <2>2. \A key \in Keys : enterState'[key] \in {NoEntry, enterState[key], nextCall'}
    BY <1>2, <1>6
  <2> QED
    BY <1>2, <2>1, <2>2, OrderKept
<1>9. \A u \in Tasks, j \in Kinds : Stale(u, j)' => Stale(u, j) /\ ~ (u = t /\ j = k)
  <2> SUFFICES ASSUME NEW u \in Tasks, NEW j \in Kinds, Stale(u, j)'
               PROVE  Stale(u, j) /\ ~ (u = t /\ j = k)
    OBVIOUS
  <2>1. ~ (u = t /\ j = k)
    BY <1>3, <1>4, <1>6 DEF Stale, InCall
  <2>2. enterState[<<u, j>>] # NoEntry /\ enterState'[<<u, j>>] = enterState[<<u, j>>]
    BY <1>7, <2>1 DEF Stale
  <2>3. CASE u = t
    BY <1>5, <2>1, <2>2, <2>3 DEF Stale
  <2>4. CASE u # t
    BY <1>3, <2>1, <2>2, <2>4 DEF Stale, InCall
  <2> QED
    BY <2>1, <2>3, <2>4
<1>10. OwnersAreTraced'
  <2> SUFFICES ASSUME NEW u \in Tasks, NEW j \in Kinds,
                      InCall(u, j)', enterState'[<<u, j>>] = call'[u].id
               PROVE  call'[u].traced
    BY DEF OwnersAreTraced
  <2>1. CASE u = t
    BY <1>3, <2>1
  <2>2. CASE u # t
    <3>1. InCall(u, j) /\ call'[u] = call[u] /\ call[u].id # NoEntry
      BY <1>3, <1>5, <2>2 DEF InCall, NoEntry
    <3>2. enterState[<<u, j>>] = call[u].id
      BY <1>7, <2>2, <3>1
    <3> QED
      BY <1>1, <3>1, <3>2 DEF Pairing, OwnersAreTraced
  <2> QED
    BY <2>1, <2>2
<1>11. DeadTasksAreIdle'
  BY <1>1, <1>2, <1>3 DEF Pairing, DeadTasksAreIdle
<1>12. EntriesAreUnused' /\ PayloadUsedOnce'
  <2>1. \A key \in Keys : enterState[key] # nextCall + 1
    BY <1>1, <1>4, BoundsAssumption
       DEF Pairing, CallsInOrder, TypeOK, CallIds, BoundsAssumption
  <2>2. \A e \in emitted : e.enter # nextCall + 1 /\ e.enter # NoEntry
    BY <1>1, <1>4, BoundsAssumption
       DEF Pairing, CallsInOrder, TypeOK, Record, CallIds, BoundsAssumption
  <2>3. \A key, other \in Keys :
          enterState'[key] = enterState'[other] /\ enterState'[key] # NoEntry => key = other
    BY <1>1, <1>6, <2>1 DEF Pairing, EntriesAreUnused
  <2>4. \A key \in Keys, e \in emitted : enterState'[key] # e.enter
    BY <1>1, <1>6, <2>2 DEF Pairing, EntriesAreUnused
  <2> QED
    BY <1>1, <1>2, <2>3, <2>4 DEF Pairing, EntriesAreUnused, PayloadUsedOnce
<1> DEFINE N(c, u, j) == tally[<<u, j>>][c]
           M(c, u, j) == tally'[<<u, j>>][c]
<1>13. \A u \in Tasks, j \in Kinds :
         /\ N("calls", u, j) \in Nat /\ N("untraced", u, j) \in Nat
         /\ N("refused", u, j) \in Nat /\ N("refusedEnter", u, j) \in Nat
         /\ N("collision", u, j) \in Nat /\ N("saveFail", u, j) \in Nat
         /\ N("evicted", u, j) \in Nat /\ N("miss", u, j) \in Nat
         /\ N("delivered", u, j) \in Nat /\ N("mispaired", u, j) \in Nat
         /\ N("lostExit", u, j) \in Nat
  BY DEF SavedAfter, Counters
<1>14. \A u \in Tasks, j \in Kinds :
         /\ M("untraced", u, j) = N("untraced", u, j)
         /\ M("refused", u, j) = N("refused", u, j)
         /\ M("refusedEnter", u, j) = N("refusedEnter", u, j)
         /\ M("collision", u, j) = N("collision", u, j)
         /\ M("saveFail", u, j) = N("saveFail", u, j)
         /\ M("miss", u, j) = N("miss", u, j)
         /\ M("delivered", u, j) = N("delivered", u, j)
         /\ M("mispaired", u, j) = N("mispaired", u, j)
         /\ M("lostExit", u, j) = N("lostExit", u, j)
  <2>1. \A u \in Tasks, j \in Kinds, c \in Counters :
          c # "calls" /\ c # "evicted" => M(c, u, j) = N(c, u, j)
    BY DEF SavedAfter
  <2> HIDE DEF N, M
  <2> QED
    BY <2>1 DEF Counters
<1>15. \A u \in Tasks, j \in Kinds :
         /\ M("calls", u, j) = IF u = t /\ j = k THEN N("calls", u, j) + 1
                               ELSE N("calls", u, j)
         /\ M("evicted", u, j) = IF ~ (u = t /\ j = k) /\ <<u, j>> = victim
                                 THEN N("evicted", u, j) + 1 ELSE N("evicted", u, j)
  BY DEF SavedAfter, Counters
<1> HIDE DEF N, M
<1>16. ASSUME NEW u \in Tasks, NEW j \in Kinds
       PROVE  M("mispaired", u, j) + Owed(Stale(u, j)') <= M("lostExit", u, j)
  <2>1. N("mispaired", u, j) + Owed(Stale(u, j)) <= N("lostExit", u, j)
    BY <1>1 DEF Pairing, MispairingOwedToLostExits, Number, N
  <2> QED
    BY <1>9, <1>13, <1>14, <2>1 DEF Owed
<1>17. ASSUME NEW u \in Tasks, NEW j \in Kinds
       PROVE  M("collision", u, j) + Owed((Stale(u, j) /\ ~ (InCall(u, j) /\ call[u].traced))')
                <= M("lostExit", u, j)
  <2>1. N("collision", u, j) + Owed(Stale(u, j) /\ ~ (InCall(u, j) /\ call[u].traced))
          <= N("lostExit", u, j)
    BY <1>1 DEF Pairing, CollisionDebt, Number, N
  <2>2. (Stale(u, j) /\ ~ (InCall(u, j) /\ call[u].traced))'
          => Stale(u, j) /\ ~ (InCall(u, j) /\ call[u].traced)
    <3>1. CASE u = t
      BY <1>5, <1>9, <3>1
    <3>2. CASE u # t
      BY <1>3, <1>5, <1>9, <3>2
    <3> QED
      BY <3>1, <3>2
  <2> QED
    BY <1>13, <1>14, <2>1, <2>2 DEF Owed
<1>18. ASSUME NEW u \in Tasks, NEW j \in Kinds
       PROVE  M("miss", u, j) + Owed(InCall(u, j)' /\ enterState'[<<u, j>>] = NoEntry)
                <= M("untraced", u, j) + M("refusedEnter", u, j) + M("saveFail", u, j)
                     + M("evicted", u, j)
  <2>1. N("miss", u, j) + Owed(InCall(u, j) /\ enterState[<<u, j>>] = NoEntry)
          <= N("untraced", u, j) + N("refusedEnter", u, j) + N("saveFail", u, j)
               + N("evicted", u, j)
    BY <1>1 DEF Pairing, MissesExplained, Number, N
  <2>2. CASE u = t /\ j = k
    BY <1>4, <1>6, <1>13, <1>14, <1>15, <2>1, <2>2 DEF Owed, NoEntry
  <2>3. CASE ~ (u = t /\ j = k)
    <3>1. InCall(u, j)' => InCall(u, j)
      BY <1>5, <2>3
    <3> QED
      BY <1>7, <1>13, <1>14, <1>15, <2>1, <2>3, <3>1 DEF Owed
  <2> QED
    BY <2>2, <2>3
<1>19. ASSUME NEW u \in Tasks, NEW j \in Kinds
       PROVE  M("refused", u, j) + M("delivered", u, j) + Owed(enterState'[<<u, j>>] # NoEntry)
                <= M("calls", u, j)
  <2>1. N("refused", u, j) + N("delivered", u, j) + Owed(enterState[<<u, j>>] # NoEntry)
          <= N("calls", u, j)
    BY <1>1 DEF Pairing, DropsNeverOverstated, Number, N
  <2>2. CASE u = t /\ j = k
    BY <1>13, <1>14, <1>15, <2>1, <2>2 DEF Owed
  <2>3. CASE ~ (u = t /\ j = k)
    BY <1>7, <1>13, <1>14, <1>15, <2>1, <2>3 DEF Owed
  <2> QED
    BY <2>2, <2>3
<1>20. /\ MispairingOwedToLostExits' /\ CollisionDebt'
       /\ MissesExplained' /\ DropsNeverOverstated'
  BY <1>16, <1>17, <1>18, <1>19
     DEF MispairingOwedToLostExits, CollisionDebt, MissesExplained, DropsNeverOverstated,
         Number, M
<1> QED
  BY <1>8, <1>10, <1>11, <1>12, <1>20 DEF Pairing

(* Every handler, and everything else that happens, keeps the invariant. *)
LEMMA NextInductive == Inductive /\ [Next]_vars => Inductive'
<1> SUFFICES ASSUME Inductive, [Next]_vars PROVE Pairing'
  BY NextTypeOK DEF Inductive
<1>0. TypeOK /\ Pairing
  BY DEF Inductive
<1>1. ASSUME NEW t \in Tasks, NEW k \in Kinds, NEW traced \in BOOLEAN, Issue(t, k, traced)
      PROVE  Begins(t, k, traced)
  BY <1>1 DEF Issue, InUserMode, Alive, Begins
<1>2. ASSUME NEW t \in Tasks, NEW k \in Kinds, EnterUntraced(t, k) PROVE Pairing'
  <2> DEFINE counters == {"calls", "untraced"}
  <2>1. Begins(t, k, FALSE) /\ enterState' = enterState
    BY <1>1, <1>2 DEF EnterUntraced
  <2>2. CountersAfter(t, k, counters)
    BY <1>0, <1>2, NumberAfter DEF EnterUntraced
  <2>4. /\ "calls" \in counters /\ "untraced" \in counters
        /\ \A c \in {"mispaired", "lostExit", "delivered", "miss", "evicted", "collision"} :
             c \notin counters
    OBVIOUS
  <2> HIDE DEF counters
  <2> QED
    BY <2>1, <2>2, <2>4, EnterPairing
<1>3. ASSUME NEW t \in Tasks, NEW k \in Kinds, EnterRefused(t, k) PROVE Pairing'
  <2> DEFINE counters == {"calls", "refused", "refusedEnter"}
  <2>1. Begins(t, k, TRUE) /\ enterState' = enterState
    BY <1>1, <1>3 DEF EnterRefused
  <2>2. CountersAfter(t, k, counters)
    BY <1>0, <1>3, NumberAfter DEF EnterRefused
  <2>4. /\ "calls" \in counters /\ "refused" \in counters /\ "refusedEnter" \in counters
        /\ \A c \in {"mispaired", "lostExit", "delivered", "miss", "evicted", "collision"} :
             c \notin counters
    OBVIOUS
  <2> HIDE DEF counters
  <2> QED
    BY <2>1, <2>2, <2>4, EnterPairing
<1>4. ASSUME NEW t \in Tasks, NEW k \in Kinds, EnterCollides(t, k) PROVE Pairing'
  <2> DEFINE counters == {"calls", "collision"}
  <2>1. Begins(t, k, TRUE) /\ enterState' = enterState /\ enterState[<<t, k>>] # NoEntry
    BY <1>1, <1>4 DEF EnterCollides
  <2>2. CountersAfter(t, k, counters)
    BY <1>0, <1>4, NumberAfter DEF EnterCollides
  <2>4. /\ "calls" \in counters /\ "collision" \in counters
        /\ \A c \in {"mispaired", "lostExit", "delivered", "miss", "evicted"} :
             c \notin counters
    OBVIOUS
  <2> HIDE DEF counters
  <2> QED
    BY <2>1, <2>2, <2>4, EnterPairing
<1>5. ASSUME NEW t \in Tasks, NEW k \in Kinds, EnterSaveFails(t, k) PROVE Pairing'
  <2> DEFINE counters == {"calls", "saveFail"}
  <2>1. Begins(t, k, TRUE) /\ enterState' = enterState
    BY <1>1, <1>5 DEF EnterSaveFails
  <2>2. CountersAfter(t, k, counters)
    BY <1>0, <1>5, NumberAfter DEF EnterSaveFails
  <2>4. /\ "calls" \in counters /\ "saveFail" \in counters
        /\ \A c \in {"mispaired", "lostExit", "delivered", "miss", "evicted", "collision"} :
             c \notin counters
    OBVIOUS
  <2> HIDE DEF counters
  <2> QED
    BY <2>1, <2>2, <2>4, EnterPairing
<1>6. ASSUME NEW t \in Tasks, NEW k \in Kinds, EnterSaves(t, k) PROVE Pairing'
  <2>1. Begins(t, k, TRUE) /\ enterState[<<t, k>>] = NoEntry
    BY <1>1, <1>6 DEF EnterSaves
  <2>2. PICK victim \in Victims(<<t, k>>) :
          /\ enterState' = [key \in Keys |-> IF key = <<t, k>> THEN nextCall + 1
                                             ELSE IF key = victim THEN NoEntry
                                             ELSE enterState[key]]
          /\ tally' = [key \in Keys |->
                         IF key = <<t, k>> THEN Counted(key, {"calls"})[key]
                         ELSE IF key = victim THEN Counted(key, {"evicted"})[key]
                         ELSE tally[key]]
    BY <1>6 DEF EnterSaves
  <2>3. victim \in Keys
    BY KeyType DEF Victims, Live
  <2>4. SavedAfter(t, k, victim)
    <3> SUFFICES ASSUME NEW u \in Tasks, NEW j \in Kinds, NEW c \in Counters
                 PROVE  /\ tally[<<u, j>>][c] \in Nat
                        /\ tally'[<<u, j>>][c] =
                             IF u = t /\ j = k
                             THEN IF c = "calls" THEN tally[<<u, j>>][c] + 1
                                  ELSE tally[<<u, j>>][c]
                             ELSE IF <<u, j>> = victim /\ c = "evicted"
                                  THEN tally[<<u, j>>][c] + 1
                             ELSE tally[<<u, j>>][c]
      BY DEF SavedAfter
    <3>1. <<u, j>> \in Keys /\ tally \in [Keys -> [Counters -> Nat]]
      BY <1>0, KeyType DEF TypeOK
    <3>2. \A added : Counted(<<u, j>>, added)[<<u, j>>][c] =
                       IF c \in added THEN tally[<<u, j>>][c] + 1 ELSE tally[<<u, j>>][c]
      BY <3>1, CountedIs
    <3>3. CASE u = t /\ j = k
      BY <2>2, <3>1, <3>2, <3>3
    <3>4. CASE ~ (u = t /\ j = k)
      BY <2>2, <3>1, <3>2, <3>4
    <3> QED
      BY <3>1, <3>3, <3>4
  <2> QED
    BY <2>1, <2>2, <2>3, <2>4, SavePairing
<1>7. ASSUME NEW t \in Tasks, NEW k \in Kinds, InCall(t, k), Return(t)
      PROVE  k = call[t].kind /\ Ends(t) /\ nextCall' = nextCall /\ cgroup' = cgroup
  BY <1>7 DEF InCall, Return, Ends
<1>8. ASSUME NEW t \in Tasks, NEW k \in Kinds, ExitUntraced(t, k) PROVE Pairing'
  <2> DEFINE counters == IF call[t].traced THEN {"lostExit"} ELSE {}
  <2>1. /\ k = call[t].kind /\ Ends(t) /\ nextCall' = nextCall /\ cgroup' = cgroup
        /\ enterState' = enterState /\ emitted' = emitted
    BY <1>7, <1>8 DEF ExitUntraced
  <2>2. CountersAfter(t, k, counters)
    BY <1>0, <1>8, NumberAfter DEF ExitUntraced
  <2>3. counters \subseteq {"lostExit", "miss"} /\ "miss" \notin counters
        /\ (call[t].traced => "lostExit" \in counters)
    OBVIOUS
  <2> HIDE DEF counters
  <2> QED
    BY <2>1, <2>2, <2>3, LeavePairing
<1>9. ASSUME NEW t \in Tasks, NEW k \in Kinds, ExitMiss(t, k) PROVE Pairing'
  <2>1. /\ k = call[t].kind /\ Ends(t) /\ nextCall' = nextCall /\ cgroup' = cgroup
        /\ enterState' = enterState /\ emitted' = emitted
        /\ InCall(t, k) /\ enterState[<<t, k>>] = NoEntry
    BY <1>7, <1>9 DEF ExitMiss
  <2>2. CountersAfter(t, k, {"miss"})
    BY <1>0, <1>9, NumberAfter DEF ExitMiss
  <2> QED
    BY <2>1, <2>2, LeavePairing
<1>10. ASSUME NEW t \in Tasks, NEW k \in Kinds, ExitRefused(t, k) PROVE Pairing'
  <2> DEFINE counters == {"refused"}
             outs == {}
  <2>1. /\ Ends(t) /\ nextCall' = nextCall /\ cgroup' = cgroup
        /\ InCall(t, k) /\ enterState[<<t, k>>] # NoEntry
        /\ enterState' = [enterState EXCEPT ![<<t, k>>] = NoEntry]
        /\ emitted' = emitted \union outs
    BY <1>7, <1>10 DEF ExitRefused
  <2>2. CountersAfter(t, k, counters)
    BY <1>0, <1>10, NumberAfter DEF ExitRefused
  <2>3. /\ counters \subseteq {"refused", "delivered", "mispaired"}
        /\ "delivered" \notin counters /\ "mispaired" \notin counters
    OBVIOUS
  <2>4. \A a \in outs : FALSE
    OBVIOUS
  <2> HIDE DEF outs, counters
  <2> QED
    BY <2>1, <2>2, <2>3, <2>4, RemovePairing
<1>11. ASSUME NEW t \in Tasks, NEW k \in Kinds, ExitEmits(t, k) PROVE Pairing'
  <2> DEFINE out == [enter |-> enterState[<<t, k>>], exit |-> call[t].id, from |-> cgroup[t]]
             counters == IF enterState[<<t, k>>] = call[t].id THEN {"delivered"}
                         ELSE {"delivered", "mispaired"}
             outs == {out}
  <2>1. /\ Ends(t) /\ nextCall' = nextCall /\ cgroup' = cgroup
        /\ InCall(t, k) /\ enterState[<<t, k>>] # NoEntry
        /\ enterState' = [enterState EXCEPT ![<<t, k>>] = NoEntry]
        /\ emitted' = emitted \union outs
    BY <1>7, <1>11 DEF ExitEmits
  <2>2. CountersAfter(t, k, counters)
    BY <1>0, <1>11, NumberAfter DEF ExitEmits
  <2>3. /\ counters \subseteq {"refused", "delivered", "mispaired"}
        /\ "refused" \notin counters
        /\ "mispaired" \in counters => enterState[<<t, k>>] # call[t].id
    OBVIOUS
  <2>4. \A a \in outs : a.enter = enterState[<<t, k>>]
    OBVIOUS
  <2>5. \A a, b \in outs : a = b
    OBVIOUS
  <2> HIDE DEF outs, counters
  <2> QED
    BY <2>1, <2>2, <2>3, <2>4, <2>5, RemovePairing
<1>12. ASSUME NEW t \in Tasks, TaskDies(t) PROVE Pairing'
  <2> DEFINE k == call[t].kind
             counters == IF call[t].id # 0 /\ call[t].traced THEN {"lostExit"} ELSE {}
  <2>1. k \in Kinds
    BY <1>0 DEF TypeOK, Call
  <2>2. /\ Ends(t) /\ nextCall' = nextCall + 1
        /\ \A u \in Tasks : u # t => cgroup'[u] = cgroup[u]
        /\ enterState' = enterState /\ emitted' = emitted
    BY <1>0, <1>12 DEF TaskDies, Ends, TypeOK
  <2>3. CountersAfter(t, k, counters)
    BY <1>0, <1>12, <2>1, NumberAfter DEF TaskDies
  <2>4. counters \subseteq {"lostExit", "miss"} /\ "miss" \notin counters
        /\ (InCall(t, k) /\ call[t].traced => "lostExit" \in counters)
    BY DEF InCall
  <2> HIDE DEF counters
  <2> QED
    BY <2>1, <2>2, <2>3, <2>4, LeavePairing
<1>13. ASSUME NEW t \in Tasks, NEW c \in {Target, Other}, NEW k \in Kinds,
              StartsInFork(t, c, k)
       PROVE  Pairing'
  <2> DEFINE counters == {"calls", "untraced"}
  <2>1. call[t].id = 0
    BY <1>0, <1>13 DEF Pairing, DeadTasksAreIdle, StartsInFork, TaskStarts
  <2>2. Begins(t, k, FALSE) /\ enterState' = enterState
    BY <1>0, <1>13, <2>1, ScopeAssumption
       DEF Begins, StartsInFork, TaskStarts, TypeOK, ScopeAssumption
  <2>3. CountersAfter(t, k, counters)
    BY <1>0, <1>13, NumberAfter DEF StartsInFork
  <2>4. /\ "calls" \in counters /\ "untraced" \in counters
        /\ \A n \in {"mispaired", "lostExit", "delivered", "miss", "evicted", "collision"} :
             n \notin counters
    OBVIOUS
  <2> HIDE DEF counters
  <2> QED
    BY <2>2, <2>3, <2>4, EnterPairing
<1>14. ASSUME NEW t \in Tasks, NEW c \in {Target, Other},
              StartsInUserMode(t, c) \/ Migrate(t, c)
       PROVE  Pairing'
  <2>1. \A u \in Tasks : Alive(u) => Alive(u)'
    BY <1>0, <1>14, ScopeAssumption
       DEF StartsInUserMode, TaskStarts, Migrate, Alive, TypeOK, ScopeAssumption
  <2>2. UNCHANGED << call, enterState, emitted, tally, nextCall >>
    BY <1>14 DEF StartsInUserMode, TaskStarts, Migrate
  <2> QED
    BY <2>1, <2>2, OtherPairing
<1>15. ASSUME NEW t \in Tasks, SchedEvent(t) PROVE Pairing'
  BY <1>15, OtherPairing DEF SchedEvent, Alive
<1>16. CASE \/ \E program \in Programs : Attach(program)
            \/ SetTargetCgroup \/ PollRecord \/ UNCHANGED vars
  BY <1>16, OtherPairing DEF Attach, SetTargetCgroup, PollRecord, vars, Alive
<1>17. CASE \E t \in Tasks, k \in Kinds :
              \/ EnterUntraced(t, k) \/ EnterRefused(t, k) \/ EnterCollides(t, k)
              \/ EnterSaveFails(t, k) \/ EnterSaves(t, k)
              \/ ExitUntraced(t, k) \/ ExitMiss(t, k) \/ ExitRefused(t, k) \/ ExitEmits(t, k)
  BY <1>17, <1>2, <1>3, <1>4, <1>5, <1>6, <1>8, <1>9, <1>10, <1>11
<1> QED
  BY <1>12, <1>13, <1>14, <1>15, <1>16, <1>17 DEF Next

-----------------------------------------------------------------------------
(* The types and the pairing ledger hold in every reachable state. *)
THEOREM InductiveInvariant == Spec => []Inductive
<1>1. Init => Inductive
  BY InitTypeOK, InitPairing DEF Inductive
<1> QED
  BY <1>1, NextInductive, PTL DEF Spec

(* A mispaired event, whichever tasks race and wherever a handler is       *)
(* refused, evicted or gated off, is owed to a lost exit of its key.       *)
THEOREM MispairingBounded == Spec => []MispairingOwedToLostExits
<1>1. Inductive => MispairingOwedToLostExits
  BY DEF Inductive, Pairing
<1> QED
  BY <1>1, InductiveInvariant, PTL

(* A STATE_COLLISION never counts a reentry of one call. *)
THEOREM CollisionsBounded == Spec => []CollisionsOwedToLostExits
<1>1. Inductive => CollisionsOwedToLostExits
  <2> SUFFICES ASSUME Inductive, NEW t \in Tasks, NEW k \in Kinds
               PROVE  Number("collision", t, k) + Owed(Stale(t, k) /\ ~ InCall(t, k))
                        <= Number("lostExit", t, k)
    BY DEF CollisionsOwedToLostExits
  <2>1. Number("collision", t, k) + Owed(Stale(t, k) /\ ~ (InCall(t, k) /\ call[t].traced))
          <= Number("lostExit", t, k)
    BY DEF Inductive, Pairing, CollisionDebt
  <2>2. Number("collision", t, k) \in Nat /\ Number("lostExit", t, k) \in Nat
    BY KeyType DEF Inductive, TypeOK, Number, Counters
  <2> QED
    BY <2>1, <2>2 DEF Owed
<1> QED
  BY <1>1, InductiveInvariant, PTL

(* Every STATE_MISS has an enter that was not recorded behind it. *)
THEOREM MissesAreExplained == Spec => []MissesExplained
<1>1. Inductive => MissesExplained
  BY DEF Inductive, Pairing
<1> QED
  BY <1>1, InductiveInvariant, PTL

(* events_dropped and the delivered events never exceed the calls made. *)
THEOREM DropsHonest == Spec => []DropsNeverOverstated
<1>1. Inductive => DropsNeverOverstated
  BY DEF Inductive, Pairing
<1> QED
  BY <1>1, InductiveInvariant, PTL

(* No enter payload is submitted twice. *)
THEOREM PayloadsUsedOnce == Spec => []PayloadUsedOnce
<1>1. Inductive => PayloadUsedOnce
  BY DEF Inductive, Pairing
<1> QED
  BY <1>1, InductiveInvariant, PTL

-----------------------------------------------------------------------------
(* Until the capture is scoped no task is in the target cgroup, so that no *)
(* record of the ring is the target's: only Migrate, a step of the running *)
(* session, puts a task there.                                             *)
NoTargetYet ==
  phase = "attaching" =>
    /\ targetCgroup = NoCgroup
    /\ \A t \in Tasks : cgroup[t] # Target
    /\ \A i \in 1 .. Len(ring) : ring[i].from # Target

HostFirst == NoTargetYet /\ HostEventsPrecedeTargetEvents

(* What a step may do to the ring: nothing, take the oldest record while   *)
(* the session runs, or append a record of no task or of a task that the   *)
(* gate lets through.                                                      *)
Admits(r) == r = Discarded \/ \E t \in Tasks : IsEventAllowed(t) /\ r.from = cgroup[t]

RingStep ==
  \/ ring' = ring
  \/ phase = "running" /\ ring # << >> /\ ring' = Tail(ring)
  \/ \E r \in Record : Admits(r) /\ ring' = Append(ring, r)

(* Every step does one of these. *)
LEMMA NextRingStep == TypeOK /\ [Next]_vars => RingStep
<1> SUFFICES ASSUME TypeOK, [Next]_vars PROVE RingStep
  OBVIOUS
<1>1. ASSUME NEW program \in Programs, Attach(program) PROVE RingStep
  BY <1>1 DEF Attach, RingStep
<1>2. CASE SetTargetCgroup \/ PollRecord \/ UNCHANGED vars
  BY <1>2 DEF SetTargetCgroup, PollRecord, vars, RingStep
<1>3. ASSUME NEW t \in Tasks, NEW k \in Kinds,
             EnterUntraced(t, k) \/ EnterRefused(t, k)
               \/ ExitUntraced(t, k) \/ ExitMiss(t, k) \/ ExitRefused(t, k)
      PROVE  RingStep
  BY <1>3 DEF EnterUntraced, EnterRefused, ExitUntraced, ExitMiss, ExitRefused, RingStep
<1>4. ASSUME NEW t \in Tasks, NEW k \in Kinds,
             EnterCollides(t, k) \/ EnterSaveFails(t, k) \/ EnterSaves(t, k)
      PROVE  RingStep
  <2>1. ring' = Append(ring, Discarded)
    BY <1>4 DEF EnterCollides, EnterSaveFails, EnterSaves
  <2> QED
    BY <2>1, DiscardedType DEF RingStep, Admits
<1>5. ASSUME NEW t \in Tasks, NEW k \in Kinds, ExitEmits(t, k) PROVE RingStep
  <2> DEFINE out == [enter |-> enterState[<<t, k>>], exit |-> call[t].id, from |-> cgroup[t]]
  <2>1. out \in Record
    BY KeyType DEF TypeOK, Record, Call
  <2>2. ring' = Append(ring, out) /\ IsEventAllowed(t)
    BY <1>5 DEF ExitEmits, Handles
  <2>3. out.from = cgroup[t]
    OBVIOUS
  <2> HIDE DEF out
  <2> QED
    BY <2>1, <2>2, <2>3 DEF RingStep, Admits
<1>6. ASSUME NEW t \in Tasks, SchedEvent(t) \/ TaskDies(t) PROVE RingStep
  <2>1. \/ ring' = ring
        \/ ring' = Append(ring, ProcessEvent(t)) /\ IsEventAllowed(t)
    BY <1>6 DEF SchedEvent, TaskDies
  <2>2. nextCall < MaxCalls
    BY <1>6 DEF SchedEvent, TaskDies
  <2>3. ProcessEvent(t) \in Record /\ ProcessEvent(t).from = cgroup[t]
    BY <2>2, BoundsAssumption DEF BoundsAssumption, TypeOK, ProcessEvent, Record, CallIds
  <2> QED
    BY <2>1, <2>3 DEF RingStep, Admits
<1>7. ASSUME NEW t \in Tasks, NEW c \in {Target, Other},
             StartsInUserMode(t, c) \/ Migrate(t, c) \/ \E k \in Kinds : StartsInFork(t, c, k)
      PROVE  RingStep
  BY <1>7 DEF StartsInUserMode, StartsInFork, TaskStarts, Migrate, RingStep
<1> QED
  BY <1>1, <1>2, <1>3, <1>4, <1>5, <1>6, <1>7 DEF Next

(* What a step may do to the scope: the session ends the attaching, and    *)
(* before that a new task is in its parent's cgroup.                       *)
LEMMA NextScopeStep ==
  TypeOK /\ [Next]_vars =>
    /\ phase = "running" => phase' = "running" /\ targetCgroup' = targetCgroup
    /\ phase' = "attaching" =>
         /\ targetCgroup' = targetCgroup
         /\ \A t \in Tasks : cgroup'[t] = NoCgroup \/ \E u \in Tasks : cgroup'[t] = cgroup[u]
    /\ phase = "attaching" /\ phase' = "running" => ring' = ring
<1> SUFFICES ASSUME TypeOK, [Next]_vars
             PROVE  /\ phase = "running" => phase' = "running" /\ targetCgroup' = targetCgroup
                    /\ phase' = "attaching" =>
                         /\ targetCgroup' = targetCgroup
                         /\ \A t \in Tasks :
                              cgroup'[t] = NoCgroup \/ \E u \in Tasks : cgroup'[t] = cgroup[u]
                    /\ phase = "attaching" /\ phase' = "running" => ring' = ring
  OBVIOUS
<1>1. CASE SetTargetCgroup
  BY <1>1 DEF SetTargetCgroup
<1>2. CASE UNCHANGED << phase, targetCgroup, cgroup >>
  BY <1>2 DEF TypeOK
<1>3. ASSUME NEW t \in Tasks, TaskDies(t)
      PROVE  UNCHANGED << phase, targetCgroup >> /\ cgroup' = [cgroup EXCEPT ![t] = NoCgroup]
  BY <1>3 DEF TaskDies
<1>4. ASSUME NEW t \in Tasks, NEW c \in {Target, Other}, TaskStarts(t, c)
      PROVE  /\ UNCHANGED << phase, targetCgroup >>
             /\ \E u \in Tasks : cgroup' = [cgroup EXCEPT ![t] = cgroup[u]]
  BY <1>4 DEF TaskStarts
<1>5. ASSUME NEW t \in Tasks, NEW c \in {Target, Other}, Migrate(t, c)
      PROVE  phase = "running" /\ UNCHANGED << phase, targetCgroup >>
  BY <1>5 DEF Migrate
<1>6. \/ SetTargetCgroup \/ UNCHANGED << phase, targetCgroup, cgroup >>
      \/ \E t \in Tasks : TaskDies(t)
      \/ \E t \in Tasks, c \in {Target, Other} : TaskStarts(t, c) \/ Migrate(t, c)
  <2>1. ASSUME NEW program \in Programs, Attach(program)
        PROVE  UNCHANGED << phase, targetCgroup, cgroup >>
    BY <2>1 DEF Attach
  <2>2. CASE PollRecord \/ UNCHANGED vars
    BY <2>2 DEF PollRecord, vars
  <2>3. ASSUME NEW t \in Tasks, NEW k \in Kinds,
               \/ EnterUntraced(t, k) \/ EnterRefused(t, k) \/ EnterCollides(t, k)
               \/ EnterSaveFails(t, k) \/ EnterSaves(t, k)
               \/ ExitUntraced(t, k) \/ ExitMiss(t, k) \/ ExitRefused(t, k) \/ ExitEmits(t, k)
        PROVE  UNCHANGED << phase, targetCgroup, cgroup >>
    BY <2>3 DEF EnterUntraced, EnterRefused, EnterCollides, EnterSaveFails, EnterSaves, Issue,
                ExitUntraced, ExitMiss, ExitRefused, ExitEmits, Return
  <2>4. ASSUME NEW t \in Tasks, SchedEvent(t)
        PROVE  UNCHANGED << phase, targetCgroup, cgroup >>
    BY <2>4 DEF SchedEvent
  <2>5. ASSUME NEW t \in Tasks, NEW c \in {Target, Other},
               StartsInUserMode(t, c) \/ \E k \in Kinds : StartsInFork(t, c, k)
        PROVE  TaskStarts(t, c)
    BY <2>5 DEF StartsInUserMode, StartsInFork
  <2> QED
    BY <2>1, <2>2, <2>3, <2>4, <2>5 DEF Next
<1> QED
  BY <1>1, <1>2, <1>3, <1>4, <1>5, <1>6 DEF TypeOK

(* Every step keeps the order of the ring. *)
LEMMA NextHostFirst == TypeOK /\ TypeOK' /\ HostFirst /\ [Next]_vars => HostFirst'
<1> SUFFICES ASSUME TypeOK, TypeOK', HostFirst, [Next]_vars PROVE HostFirst'
  OBVIOUS
<1>1. RingStep
  BY NextRingStep
<1>2. /\ phase = "running" => phase' = "running" /\ targetCgroup' = targetCgroup
      /\ phase' = "attaching" =>
           /\ targetCgroup' = targetCgroup
           /\ \A t \in Tasks : cgroup'[t] = NoCgroup \/ \E u \in Tasks : cgroup'[t] = cgroup[u]
      /\ phase = "attaching" /\ phase' = "running" => ring' = ring
  BY NextScopeStep
<1>3. /\ phase \in {"attaching", "running"} /\ phase' \in {"attaching", "running"}
      /\ ring \in Seq(Record)
  BY DEF TypeOK
<1>4. NoTargetYet'
  <2> SUFFICES ASSUME phase' = "attaching"
               PROVE  /\ targetCgroup' = NoCgroup
                      /\ \A t \in Tasks : cgroup'[t] # Target
                      /\ \A i \in 1 .. Len(ring') : ring'[i].from # Target
    BY DEF NoTargetYet
  <2>1. phase = "attaching" /\ NoTargetYet
    BY <1>2, <1>3 DEF HostFirst
  <2>2. \A t \in Tasks : cgroup'[t] # Target
    BY <1>2, <2>1, ScopeAssumption DEF NoTargetYet, ScopeAssumption
  <2>3. ASSUME NEW r \in Record, Admits(r) PROVE r.from # Target
    BY <2>1, <2>3, ScopeAssumption DEF NoTargetYet, ScopeAssumption, Admits, Discarded
  <2>4. ring' = ring \/ \E r \in Record : r.from # Target /\ ring' = Append(ring, r)
    BY <1>1, <2>1, <2>3 DEF RingStep
  <2>5. \A i \in 1 .. Len(ring') : ring'[i].from # Target
    BY <1>3, <2>1, <2>4 DEF NoTargetYet
  <2> QED
    BY <1>2, <2>1, <2>2, <2>5 DEF NoTargetYet
<1>5. HostEventsPrecedeTargetEvents'
  <2> SUFFICES ASSUME targetCgroup' = Target, NEW i \in 1 .. Len(ring'), NEW j \in 1 .. Len(ring'),
                      ring'[i].from = Target, ring'[j].from = Other
               PROVE  j < i
    BY DEF HostEventsPrecedeTargetEvents
  <2>1. phase' = "running"
    BY <1>2, <1>3, ScopeAssumption DEF HostFirst, NoTargetYet, ScopeAssumption
  <2>2. CASE phase = "attaching"
    BY <1>2, <2>1, <2>2 DEF HostFirst, NoTargetYet
  <2>3. CASE phase = "running"
    <3>1. targetCgroup = Target /\ HostEventsPrecedeTargetEvents
      BY <1>2, <2>3 DEF HostFirst
    <3>2. ASSUME NEW r \in Record, Admits(r) PROVE r.from # Other
      BY <3>1, <3>2, ScopeAssumption DEF ScopeAssumption, Admits, IsEventAllowed, Discarded
    <3>3. CASE ring' = ring
      BY <3>1, <3>3 DEF HostEventsPrecedeTargetEvents
    <3>4. CASE ring # << >> /\ ring' = Tail(ring)
      <4>1. /\ i + 1 \in 1 .. Len(ring) /\ j + 1 \in 1 .. Len(ring)
            /\ ring'[i] = ring[i + 1] /\ ring'[j] = ring[j + 1]
        BY <1>3, <3>4
      <4> QED
        BY <3>1, <4>1 DEF HostEventsPrecedeTargetEvents
    <3>5. ASSUME NEW r \in Record, Admits(r), ring' = Append(ring, r) PROVE j < i
      <4>1. j \in 1 .. Len(ring) /\ ring'[j] = ring[j]
        BY <1>3, <3>2, <3>5
      <4>2. i = Len(ring) + 1 \/ (i \in 1 .. Len(ring) /\ ring'[i] = ring[i])
        BY <1>3, <3>5
      <4> QED
        BY <3>1, <4>1, <4>2, <1>3 DEF HostEventsPrecedeTargetEvents
    <3> QED
      BY <1>1, <3>3, <3>4, <3>5 DEF RingStep
  <2> QED
    BY <1>3, <2>2, <2>3
<1> QED
  BY <1>4, <1>5 DEF HostFirst

(* In a scoped capture every event of another cgroup that is still in the  *)
(* ring precedes the target's, however long the ring and whatever moves.   *)
THEOREM HostEventsFirst == Spec => []HostEventsPrecedeTargetEvents
<1>1. Init => HostFirst
  BY ScopeAssumption
     DEF ScopeAssumption, Init, HostFirst, NoTargetYet, HostEventsPrecedeTargetEvents
<1>2. TypeOK /\ TypeOK' /\ HostFirst /\ [Next]_vars => HostFirst'
  BY NextHostFirst
<1>3. HostFirst => HostEventsPrecedeTargetEvents
  BY DEF HostFirst
<1> QED
  BY <1>1, <1>2, <1>3, TypeCorrect, PTL DEF Spec
=============================================================================
