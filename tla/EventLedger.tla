---------------------------- MODULE EventLedger -----------------------------
(***************************************************************************)
(* What a capture session promises about the events the probes submit:     *)
(* they are recorded in the order they were submitted, each at most once,  *)
(* and until the session is closed an event that is not recorded is either *)
(* waiting or was given up and counted.  Closing gives up what waits,      *)
(* without counting it.                                                    *)
(***************************************************************************)
EXTENDS Naturals, Sequences

CONSTANT MaxEvents  \* bound on the events of a behaviour

VARIABLES
  submitted,  \* events submitted so far: they are numbered from 1
  waiting,    \* submitted, neither recorded nor given up; oldest first
  recorded,   \* numbers of the recorded events, in the order of the record
  givenUp,    \* how many were given up and counted
  closed

ledger == << submitted, waiting, recorded, givenUp, closed >>

LedgerInit ==
  /\ submitted = 0
  /\ waiting = << >>
  /\ recorded = << >>
  /\ givenUp = 0
  /\ closed = FALSE

Submit ==
  /\ ~ closed
  /\ submitted < MaxEvents
  /\ submitted' = submitted + 1
  /\ waiting' = Append(waiting, submitted + 1)
  /\ UNCHANGED << recorded, givenUp, closed >>

Record ==
  /\ ~ closed /\ waiting # << >>
  /\ recorded' = Append(recorded, Head(waiting))
  /\ waiting' = Tail(waiting)
  /\ UNCHANGED << submitted, givenUp, closed >>

GiveUp ==
  /\ ~ closed /\ waiting # << >>
  /\ givenUp' = givenUp + 1
  /\ waiting' = Tail(waiting)
  /\ UNCHANGED << submitted, recorded, closed >>

Close ==
  /\ closed' = TRUE
  /\ waiting' = << >>
  /\ UNCHANGED << submitted, recorded, givenUp >>

LedgerNext == Submit \/ Record \/ GiveUp \/ Close

LedgerSpec == LedgerInit /\ [][LedgerNext]_ledger
=============================================================================
