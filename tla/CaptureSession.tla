--------------------------- MODULE CaptureSession ---------------------------
(***************************************************************************)
(* capture::Session: construction (WAL, collector, scoping), the poll that *)
(* turns ring records into WAL lines, and stop.  The probes keep adding to *)
(* the ring at any moment between attaching and detaching: a record leaves *)
(* the ring only when its callback has returned, and the steps of stop are *)
(* apart.                                                                  *)
(***************************************************************************)
EXTENDS Integers, Sequences, FiniteSets

CONSTANTS
  RingCapacity,   \* records the events ring holds
  MaxEvents,      \* bound on the records submitted in a behaviour
  MaxRefused,     \* bound on the reservations refused in a behaviour
  MaxTears        \* bound on the WAL writes that fail half way

ASSUME SessionAssumption ==
  /\ RingCapacity \in Nat \ {0}
  /\ MaxEvents \in Nat /\ MaxRefused \in Nat /\ MaxTears \in Nat

(* What becomes of a record: it does not decode, it is written as one      *)
(* line, or it is a packet with a DNS or HTTP payload, whose line is       *)
(* followed by a synthetic one.                                            *)
RecordKinds == {"undecodable", "event", "packet"}

VARIABLES
  allowHostWide,  \* --allow-host-wide: run unscoped when scoping fails
  session,    \* "new", "wal" and "started" during construction; "running";
              \* "counted" inside stop, "stopped"; "failed" once it has thrown
  attached,   \* the probes are attached and the ring has a reader
  scoped,     \* cgroup_filter_active_
  walOpen,    \* the WAL's descriptor is open
  wal,        \* what write(2) appended: whole lines, and torn ones without newline
  ring,       \* records not passed by the consumer yet
  lines,      \* the callback under way: lines of Head(ring) still to be written
  submitted,  \* records submitted so far; they are numbered from 1
  refused,    \* ringbuf_reserve_fail
  written,    \* events_written_
  dropped,    \* events_dropped_
  history     \* recorded: events whose line is whole; synthLost: synthetic lines
              \* that failed; counted: refusals that stop added to dropped;
              \* tears: writes that failed half way

vars == << allowHostWide, session, attached, scoped, walOpen, wal, ring, lines,
           submitted, refused, written, dropped, history >>

Chunk(id, line, whole) == [id |-> id, line |-> line, whole |-> whole]

(* The lines a reader can parse: what follows a torn line up to the next   *)
(* newline is one malformed line with it.                                  *)
Readable(chunks) ==
  { i \in DOMAIN chunks : chunks[i].whole /\ (i > 1 => chunks[i - 1].whole) }

LinesOf(kind) == IF kind = "packet" THEN << "event", "synthetic" >> ELSE << "event" >>

Init ==
  /\ allowHostWide \in BOOLEAN
  /\ session = "new"
  /\ attached = FALSE /\ scoped = FALSE /\ walOpen = FALSE
  /\ wal = << >> /\ ring = << >> /\ lines = << >>
  /\ submitted = 0 /\ refused = 0
  /\ written = 0 /\ dropped = 0
  /\ history = [recorded |-> << >>, synthLost |-> 0, counted |-> 0, tears |-> 0]

-----------------------------------------------------------------------------
(* Session::Session. *)
OpenWal ==
  /\ session = "new"
  /\ \/ session' = "wal" /\ walOpen' = TRUE
     \/ session' = "failed" /\ UNCHANGED walOpen
  /\ UNCHANGED << allowHostWide, attached, scoped, wal, ring, lines, submitted, refused,
                  written, dropped, history >>

(* Start attaches, or undoes what it did and returns false; the throw that *)
(* follows closes the WAL, a member.                                       *)
StartCollector ==
  /\ session = "wal"
  /\ \/ session' = "started" /\ attached' = TRUE /\ UNCHANGED walOpen
     \/ session' = "failed" /\ walOpen' = FALSE /\ UNCHANGED attached
  /\ UNCHANGED << allowHostWide, scoped, wal, ring, lines, submitted, refused, written,
                  dropped, history >>

Scoped ==
  /\ session' = "running" /\ scoped' = TRUE
  /\ UNCHANGED << attached, walOpen, ring >>
HostWide ==
  /\ allowHostWide
  /\ session' = "running"
  /\ UNCHANGED << attached, scoped, walOpen, ring >>
Unscopable ==
  /\ ~ allowHostWide
  /\ session' = "failed"
  /\ attached' = FALSE /\ walOpen' = FALSE /\ ring' = << >>
  /\ UNCHANGED scoped

(* Variant of the next action without the explicit collector_->Stop(): the *)
(* destructor does not run when the constructor throws.  Never used.       *)
SetTargetCgroupLeaks ==
  /\ session = "started"
  /\ \/ Scoped
     \/ HostWide
     \/ /\ ~ allowHostWide
        /\ session' = "failed"
        /\ walOpen' = FALSE
        /\ UNCHANGED << attached, ring, scoped >>
  /\ UNCHANGED << allowHostWide, wal, lines, submitted, refused, written, dropped,
                  history >>

SetTargetCgroup ==
  /\ session = "started"
  /\ Scoped \/ HostWide \/ Unscopable
  /\ UNCHANGED << allowHostWide, wal, lines, submitted, refused, written, dropped,
                  history >>

-----------------------------------------------------------------------------
(* A probe reserves and submits a record, or is refused and counts it.     *)
ProbeSubmits(kind) ==
  /\ attached /\ submitted < MaxEvents
  /\ Len(ring) < RingCapacity
  /\ submitted' = submitted + 1
  /\ ring' = Append(ring, [id |-> submitted + 1, kind |-> kind])
  /\ UNCHANGED << allowHostWide, session, attached, scoped, walOpen, wal, lines, refused,
                  written, dropped, history >>

ProbeRefused ==
  /\ attached /\ refused < MaxRefused
  /\ Len(ring) >= RingCapacity
  /\ refused' = refused + 1
  /\ UNCHANGED << allowHostWide, session, attached, scoped, walOpen, wal, ring, lines,
                  submitted, written, dropped, history >>

-----------------------------------------------------------------------------
(* PollOnce: the consumer takes the oldest record and runs on_raw_event.   *)
Polls == session = "running" /\ ring # << >> /\ lines = << >>

PollLeaves ==
  UNCHANGED << allowHostWide, session, attached, scoped, walOpen, submitted, refused >>

DecodeFails ==
  /\ Polls
  /\ Head(ring).kind = "undecodable"
  /\ dropped' = dropped + 1
  /\ ring' = Tail(ring)
  /\ UNCHANGED << wal, lines, written, history >> /\ PollLeaves

Decodes ==
  /\ Polls
  /\ Head(ring).kind # "undecodable"
  /\ lines' = LinesOf(Head(ring).kind)
  /\ UNCHANGED << wal, ring, written, dropped, history >> /\ PollLeaves

(* write_line appended the whole line; the record is passed with the last. *)
WritesLine ==
  /\ lines # << >>
  /\ LET id == Head(ring).id
     IN  /\ wal' = Append(wal, Chunk(id, Head(lines), TRUE))
         /\ history' = IF Head(lines) = "event"
                       THEN [history EXCEPT !.recorded = Append(@, id)] ELSE history
  /\ written' = written + 1
  /\ lines' = Tail(lines)
  /\ ring' = IF Len(lines) = 1 THEN Tail(ring) ELSE ring
  /\ UNCHANGED dropped /\ PollLeaves

(* write_line throws, perhaps after some of the line was appended. *)
Throws(torn) ==
  /\ lines # << >>
  /\ torn => history.tears < MaxTears
  /\ wal' = IF torn THEN Append(wal, Chunk(Head(ring).id, Head(lines), FALSE)) ELSE wal
  /\ history' = [history EXCEPT !.tears = IF torn THEN @ + 1 ELSE @,
                                !.synthLost = IF Head(lines) = "synthetic" THEN @ + 1 ELSE @]
  /\ PollLeaves

(* Variants of the next action, never used: the catch block does not count *)
(* the event; the count of written events precedes the write.              *)
WriteFailsUncounted(torn) ==
  /\ Throws(torn)
  /\ lines' = << >> /\ ring' = Tail(ring)
  /\ UNCHANGED << written, dropped >>

WriteFailsCountedWritten(torn) ==
  /\ Throws(torn)
  /\ lines' = << >> /\ ring' = Tail(ring)
  /\ written' = written + 1
  /\ dropped' = dropped + 1

(* The record is counted as dropped, be it only its synthetic line that    *)
(* failed, and its other lines are not written.                            *)
WriteFails(torn) ==
  /\ Throws(torn)
  /\ lines' = << >> /\ ring' = Tail(ring)
  /\ dropped' = dropped + 1
  /\ UNCHANGED written

-----------------------------------------------------------------------------
(* Variant of the next action, never used: the counter of dropped events   *)
(* is set to the kernel's.                                                 *)
StopReadsStatsOver ==
  /\ session = "running" /\ lines = << >>
  /\ session' = "counted"
  /\ \E read \in {0, refused} :
       /\ dropped' = read
       /\ history' = [history EXCEPT !.counted = read]
  /\ UNCHANGED << allowHostWide, attached, scoped, walOpen, wal, ring, lines, submitted,
                  refused, written >>

(* stop: the kernel's drop counter is read while the probes still run; ... *)
StopReadsStats ==
  /\ session = "running" /\ lines = << >>
  /\ session' = "counted"
  /\ \E read \in {0, refused} :
       /\ dropped' = dropped + read
       /\ history' = [history EXCEPT !.counted = read]
  /\ UNCHANGED << allowHostWide, attached, scoped, walOpen, wal, ring, lines, submitted,
                  refused, written >>

(* ... then they are detached, the ring is freed unread, the WAL closed.   *)
StopDetaches ==
  /\ session = "counted"
  /\ session' = "stopped"
  /\ attached' = FALSE /\ walOpen' = FALSE /\ ring' = << >>
  /\ UNCHANGED << allowHostWide, scoped, wal, lines, submitted, refused, written, dropped,
                  history >>

Next ==
  \/ OpenWal \/ StartCollector \/ SetTargetCgroup
  \/ \E kind \in RecordKinds : ProbeSubmits(kind)
  \/ ProbeRefused
  \/ DecodeFails \/ Decodes \/ WritesLine
  \/ \E torn \in BOOLEAN : WriteFails(torn)
  \/ StopReadsStats \/ StopDetaches

Spec == Init /\ [][Next]_vars

-----------------------------------------------------------------------------
(* Type invariant.  With its types: a constructor that throws leaves no    *)
(* probe attached and no descriptor open although ~Session does not run,   *)
(* nor does a session that ended; a decoded record is still in the ring.   *)
TypeOK ==
  /\ session \in {"new", "wal", "started", "running", "counted", "stopped", "failed"}
  /\ allowHostWide \in BOOLEAN
  /\ attached \in BOOLEAN /\ scoped \in BOOLEAN /\ walOpen \in BOOLEAN
  /\ wal \in Seq([id : 1 .. MaxEvents, line : {"event", "synthetic"}, whole : BOOLEAN])
  /\ ring \in Seq([id : 1 .. MaxEvents, kind : RecordKinds])
  /\ lines \in Seq({"event", "synthetic"})
  /\ submitted \in 0 .. MaxEvents /\ refused \in Nat
  /\ written \in Nat /\ dropped \in Nat
  /\ history \in [recorded : Seq(1 .. MaxEvents), synthLost : Nat, counted : Nat, tears : Nat]
  /\ lines # << >> => ring # << >>
  /\ session \in {"stopped", "failed"} => ~ attached /\ ~ walOpen

(* The events that wait: one whose line is written no longer does, though  *)
(* its record stays in the ring until its synthetic line is written too.   *)
Waiting ==
  LET left == IF lines # << >> /\ Head(lines) = "synthetic" THEN Tail(ring) ELSE ring
  IN  [i \in DOMAIN left |-> left[i].id]

(* events_dropped_ holds, besides refusals and failed synthetic lines,     *)
(* exactly the events given up.                                            *)
Ledger == INSTANCE EventLedger WITH
  waiting <- Waiting, recorded <- history.recorded,
  givenUp <- dropped - history.synthLost - history.counted,
  closed <- session \in {"stopped", "failed"}

(* No event is recorded twice or out of order, and until stop none is lost *)
(* without being counted, whatever the probes and the writes do.           *)
KeepsLedger == Ledger!LedgerSpec

(* What stop loses uncounted are the events submitted last, no more than   *)
(* the ring holds, and refusals the kernel counted too late: every event   *)
(* before them is recorded or in events_dropped_, and nothing recorded     *)
(* follows one that is lost.                                               *)
StopLosesOnlyTheTail ==
  LET passed == Len(history.recorded) + (dropped - history.synthLost - history.counted)
  IN  /\ submitted - passed \in 0 .. RingCapacity
      /\ \A i \in DOMAIN history.recorded : history.recorded[i] <= passed
      /\ history.counted <= refused

(* What a reader finds in the WAL.  events_total overstates the lines it   *)
(* can parse by at most one for every write that failed half way: a torn   *)
(* line spoils the next one only.  And the synthetic line of an event      *)
(* directly follows the event's own line.                                  *)
TearsSpoilOneLine ==
  written - Cardinality(Readable(wal)) <= history.tears

SyntheticFollowsItsEvent ==
  \A i \in DOMAIN wal : wal[i].line = "synthetic" =>
    i > 1 /\ wal[i - 1] = Chunk(wal[i].id, "event", TRUE)

WalReadsBack == TearsSpoilOneLine /\ SyntheticFollowsItsEvent
=============================================================================
