----------------------- MODULE CaptureSession_proofs -----------------------
(***************************************************************************)
(* CaptureSession implements EventLedger, and its invariants, for any ring *)
(* and any number of events, refusals and torn writes.                     *)
(***************************************************************************)
EXTENDS CaptureSession, FiniteSetTheorems, SequenceTheorems, TLAPS

(* TypeOK in three parts: what a step leaves alone is then seen at once.   *)
Chunks == [id : 1 .. MaxEvents, line : {"event", "synthetic"}, whole : BOOLEAN]
Records == [id : 1 .. MaxEvents, kind : RecordKinds]
LineSeqs == Seq({"event", "synthetic"})
Histories == [recorded : Seq(1 .. MaxEvents), synthLost : Nat, counted : Nat, tears : Nat]
ControlTypes ==
  /\ session \in {"new", "wal", "started", "running", "counted", "stopped", "failed"}
  /\ allowHostWide \in BOOLEAN
  /\ attached \in BOOLEAN /\ scoped \in BOOLEAN /\ walOpen \in BOOLEAN
  /\ session \in {"stopped", "failed"} => ~ attached /\ ~ walOpen
DataTypes ==
  /\ wal \in Seq(Chunks) /\ ring \in Seq(Records) /\ lines \in LineSeqs
  /\ lines # << >> => ring # << >>
CountTypes ==
  /\ submitted \in 0 .. MaxEvents /\ refused \in Nat
  /\ written \in Nat /\ dropped \in Nat
  /\ history \in Histories
Types == ControlTypes /\ DataTypes /\ CountTypes

(* What the stages of a session open and close. *)
Stages ==
  /\ session \in {"new", "wal"} => ~ attached /\ ring = << >>
  /\ session = "new" => ~ walOpen
  /\ session \in {"new", "wal", "started", "running"} => history.counted = 0

(* The callback under way is that of a record which is still in the ring   *)
(* of a running session; of a packet only the synthetic line is left when  *)
(* the event's own is the last in the WAL.                                 *)
CallbackUnderWay ==
  /\ lines \in {<< >>, << "event" >>, << "event", "synthetic" >>, << "synthetic" >>}
  /\ lines # << >> => session = "running" /\ ring # << >>
  /\ lines = << "synthetic" >> =>
       wal # << >> /\ wal[Len(wal)] = Chunk(Head(ring).id, "event", TRUE)

(* TearsSpoilOneLine, made inductive: a torn line at the end of the WAL    *)
(* has yet to spoil the next one.                                          *)
TornAtEnd == wal # << >> /\ ~ wal[Len(wal)].whole
TearDebt ==
  written + (IF TornAtEnd THEN 1 ELSE 0) <= Cardinality(Readable(wal)) + history.tears

IInv == Types /\ Stages /\ CallbackUnderWay /\ SyntheticFollowsItsEvent /\ TearDebt

-----------------------------------------------------------------------------
(* The parts are TypeOK. *)
LEMMA TypesAreOK == Types => TypeOK
  BY DEF Types, TypeOK, ControlTypes, DataTypes, CountTypes, Chunks, Records, LineSeqs,
         Histories

(* The callbacks' lines are sequences of lines. *)
LEMMA LineSeqsHave ==
  {<< >>, << "event" >>, << "event", "synthetic" >>, << "synthetic" >>} \subseteq LineSeqs
  BY DEF LineSeqs

(* What Tail returns. *)
LEMMA TailIs ==
  ASSUME NEW S, NEW s \in Seq(S), s # << >>
  PROVE  /\ Len(s) \in Nat \ {0} /\ Tail(s) \in Seq(S) /\ Len(Tail(s)) = Len(s) - 1
         /\ \A i \in 1 .. Len(s) - 1 : Tail(s)[i] = s[i + 1]
         /\ Head(s) = s[1] /\ Head(s) \in S
  OBVIOUS

(* What Append returns; the oldest element stays. *)
LEMMA AppendIs ==
  ASSUME NEW S, NEW s \in Seq(S), NEW e \in S
  PROVE  /\ Append(s, e) \in Seq(S) /\ Len(Append(s, e)) = Len(s) + 1
         /\ \A i \in 1 .. Len(s) : Append(s, e)[i] = s[i]
         /\ Append(s, e)[Len(s) + 1] = e
         /\ Append(s, e) # << >>
         /\ s # << >> => Head(Append(s, e)) = Head(s)
<1> DEFINE t == Append(s, e)
<1>1. /\ t \in Seq(S) /\ Len(t) = Len(s) + 1 /\ t # << >>
      /\ \A i \in 1 .. Len(s) : t[i] = s[i]
      /\ t[Len(s) + 1] = e
  OBVIOUS
<1> HIDE DEF t
<1>2. ASSUME s # << >> PROVE Head(t) = Head(s)
  <2>1. 1 \in 1 .. Len(s) /\ Head(s) = s[1]
    BY <1>2, TailIs
  <2>2. Head(t) = t[1]
    BY <1>1, TailIs
  <2> QED
    BY <1>1, <2>1, <2>2
<1> QED
  BY <1>1, <1>2 DEF t

(* The readable lines of a WAL can be counted. *)
LEMMA ReadableFinite ==
  ASSUME wal \in Seq(Chunks)
  PROVE  IsFiniteSet(Readable(wal)) /\ Cardinality(Readable(wal)) \in Nat
<1>1. Len(wal) \in Nat /\ DOMAIN wal = 1 .. Len(wal)
  OBVIOUS
<1>2. Readable(wal) \subseteq 1 .. Len(wal)
  BY <1>1 DEF Readable
<1>3. IsFiniteSet(1 .. Len(wal))
  BY <1>1, FS_Interval
<1> QED
  BY <1>2, <1>3, FS_Subset, FS_CardinalityType

(* What write(2) appends is readable if it is whole and follows a newline. *)
LEMMA ReadableAppend ==
  ASSUME wal \in Seq(Chunks), NEW c \in Chunks
  PROVE  /\ IsFiniteSet(Readable(wal)) /\ Cardinality(Readable(wal)) \in Nat
         /\ Cardinality(Readable(Append(wal, c))) =
              Cardinality(Readable(wal)) + (IF c.whole /\ ~ TornAtEnd THEN 1 ELSE 0)
<1> DEFINE more == Append(wal, c)
<1>1. /\ Len(wal) \in Nat /\ DOMAIN wal = 1 .. Len(wal) /\ wal = << >> <=> Len(wal) = 0
      /\ \A i \in 1 .. Len(wal) : wal[i] \in Chunks
  OBVIOUS
<1>2. /\ DOMAIN more = 1 .. Len(wal) + 1
      /\ \A i \in 1 .. Len(wal) : more[i] = wal[i]
      /\ more[Len(wal) + 1] = c
  BY <1>1
<1> HIDE DEF more
<1>3. IsFiniteSet(Readable(wal)) /\ Cardinality(Readable(wal)) \in Nat
  BY ReadableFinite
<1>4. Len(wal) + 1 \notin Readable(wal)
  BY <1>1 DEF Readable
<1>5. ASSUME NEW i \in 1 .. Len(wal) PROVE i \in Readable(more) <=> i \in Readable(wal)
  <2>1. i > 1 => i - 1 \in 1 .. Len(wal)
    BY <1>1
  <2> QED
    BY <1>1, <1>2, <2>1 DEF Readable
<1>6. Len(wal) + 1 \in Readable(more) <=> c.whole /\ ~ TornAtEnd
  <2>1. CASE Len(wal) = 0
    BY <1>1, <1>2, <2>1 DEF Readable, TornAtEnd
  <2>2. CASE Len(wal) # 0
    <3>1. /\ Len(wal) \in 1 .. Len(wal) /\ wal # << >>
          /\ Len(wal) + 1 > 1 /\ Len(wal) + 1 - 1 = Len(wal)
      BY <1>1, <2>2
    <3>2. more[Len(wal) + 1 - 1] = wal[Len(wal)]
      BY <1>2, <3>1
    <3> QED
      BY <1>1, <1>2, <3>1, <3>2 DEF Readable, TornAtEnd
  <2> QED
    BY <2>1, <2>2
<1>7. Readable(more) \subseteq 1 .. Len(wal) + 1 /\ Readable(wal) \subseteq 1 .. Len(wal)
  BY <1>1, <1>2 DEF Readable
<1>8. Readable(more) =
        Readable(wal) \union (IF c.whole /\ ~ TornAtEnd THEN {Len(wal) + 1} ELSE {})
  <2>1. \A i \in 1 .. Len(wal) + 1 : i \in 1 .. Len(wal) \/ i = Len(wal) + 1
    BY <1>1
  <2> QED
    BY <1>5, <1>6, <1>7, <2>1, <1>1
<1>9. CASE c.whole /\ ~ TornAtEnd
  BY <1>3, <1>4, <1>8, <1>9, FS_AddElement DEF more
<1>10. CASE ~ (c.whole /\ ~ TornAtEnd)
  <2>1. Readable(more) = Readable(wal)
    BY <1>8, <1>10
  <2> QED
    BY <1>3, <1>10, <2>1 DEF more
<1> QED
  BY <1>3, <1>9, <1>10

(* A session that is not constructed yet satisfies the invariant. *)
LEMMA InitInv == Init => IInv
<1> SUFFICES ASSUME Init PROVE IInv
  OBVIOUS
<1>1. Types
  <2>1. ControlTypes
    BY DEF Init, ControlTypes
  <2>2. DataTypes
    BY LineSeqsHave DEF Init, DataTypes
  <2>3. CountTypes
    BY SessionAssumption DEF SessionAssumption, Init, CountTypes, Histories
  <2> QED
    BY <2>1, <2>2, <2>3 DEF Types
<1>2. Stages /\ CallbackUnderWay /\ SyntheticFollowsItsEvent
  BY DEF Init, Stages, CallbackUnderWay, SyntheticFollowsItsEvent
<1>3. TearDebt
  <2>1. Readable(<< >>) = {}
    BY DEF Readable
  <2> QED
    BY <2>1, FS_EmptySet DEF Init, TearDebt, TornAtEnd
<1> QED
  BY <1>1, <1>2, <1>3 DEF IInv

(* Construction and stop leave the WAL alone, and run between callbacks.   *)
LEMMA StagesInv ==
  ASSUME IInv,
         OpenWal \/ StartCollector \/ SetTargetCgroup \/ StopReadsStats \/ StopDetaches
  PROVE  IInv'
<1> USE DEF IInv
<1>1. lines = << >>
  BY DEF CallbackUnderWay, OpenWal, StartCollector, SetTargetCgroup, StopReadsStats,
         StopDetaches
<1>2. /\ UNCHANGED << wal, lines, written, submitted, refused >>
      /\ ring' \in {ring, << >>}
  BY DEF OpenWal, StartCollector, SetTargetCgroup, Scoped, HostWide, Unscopable,
         StopReadsStats, StopDetaches
<1>3. Types'
  <2>1. Types /\ Stages /\ ControlTypes /\ DataTypes /\ CountTypes
    BY DEF Types
  <2>2. ControlTypes'
    <3>1. CASE OpenWal
      <4>1. ~ attached /\ ~ walOpen
        BY <2>1, <3>1 DEF OpenWal, Stages
      <4>2. /\ \/ session' = "wal" /\ walOpen' = TRUE
               \/ session' = "failed" /\ walOpen' = walOpen
            /\ UNCHANGED << allowHostWide, attached, scoped >>
        BY <3>1 DEF OpenWal
      <4>3. CASE session' = "wal" /\ walOpen' = TRUE
        BY <2>1, <4>2, <4>3 DEF ControlTypes
      <4>4. CASE session' = "failed" /\ walOpen' = walOpen
        BY <2>1, <4>1, <4>2, <4>4 DEF ControlTypes
      <4> QED
        BY <4>2, <4>3, <4>4
    <3>2. CASE StartCollector
      <4>1. ~ attached
        BY <2>1, <3>2 DEF StartCollector, Stages
      <4>2. /\ \/ session' = "started" /\ attached' = TRUE /\ walOpen' = walOpen
               \/ session' = "failed" /\ walOpen' = FALSE /\ attached' = attached
            /\ UNCHANGED << allowHostWide, scoped >>
        BY <3>2 DEF StartCollector
      <4>3. CASE session' = "started" /\ attached' = TRUE /\ walOpen' = walOpen
        BY <2>1, <4>2, <4>3 DEF ControlTypes
      <4>4. CASE session' = "failed" /\ walOpen' = FALSE /\ attached' = attached
        BY <2>1, <4>1, <4>2, <4>4 DEF ControlTypes
      <4> QED
        BY <4>2, <4>3, <4>4
    <3>3. CASE SetTargetCgroup
      BY <2>1, <3>3 DEF SetTargetCgroup, Scoped, HostWide, Unscopable, ControlTypes
    <3>4. CASE StopReadsStats \/ StopDetaches
      BY <2>1, <3>4 DEF StopReadsStats, StopDetaches, ControlTypes
    <3> QED
      BY <3>1, <3>2, <3>3, <3>4
  <2>3. DataTypes'
    <3>1. << >> \in Seq(Records)
      OBVIOUS
    <3> QED
      BY <1>1, <1>2, <2>1, <3>1 DEF DataTypes
  <2>4. CountTypes'
    <3>1. CASE StopReadsStats
      BY <2>1, <3>1 DEF StopReadsStats, CountTypes, Histories
    <3>2. CASE UNCHANGED << history, dropped >>
      BY <1>2, <2>1, <3>2 DEF CountTypes
    <3>3. CASE OpenWal \/ StartCollector \/ SetTargetCgroup \/ StopDetaches
      BY <3>2, <3>3 DEF OpenWal, StartCollector, SetTargetCgroup, StopDetaches
    <3> QED
      BY <3>1, <3>3
  <2> QED
    BY <2>2, <2>3, <2>4 DEF Types
<1>4. Stages'
  BY DEF OpenWal, StartCollector, SetTargetCgroup, Scoped, HostWide, Unscopable,
         StopReadsStats, StopDetaches, Stages
<1>5. CallbackUnderWay' /\ SyntheticFollowsItsEvent'
  BY <1>1, <1>2 DEF CallbackUnderWay, SyntheticFollowsItsEvent
<1>6. history'.tears = history.tears
  <2>1. history \in Histories
    BY DEF Types, CountTypes
  <2>2. CASE StopReadsStats
    BY <2>1, <2>2 DEF StopReadsStats, Histories
  <2>3. CASE ~ StopReadsStats
    BY <2>3 DEF OpenWal, StartCollector, SetTargetCgroup, StopDetaches
  <2> QED
    BY <2>2, <2>3
<1>7. TearDebt'
  BY <1>2, <1>6 DEF TearDebt, TornAtEnd
<1> QED
  BY <1>3, <1>4, <1>5, <1>7

(* The probes append to the ring or are refused. *)
LEMMA ProbesInv ==
  ASSUME IInv, (\E kind \in RecordKinds : ProbeSubmits(kind)) \/ ProbeRefused
  PROVE  IInv'
<1> USE DEF IInv
<1>1. CASE ProbeRefused
  <2>1. /\ UNCHANGED << allowHostWide, session, attached, scoped, walOpen, wal, ring, lines,
                        submitted, written, dropped, history >>
        /\ refused' = refused + 1
    BY <1>1 DEF ProbeRefused
  <2>2. Types'
    BY <2>1 DEF Types, ControlTypes, DataTypes, CountTypes
  <2>3. Stages' /\ CallbackUnderWay'
    BY <2>1 DEF Stages, CallbackUnderWay
  <2>4. SyntheticFollowsItsEvent' /\ TearDebt'
    BY <2>1 DEF SyntheticFollowsItsEvent, TearDebt, TornAtEnd
  <2> QED
    BY <2>2, <2>3, <2>4
<1>2. ASSUME NEW kind \in RecordKinds, ProbeSubmits(kind) PROVE IInv'
  <2> DEFINE new == [id |-> submitted + 1, kind |-> kind]
  <2>1. /\ attached /\ submitted < MaxEvents /\ submitted' = submitted + 1
        /\ ring' = Append(ring, new)
        /\ UNCHANGED << allowHostWide, session, attached, scoped, walOpen, wal, lines, refused,
                        written, dropped, history >>
    BY <1>2 DEF ProbeSubmits
  <2>2. new \in Records /\ ring \in Seq(Records) /\ submitted + 1 \in 0 .. MaxEvents
    BY <2>1, SessionAssumption
       DEF SessionAssumption, Types, ControlTypes, DataTypes, CountTypes, Records
  <2> HIDE DEF new
  <2>3. ring' \in Seq(Records) /\ ring' # << >> /\ (ring # << >> => Head(ring') = Head(ring))
    BY <2>1, <2>2, AppendIs
  <2>4. Types'
    BY <2>1, <2>2, <2>3 DEF Types, ControlTypes, DataTypes, CountTypes, Records
  <2>5. Stages'
    BY <2>1 DEF Stages
  <2>6. CallbackUnderWay'
    <3>1. CallbackUnderWay /\ << "synthetic" >> # << >>
      OBVIOUS
    <3>2. ring # << >> => Head(ring') = Head(ring)
      BY <2>3
    <3> QED
      BY <2>1, <2>3, <3>1, <3>2 DEF CallbackUnderWay
  <2>7. SyntheticFollowsItsEvent' /\ TearDebt'
    BY <2>1 DEF SyntheticFollowsItsEvent, TearDebt, TornAtEnd
  <2> QED
    BY <2>4, <2>5, <2>6, <2>7
<1> QED
  BY <1>1, <1>2

(* A line is appended, whole or torn: the synthetic one follows the event's. *)
LEMMA WalInv ==
  ASSUME IInv, lines # << >>, NEW torn \in BOOLEAN,
         wal' = Append(wal, Chunk(Head(ring).id, Head(lines), ~ torn)),
         written' = (IF torn THEN written ELSE written + 1),
         history'.tears = (IF torn THEN history.tears + 1 ELSE history.tears)
  PROVE  /\ wal' \in Seq(Chunks) /\ wal' # << >>
         /\ wal'[Len(wal')] = Chunk(Head(ring).id, Head(lines), ~ torn)
         /\ SyntheticFollowsItsEvent' /\ TearDebt'
<1> DEFINE c == Chunk(Head(ring).id, Head(lines), ~ torn)
<1>1. Types /\ CallbackUnderWay /\ SyntheticFollowsItsEvent /\ TearDebt /\ wal \in Seq(Chunks)
  BY DEF IInv, Types, ControlTypes, DataTypes, CountTypes, Chunks
<1>2. Head(ring) \in Records
  BY <1>1, TailIs DEF Types, ControlTypes, DataTypes, CountTypes, Records
<1>3. /\ c \in Chunks /\ c.whole = ~ torn /\ c.line = Head(lines)
      /\ Head(lines) \in {"event", "synthetic"}
      /\ Head(lines) = "synthetic" => lines = << "synthetic" >>
      /\ c.id = Head(ring).id
  BY <1>1, <1>2 DEF CallbackUnderWay, Chunk, Chunks, Records
<1>4. wal' = Append(wal, c)
  OBVIOUS
<1> HIDE DEF c
<1>5. /\ wal' \in Seq(Chunks) /\ Len(wal') = Len(wal) + 1 /\ Len(wal) \in Nat
      /\ \A i \in 1 .. Len(wal) : wal'[i] = wal[i]
      /\ wal'[Len(wal) + 1] = c /\ wal' # << >>
      /\ DOMAIN wal' = 1 .. Len(wal) + 1 /\ DOMAIN wal = 1 .. Len(wal)
  BY <1>1, <1>3, <1>4, AppendIs
<1>6. SyntheticFollowsItsEvent'
  <2> SUFFICES ASSUME NEW i \in 1 .. Len(wal) + 1, wal'[i].line = "synthetic"
               PROVE  i > 1 /\ wal'[i - 1] = Chunk(wal'[i].id, "event", TRUE)
    BY <1>5 DEF SyntheticFollowsItsEvent
  <2>0. i \in 1 .. Len(wal) \/ i = Len(wal) + 1
    BY <1>5
  <2>1. CASE i \in 1 .. Len(wal)
    <3>1. i > 1 /\ wal[i - 1] = Chunk(wal[i].id, "event", TRUE)
      BY <1>1, <1>5, <2>1 DEF SyntheticFollowsItsEvent
    <3>2. i - 1 \in 1 .. Len(wal)
      BY <1>5, <2>1, <3>1
    <3> QED
      BY <1>5, <2>1, <3>1, <3>2
  <2>2. CASE i = Len(wal) + 1
    <3>1. lines = << "synthetic" >>
      BY <1>3, <1>5, <2>2
    <3>2. wal # << >> /\ wal[Len(wal)] = Chunk(Head(ring).id, "event", TRUE)
      BY <1>1, <3>1 DEF CallbackUnderWay
    <3>3. Len(wal) \in 1 .. Len(wal) /\ i - 1 = Len(wal) /\ i > 1
      BY <1>1, <1>5, <2>2, <3>2
    <3> QED
      BY <1>3, <1>5, <2>2, <3>2, <3>3
  <2> QED
    BY <2>0, <2>1, <2>2
<1>7. TornAtEnd' <=> torn
  BY <1>3, <1>5 DEF TornAtEnd
<1>8. /\ Cardinality(Readable(wal)) \in Nat
      /\ Cardinality(Readable(wal')) =
           Cardinality(Readable(wal)) + (IF ~ torn /\ ~ TornAtEnd THEN 1 ELSE 0)
  BY <1>1, <1>3, <1>4, ReadableAppend
<1>9. written \in Nat /\ history.tears \in Nat
  BY <1>1 DEF Types, CountTypes, Histories
<1>10. TearDebt'
  BY <1>1, <1>7, <1>8, <1>9 DEF TearDebt
<1> QED
  BY <1>3, <1>4, <1>5, <1>6, <1>10 DEF c

(* PollOnce, from the record to its last line. *)
LEMMA PollInv ==
  ASSUME IInv,
         DecodeFails \/ Decodes \/ WritesLine \/ \E torn \in BOOLEAN : WriteFails(torn)
  PROVE  IInv'
<1>0. Types /\ Stages /\ CallbackUnderWay /\ SyntheticFollowsItsEvent /\ TearDebt
  BY DEF IInv
<1>1. /\ UNCHANGED << allowHostWide, session, attached, scoped, walOpen, submitted, refused >>
      /\ session = "running" /\ ring # << >>
  BY <1>0 DEF DecodeFails, Decodes, WritesLine, WriteFails, Throws, PollLeaves, Polls,
              CallbackUnderWay
<1>2. Tail(ring) \in Seq(Records) /\ Head(ring) \in Records /\ ring \in Seq(Records)
  BY <1>1, <1>0, TailIs DEF Types, ControlTypes, DataTypes, CountTypes, Records
<1>3. CASE DecodeFails
  <2>1. /\ lines = << >> /\ ring' = Tail(ring) /\ dropped' = dropped + 1
        /\ UNCHANGED << wal, lines, written, history >>
    BY <1>3 DEF DecodeFails, Polls
  <2>2. Types'
    BY <1>0, <1>1, <1>2, <2>1 DEF Types, ControlTypes, DataTypes, CountTypes, Records
  <2>3. Stages' /\ CallbackUnderWay' /\ SyntheticFollowsItsEvent' /\ TearDebt'
    BY <1>0, <1>1, <2>1
       DEF Stages, CallbackUnderWay, SyntheticFollowsItsEvent, TearDebt, TornAtEnd
  <2> QED
    BY <2>2, <2>3 DEF IInv
<1>4. CASE Decodes
  <2>1. /\ lines' \in {<< "event" >>, << "event", "synthetic" >>}
        /\ UNCHANGED << wal, ring, written, dropped, history >>
    BY <1>4 DEF Decodes, LinesOf
  <2>2. Types'
    <3>1. lines' \in LineSeqs
      BY <2>1, LineSeqsHave
    <3> QED
      BY <1>0, <1>1, <2>1, <3>1 DEF Types, ControlTypes, DataTypes, CountTypes
  <2>3. lines' # << "synthetic" >>
    BY <2>1
  <2>4. Stages' /\ CallbackUnderWay' /\ SyntheticFollowsItsEvent' /\ TearDebt'
    BY <1>0, <1>1, <2>1, <2>3
       DEF Stages, CallbackUnderWay, SyntheticFollowsItsEvent, TearDebt, TornAtEnd
  <2> QED
    BY <2>2, <2>4 DEF IInv
<1>5. CASE WritesLine
  <2>1. /\ lines # << >>
        /\ wal' = Append(wal, Chunk(Head(ring).id, Head(lines), ~ FALSE))
        /\ history' = IF Head(lines) = "event"
                      THEN [history EXCEPT !.recorded = Append(@, Head(ring).id)] ELSE history
        /\ written' = written + 1 /\ dropped' = dropped /\ lines' = Tail(lines)
        /\ ring' = IF Len(lines) = 1 THEN Tail(ring) ELSE ring
    BY <1>5 DEF WritesLine
  <2>2. history' \in Histories
        /\ history'.tears = history.tears /\ history'.counted = history.counted
    <3>1. Head(ring).id \in 1 .. MaxEvents
      BY <1>2 DEF Records
    <3>2. Append(history.recorded, Head(ring).id) \in Seq(1 .. MaxEvents)
      BY <1>0, <3>1, AppendIs DEF Types, CountTypes, Histories
    <3> QED
      BY <1>0, <2>1, <3>2 DEF Types, CountTypes, Histories
  <2>3. /\ wal' \in Seq(Chunks) /\ wal' # << >>
        /\ wal'[Len(wal')] = Chunk(Head(ring).id, Head(lines), TRUE)
        /\ SyntheticFollowsItsEvent' /\ TearDebt'
    BY <2>1, <2>2, WalInv, FALSE \in BOOLEAN
  <2>4. \/ lines \in {<< "event" >>, << "synthetic" >>} /\ lines' = << >> /\ ring' = Tail(ring)
        \/ /\ lines = << "event", "synthetic" >> /\ lines' = << "synthetic" >> /\ ring' = ring
           /\ Head(lines) = "event"
    <3>1. CASE lines = << "event" >>
      BY <2>1, <3>1
    <3>2. CASE lines = << "synthetic" >>
      BY <2>1, <3>2
    <3>3. CASE lines = << "event", "synthetic" >>
      BY <2>1, <3>3
    <3> QED
      BY <1>0, <2>1, <3>1, <3>2, <3>3 DEF CallbackUnderWay
  <2>5. Types'
    <3>1. ControlTypes'
      BY <1>0, <1>1 DEF Types, ControlTypes
    <3>2. DataTypes'
      <4>1. lines' \in LineSeqs /\ ring' \in Seq(Records) /\ (lines' # << >> => ring' # << >>)
        BY <1>1, <1>2, <2>4, LineSeqsHave
      <4> QED
        BY <2>3, <4>1 DEF DataTypes
    <3>3. CountTypes'
      BY <1>0, <1>1, <2>1, <2>2 DEF Types, CountTypes
    <3> QED
      BY <3>1, <3>2, <3>3 DEF Types
  <2>6. CallbackUnderWay'
    <3>1. CASE lines' = << >>
      BY <3>1 DEF CallbackUnderWay
    <3>2. CASE lines' = << "synthetic" >> /\ ring' = ring /\ Head(lines) = "event"
      BY <1>1, <2>3, <3>2 DEF CallbackUnderWay
    <3> QED
      BY <2>4, <3>1, <3>2
  <2>7. Stages'
    BY <1>0, <1>1, <2>2 DEF Stages
  <2> QED
    BY <2>3, <2>5, <2>6, <2>7 DEF IInv
<1>6. ASSUME NEW torn \in BOOLEAN, WriteFails(torn) PROVE IInv'
  <2>1. /\ lines # << >> /\ lines' = << >> /\ ring' = Tail(ring)
        /\ dropped' = dropped + 1 /\ written' = written
        /\ wal' = IF torn THEN Append(wal, Chunk(Head(ring).id, Head(lines), FALSE)) ELSE wal
        /\ history' =
             [history EXCEPT !.tears = IF torn THEN @ + 1 ELSE @,
                             !.synthLost = IF Head(lines) = "synthetic" THEN @ + 1 ELSE @]
    BY <1>6 DEF WriteFails, Throws
  <2>2. history' \in Histories
        /\ history'.tears = (IF torn THEN history.tears + 1 ELSE history.tears)
        /\ history'.counted = history.counted
    <3>1. history \in Histories
      BY <1>0 DEF Types, CountTypes
    <3>2. history.tears \in Nat /\ history.synthLost \in Nat
      BY <3>1 DEF Histories
    <3> DEFINE t == IF torn THEN history.tears + 1 ELSE history.tears
               l == IF Head(lines) = "synthetic" THEN history.synthLost + 1
                    ELSE history.synthLost
    <3>3. t \in Nat /\ l \in Nat
      BY <3>2
    <3>4. history' = [history EXCEPT !.tears = t, !.synthLost = l]
      BY <2>1, <3>1 DEF Histories
    <3> HIDE DEF t, l
    <3>5. history' \in Histories /\ history'.tears = t /\ history'.counted = history.counted
      BY <3>1, <3>3, <3>4 DEF Histories
    <3> QED
      BY <3>5 DEF t
  <2>3. wal' \in Seq(Chunks) /\ SyntheticFollowsItsEvent' /\ TearDebt'
    <3>1. CASE torn
      <4>1. wal' = Append(wal, Chunk(Head(ring).id, Head(lines), ~ TRUE))
        BY <2>1, <3>1
      <4> QED
        BY <2>1, <2>2, <3>1, <4>1, WalInv, TRUE \in BOOLEAN
    <3>2. CASE ~ torn
      BY <1>0, <2>1, <2>2, <3>2
         DEF Types, DataTypes, Chunks, SyntheticFollowsItsEvent, TearDebt, TornAtEnd
    <3> QED
      BY <3>1, <3>2
  <2>4. Types'
    <3>1. ControlTypes'
      BY <1>0, <1>1 DEF Types, ControlTypes
    <3>2. DataTypes'
      BY <1>2, <2>1, <2>3, LineSeqsHave DEF DataTypes
    <3>3. CountTypes'
      BY <1>0, <1>1, <2>1, <2>2 DEF Types, CountTypes
    <3> QED
      BY <3>1, <3>2, <3>3 DEF Types
  <2>5. CallbackUnderWay' /\ Stages'
    BY <1>0, <1>1, <2>1, <2>2 DEF CallbackUnderWay, Stages
  <2> QED
    BY <2>3, <2>4, <2>5 DEF IInv
<1> QED
  BY <1>3, <1>4, <1>5, <1>6

(* Every step keeps it. *)
LEMMA NextInv == IInv /\ [Next]_vars => IInv'
<1> SUFFICES ASSUME IInv, [Next]_vars PROVE IInv'
  OBVIOUS
<1>1. CASE UNCHANGED vars
  BY <1>1 DEF vars, IInv, Types, ControlTypes, DataTypes, CountTypes, Stages, CallbackUnderWay,
              SyntheticFollowsItsEvent, TearDebt, TornAtEnd
<1> QED
  BY <1>1, StagesInv, ProbesInv, PollInv DEF Next

(* The inductive invariant holds in every state of a session. *)
THEOREM Invariant == Spec => []IInv
<1>1. IInv /\ [Next]_vars => IInv'
  BY NextInv
<1> QED
  BY InitInv, <1>1, PTL DEF Spec

(* The types, and with them: a constructor that throws leaves nothing      *)
(* attached or open, nor does stop (session.cpp, Session and stop).        *)
THEOREM TypeCorrect == Spec => []TypeOK
<1>1. IInv => TypeOK
  BY TypesAreOK DEF IInv
<1> QED
  BY <1>1, Invariant, PTL

(* A write that failed half way costs a reader one line more than it is    *)
(* counted, and no more (session.cpp write_line); the synthetic line of an *)
(* event directly follows the event's own (session.cpp on_raw_event).      *)
THEOREM WalIsReadBack == Spec => []WalReadsBack
<1>1. IInv => TearsSpoilOneLine
  <2> SUFFICES ASSUME IInv PROVE TearsSpoilOneLine
    OBVIOUS
  <2>1. /\ wal \in Seq(Chunks) /\ written \in Nat /\ history.tears \in Nat /\ TearDebt
    BY DEF IInv, Types, DataTypes, CountTypes, Histories
  <2>2. Cardinality(Readable(wal)) \in Nat
    BY <2>1, ReadableFinite
  <2> QED
    BY <2>1, <2>2 DEF TearDebt, TearsSpoilOneLine
<1>2. IInv => WalReadsBack
  BY <1>1 DEF IInv, WalReadsBack
<1> QED
  BY <1>2, Invariant, PTL

-----------------------------------------------------------------------------
(* The refinement of EventLedger: the numbers of a sequence of records, and *)
(* the records that wait.                                                  *)
Ids(seq) == [i \in DOMAIN seq |-> seq[i].id]
Left(records, todo) ==
  IF todo # << >> /\ Head(todo) = "synthetic" THEN Tail(records) ELSE records

(* Numbering a sequence commutes with adding to it and taking from it. *)
LEMMA IdsAre ==
  ASSUME NEW s \in Seq(Records)
  PROVE  /\ Ids(s) \in Seq(1 .. MaxEvents) /\ Len(Ids(s)) = Len(s)
         /\ \A i \in 1 .. Len(s) : Ids(s)[i] = s[i].id
<1>1. Len(s) \in Nat /\ DOMAIN s = 1 .. Len(s) /\ \A i \in 1 .. Len(s) : s[i] \in Records
  OBVIOUS
<1>2. \A i \in 1 .. Len(s) : s[i].id \in 1 .. MaxEvents
  BY <1>1 DEF Records
<1> QED
  BY <1>1, <1>2 DEF Ids

(* No records, no numbers. *)
LEMMA IdsOfNone == Ids(<< >>) = << >>
<1>1. << >> \in Seq(Records)
  OBVIOUS
<1>2. Ids(<< >>) \in Seq(1 .. MaxEvents) /\ Len(Ids(<< >>)) = 0
  BY <1>1, IdsAre
<1> QED
  BY <1>2

(* One record more, one number more. *)
LEMMA IdsOfAppend ==
  ASSUME NEW s \in Seq(Records), NEW r \in Records
  PROVE  Ids(Append(s, r)) = Append(Ids(s), r.id)
<1>1. r.id \in 1 .. MaxEvents
  BY DEF Records
<1> DEFINE t == Append(s, r)
           left == Ids(t)
           right == Append(Ids(s), r.id)
<1>2. /\ t \in Seq(Records) /\ Len(t) = Len(s) + 1 /\ Len(s) \in Nat
      /\ \A i \in 1 .. Len(s) : t[i] = s[i]
      /\ t[Len(s) + 1] = r
  BY AppendIs
<1>3. /\ Ids(s) \in Seq(1 .. MaxEvents) /\ Len(Ids(s)) = Len(s)
      /\ \A i \in 1 .. Len(s) : Ids(s)[i] = s[i].id
  BY IdsAre
<1>4. /\ right \in Seq(1 .. MaxEvents) /\ Len(right) = Len(s) + 1
      /\ \A i \in 1 .. Len(s) : right[i] = Ids(s)[i]
      /\ right[Len(s) + 1] = r.id
  BY <1>1, <1>3, AppendIs
<1> HIDE DEF t, right
<1>5. /\ left \in Seq(1 .. MaxEvents) /\ Len(left) = Len(s) + 1
      /\ \A i \in 1 .. Len(s) + 1 : left[i] = t[i].id
  BY <1>2, IdsAre
<1> HIDE DEF left
<1>6. ASSUME NEW i \in 1 .. Len(s) + 1 PROVE left[i] = right[i]
  <2>1. i \in 1 .. Len(s) \/ i = Len(s) + 1
    BY <1>2
  <2> QED
    BY <1>2, <1>3, <1>4, <1>5, <2>1
<1>7. left = right
  BY <1>4, <1>5, <1>6, SeqEqual
<1> QED
  BY <1>7 DEF left, right, t

(* The oldest record has the oldest number. *)
LEMMA IdsOfTail ==
  ASSUME NEW s \in Seq(Records), s # << >>
  PROVE  /\ Ids(s) # << >> /\ Head(Ids(s)) = Head(s).id
         /\ Ids(Tail(s)) = Tail(Ids(s))
<1> DEFINE t == Tail(s)
           ids == Ids(s)
           left == Ids(t)
           right == Tail(ids)
<1>1. /\ Len(s) \in Nat \ {0} /\ t \in Seq(Records) /\ Len(t) = Len(s) - 1
      /\ \A i \in 1 .. Len(s) - 1 : t[i] = s[i + 1]
      /\ Head(s) = s[1]
  BY TailIs
<1>2. /\ ids \in Seq(1 .. MaxEvents) /\ Len(ids) = Len(s)
      /\ \A i \in 1 .. Len(s) : ids[i] = s[i].id
  BY IdsAre
<1> HIDE DEF ids, t
<1>3. ids # << >>
  BY <1>1, <1>2
<1>4. /\ right \in Seq(1 .. MaxEvents) /\ Len(right) = Len(s) - 1
      /\ \A i \in 1 .. Len(s) - 1 : right[i] = ids[i + 1]
      /\ Head(ids) = ids[1]
  BY <1>2, <1>3, TailIs
<1>5. /\ left \in Seq(1 .. MaxEvents) /\ Len(left) = Len(s) - 1
      /\ \A i \in 1 .. Len(s) - 1 : left[i] = t[i].id
  BY <1>1, IdsAre
<1> HIDE DEF left, right
<1>6. ASSUME NEW i \in 1 .. Len(s) - 1 PROVE left[i] = right[i]
  <2>1. i + 1 \in 1 .. Len(s)
    BY <1>1
  <2> QED
    BY <1>1, <1>2, <1>4, <1>5, <2>1
<1>7. left = right
  BY <1>4, <1>5, <1>6, SeqEqual
<1>8. Head(ids) = Head(s).id
  BY <1>1, <1>2, <1>4
<1> QED
  BY <1>3, <1>7, <1>8 DEF left, right, t, ids

(* Taking from the front and adding at the end commute. *)
LEMMA TailOfAppend ==
  ASSUME NEW S, NEW s \in Seq(S), NEW e \in S, s # << >>
  PROVE  Tail(Append(s, e)) = Append(Tail(s), e)
<1> DEFINE t == Append(s, e)
           left == Tail(t)
           right == Append(Tail(s), e)
<1>0. Len(s) \in Nat
  OBVIOUS
<1>1. /\ t \in Seq(S) /\ Len(t) = Len(s) + 1 /\ t # << >>
      /\ \A i \in 1 .. Len(s) : t[i] = s[i]
      /\ t[Len(s) + 1] = e
  BY AppendIs
<1>2. /\ Tail(s) \in Seq(S) /\ Len(Tail(s)) = Len(s) - 1
      /\ \A i \in 1 .. Len(s) - 1 : Tail(s)[i] = s[i + 1]
  BY TailIs
<1>3. /\ right \in Seq(S) /\ Len(right) = Len(s)
      /\ \A i \in 1 .. Len(s) - 1 : right[i] = Tail(s)[i]
      /\ right[Len(s)] = e
  <2>1. Len(Tail(s)) + 1 = Len(s)
    BY <1>2
  <2> QED
    BY <1>2, <2>1, AppendIs
<1> HIDE DEF t, right
<1>4. /\ left \in Seq(S) /\ Len(left) = Len(s)
      /\ \A i \in 1 .. Len(s) : left[i] = t[i + 1]
  <2>1. Len(t) - 1 = Len(s)
    BY <1>1, <1>2
  <2> QED
    BY <1>1, <2>1, TailIs
<1> HIDE DEF left
<1>5. ASSUME NEW i \in 1 .. Len(s) PROVE left[i] = right[i]
  <2>1. i # Len(s) => i \in 1 .. Len(s) - 1
    BY <1>0
  <2>2. i # Len(s) => i + 1 \in 1 .. Len(s)
    BY <1>0
  <2> QED
    BY <1>0, <1>1, <1>2, <1>3, <1>4, <2>1, <2>2
<1>6. left = right
  BY <1>3, <1>4, <1>5, SeqEqual
<1> QED
  BY <1>6 DEF left, right, t

-----------------------------------------------------------------------------
(* What the ledger sees of a state. *)
LEMMA WaitingIs ==
  Waiting = Ids(Left(ring, lines)) /\ Waiting' = Ids(Left(ring', lines'))
  BY DEF Waiting, Ids, Left

(* A new session's ledger is empty. *)
LEMMA LedgerStart == Init => Ledger!LedgerInit
<1> SUFFICES ASSUME Init PROVE Ledger!LedgerInit
  OBVIOUS
<1>1. Waiting = << >>
  BY WaitingIs, IdsOfNone DEF Init, Left
<1> QED
  BY <1>1 DEF Init, Ledger!LedgerInit

(* Construction and stop: closing gives up what waits. *)
LEMMA StagesRefine ==
  ASSUME IInv,
         OpenWal \/ StartCollector \/ SetTargetCgroup \/ StopReadsStats \/ StopDetaches
  PROVE  Ledger!Close \/ UNCHANGED Ledger!ledger
<1>0. /\ Stages /\ CallbackUnderWay /\ dropped \in Nat /\ history \in Histories
      /\ history.recorded \in Seq(1 .. MaxEvents)
      /\ history.synthLost \in Nat /\ history.counted \in Nat
  BY DEF IInv, Types, CountTypes, Histories
<1>1. lines = << >> /\ lines' = << >> /\ submitted' = submitted
  BY <1>0 DEF CallbackUnderWay, OpenWal, StartCollector, SetTargetCgroup, Scoped, HostWide,
              Unscopable, StopReadsStats, StopDetaches
<1>2. Waiting = Ids(ring) /\ Waiting' = Ids(ring')
  BY <1>1, WaitingIs DEF Left
<1> DEFINE given == dropped - history.synthLost - history.counted
<1>3. CASE StopReadsStats
  <2>1. PICK read \in {0, refused} :
          dropped' = dropped + read /\ history' = [history EXCEPT !.counted = read]
    BY <1>3 DEF StopReadsStats
  <2>2. /\ history'.recorded = history.recorded /\ history'.synthLost = history.synthLost
        /\ history'.counted = read /\ history.counted = 0 /\ read \in Nat
    BY <1>0, <1>3, <2>1 DEF Stages, Histories, StopReadsStats, IInv, Types, CountTypes
  <2>3. given' = given
    BY <1>0, <2>1, <2>2
  <2>4. ring' = ring /\ session = "running" /\ session' = "counted"
    BY <1>3 DEF StopReadsStats
  <2> QED
    BY <1>1, <1>2, <2>2, <2>3, <2>4 DEF Ledger!ledger
<1>4. CASE OpenWal \/ StartCollector \/ SetTargetCgroup \/ StopDetaches
  <2>1. UNCHANGED << history, dropped >>
    BY <1>4 DEF OpenWal, StartCollector, SetTargetCgroup, StopDetaches
  <2>2. given' = given /\ history'.recorded = history.recorded
    BY <2>1
  <2>3. session \notin {"stopped", "failed"}
    BY <1>4 DEF OpenWal, StartCollector, SetTargetCgroup, StopDetaches
  <2>4. CASE session' \in {"stopped", "failed"}
    <3>1. ring' = << >>
      BY <1>4, <1>0, <2>4 DEF OpenWal, StartCollector, SetTargetCgroup, Scoped, HostWide,
                        Unscopable, StopDetaches, Stages
    <3>2. Waiting' = << >>
      BY <1>2, <3>1, IdsOfNone
    <3> QED
      BY <1>1, <2>2, <2>4, <3>2 DEF Ledger!Close
  <2>5. CASE session' \notin {"stopped", "failed"}
    <3>1. ring' = ring
      BY <1>4, <2>5 DEF OpenWal, StartCollector, SetTargetCgroup, Scoped, HostWide,
                        Unscopable, StopDetaches
    <3> QED
      BY <1>1, <1>2, <2>2, <2>3, <2>5, <3>1 DEF Ledger!ledger
  <2> QED
    BY <2>4, <2>5
<1> QED
  BY <1>3, <1>4

(* A probe that reserves submits; one that is refused is not seen. *)
LEMMA ProbesRefine ==
  ASSUME IInv, (\E kind \in RecordKinds : ProbeSubmits(kind)) \/ ProbeRefused
  PROVE  Ledger!Submit \/ UNCHANGED Ledger!ledger
<1>1. CASE ProbeRefused
  BY <1>1, WaitingIs DEF ProbeRefused, Ledger!ledger
<1>2. ASSUME NEW kind \in RecordKinds, ProbeSubmits(kind) PROVE Ledger!Submit
  <2> DEFINE new == [id |-> submitted + 1, kind |-> kind]
  <2>1. /\ attached /\ submitted < MaxEvents /\ submitted' = submitted + 1
        /\ ring' = Append(ring, new)
        /\ UNCHANGED << session, lines, dropped, history >>
    BY <1>2 DEF ProbeSubmits
  <2>2. /\ new \in Records /\ ring \in Seq(Records) /\ (lines # << >> => ring # << >>)
        /\ session \notin {"stopped", "failed"} /\ new.id = submitted + 1
    BY <2>1, SessionAssumption
       DEF SessionAssumption, IInv, Types, ControlTypes, DataTypes, CountTypes, Records
  <2> HIDE DEF new
  <2>3. /\ Left(ring', lines') = Append(Left(ring, lines), new)
        /\ Left(ring, lines) \in Seq(Records)
    <3>1. CASE lines # << >> /\ Head(lines) = "synthetic"
      BY <2>1, <2>2, <3>1, TailOfAppend, TailIs DEF Left
    <3>2. CASE ~ (lines # << >> /\ Head(lines) = "synthetic")
      BY <2>1, <2>2, <3>2 DEF Left
    <3> QED
      BY <3>1, <3>2
  <2>4. Waiting' = Append(Waiting, submitted + 1)
    BY <2>2, <2>3, WaitingIs, IdsOfAppend
  <2> QED
    BY <2>1, <2>2, <2>4 DEF Ledger!Submit
<1> QED
  BY <1>1, <1>2

(* A poll records the event with its own line, or gives it up; what        *)
(* becomes of the synthetic line is not seen.                              *)
LEMMA PollRefines ==
  ASSUME IInv,
         DecodeFails \/ Decodes \/ WritesLine \/ \E torn \in BOOLEAN : WriteFails(torn)
  PROVE  Ledger!Record \/ Ledger!GiveUp \/ UNCHANGED Ledger!ledger
<1>0. /\ CallbackUnderWay /\ dropped \in Nat /\ history \in Histories /\ ring \in Seq(Records)
      /\ history.synthLost \in Nat /\ history.counted \in Nat
  BY DEF IInv, Types, DataTypes, CountTypes, Histories
<1>1. UNCHANGED << session, submitted >> /\ session = "running" /\ ring # << >>
  BY <1>0 DEF DecodeFails, Decodes, WritesLine, WriteFails, Throws, PollLeaves, Polls,
              CallbackUnderWay
<1>2. Ids(ring) # << >> /\ Head(Ids(ring)) = Head(ring).id /\ Ids(Tail(ring)) = Tail(Ids(ring))
  BY <1>0, <1>1, IdsOfTail
<1>3. CASE DecodeFails
  <2>1. /\ lines = << >> /\ lines' = << >> /\ ring' = Tail(ring)
        /\ dropped' = dropped + 1 /\ history' = history
    BY <1>3 DEF DecodeFails, Polls
  <2>2. Waiting = Ids(ring) /\ Waiting' = Tail(Ids(ring))
    BY <1>2, <2>1, WaitingIs DEF Left
  <2> QED
    BY <1>0, <1>1, <1>2, <2>1, <2>2 DEF Ledger!GiveUp
<1>4. CASE Decodes
  <2>1. /\ lines = << >> /\ lines' \in {<< "event" >>, << "event", "synthetic" >>}
        /\ UNCHANGED << ring, dropped, history >>
    BY <1>4 DEF Decodes, Polls, LinesOf
  <2>2. Head(lines') = "event"
    BY <2>1
  <2>3. Waiting' = Waiting
    BY <2>1, <2>2, WaitingIs DEF Left
  <2> QED
    BY <1>1, <2>1, <2>3 DEF Ledger!ledger
<1>5. CASE WritesLine
  <2>1. /\ lines # << >> /\ dropped' = dropped /\ lines' = Tail(lines)
        /\ history' = IF Head(lines) = "event"
                      THEN [history EXCEPT !.recorded = Append(@, Head(ring).id)] ELSE history
        /\ ring' = IF Len(lines) = 1 THEN Tail(ring) ELSE ring
    BY <1>5 DEF WritesLine
  <2>2. CASE lines = << "synthetic" >>
    <3>1. /\ Head(lines) = "synthetic" /\ lines' = << >>
          /\ ring' = Tail(ring) /\ history' = history
      BY <2>1, <2>2
    <3>2. Waiting' = Waiting
      BY <2>1, <3>1, WaitingIs DEF Left
    <3> QED
      BY <1>1, <2>1, <3>1, <3>2 DEF Ledger!ledger
  <2>3. ASSUME lines = << "event" >> \/ lines = << "event", "synthetic" >>
        PROVE  Ledger!Record
    <3>1. Head(lines) = "event" /\ Left(ring', lines') = Tail(ring)
      <4>1. CASE lines = << "event" >>
        <5>1. Head(lines) = "event" /\ lines' = << >> /\ ring' = Tail(ring)
          BY <2>1, <4>1
        <5> QED
          BY <5>1 DEF Left
      <4>2. CASE lines = << "event", "synthetic" >>
        <5>1. /\ Head(lines) = "event" /\ lines' = << "synthetic" >> /\ ring' = ring
              /\ Head(<< "synthetic" >>) = "synthetic" /\ << "synthetic" >> # << >>
          BY <2>1, <4>2
        <5> QED
          BY <5>1 DEF Left
      <4> QED
        BY <2>3, <4>1, <4>2
    <3>2. Waiting = Ids(ring) /\ Waiting' = Tail(Ids(ring))
      BY <1>2, <3>1, WaitingIs DEF Left
    <3>3. /\ history'.recorded = Append(history.recorded, Head(ring).id)
          /\ history'.synthLost = history.synthLost /\ history'.counted = history.counted
      BY <1>0, <2>1, <3>1 DEF Histories
    <3> QED
      BY <1>1, <1>2, <2>1, <3>2, <3>3 DEF Ledger!Record
  <2> QED
    BY <1>0, <2>1, <2>2, <2>3 DEF CallbackUnderWay
<1>6. ASSUME NEW torn \in BOOLEAN, WriteFails(torn)
      PROVE  Ledger!GiveUp \/ UNCHANGED Ledger!ledger
  <2>1. /\ lines # << >> /\ lines' = << >> /\ ring' = Tail(ring) /\ dropped' = dropped + 1
        /\ history' =
             [history EXCEPT !.tears = IF torn THEN @ + 1 ELSE @,
                             !.synthLost = IF Head(lines) = "synthetic" THEN @ + 1 ELSE @]
    BY <1>6 DEF WriteFails, Throws
  <2>2. /\ history'.recorded = history.recorded /\ history'.counted = history.counted
        /\ history'.synthLost =
             IF Head(lines) = "synthetic" THEN history.synthLost + 1 ELSE history.synthLost
    BY <1>0, <2>1 DEF Histories
  <2>3. CASE Head(lines) = "synthetic"
    <3>1. Waiting' = Waiting
      BY <2>1, <2>3, WaitingIs DEF Left
    <3>2. (dropped - history.synthLost - history.counted)'
            = dropped - history.synthLost - history.counted
      BY <1>0, <2>1, <2>2, <2>3
    <3> QED
      BY <1>1, <2>2, <3>1, <3>2 DEF Ledger!ledger
  <2>4. CASE Head(lines) # "synthetic"
    <3>1. Waiting = Ids(ring) /\ Waiting' = Tail(Ids(ring))
      BY <1>2, <2>1, <2>4, WaitingIs DEF Left
    <3>2. (dropped - history.synthLost - history.counted)'
            = dropped - history.synthLost - history.counted + 1
      BY <1>0, <2>1, <2>2, <2>4
    <3> QED
      BY <1>1, <1>2, <2>2, <3>1, <3>2 DEF Ledger!GiveUp
  <2> QED
    BY <2>3, <2>4
<1> QED
  BY <1>3, <1>4, <1>5, <1>6

(* The session implements the ledger of its events: none is recorded twice *)
(* or out of order, and until stop every event is recorded, waits in the   *)
(* ring or is in events_dropped_ (session.cpp on_raw_event, stop).         *)
THEOREM EventsAreAccountedFor == Spec => KeepsLedger
<1>1. IInv /\ [Next]_vars => [Ledger!LedgerNext]_Ledger!ledger
  <2> SUFFICES ASSUME IInv, [Next]_vars PROVE Ledger!LedgerNext \/ UNCHANGED Ledger!ledger
    OBVIOUS
  <2>1. CASE UNCHANGED vars
    BY <2>1, WaitingIs DEF vars, Ledger!ledger
  <2>2. CASE Next
    BY <2>2, StagesRefine, ProbesRefine, PollRefines DEF Next, Ledger!LedgerNext
  <2> QED
    BY <2>1, <2>2
<1> QED
  BY LedgerStart, <1>1, Invariant, PTL DEF Spec, KeepsLedger, Ledger!LedgerSpec

-----------------------------------------------------------------------------
(* What stop loses.  The events passed are those recorded or given up; of a *)
(* packet whose synthetic line is still to come, the record has stayed.    *)
GivenUp == dropped - history.synthLost - history.counted
Passed == Len(history.recorded) + GivenUp
Owed == IF lines = << "synthetic" >> THEN 1 ELSE 0
Open == session \notin {"stopped", "failed"}

(* StopLosesOnlyTheTail, made inductive: until the session ends, the ring  *)
(* holds, in order, exactly the events not passed.                         *)
RingIsTheTail ==
  /\ Len(ring) <= RingCapacity
  /\ Open => submitted = Passed + Len(ring) - Owed
  /\ Open => \A i \in 1 .. Len(ring) : ring[i].id = submitted - Len(ring) + i
TailInv ==
  /\ RingIsTheTail
  /\ submitted - Passed \in 0 .. RingCapacity
  /\ \A i \in 1 .. Len(history.recorded) : history.recorded[i] <= Passed
  /\ history.counted <= refused

(* The numbers that TailInv is about are numbers. *)
LEMMA TailNumbers ==
  ASSUME IInv
  PROVE  /\ submitted \in Nat /\ refused \in Nat /\ dropped \in Nat
         /\ history \in Histories
         /\ history.synthLost \in Nat /\ history.counted \in Nat
         /\ history.recorded \in Seq(1 .. MaxEvents) /\ Len(history.recorded) \in Nat
         /\ \A i \in 1 .. Len(history.recorded) : history.recorded[i] \in Nat
         /\ Passed \in Int /\ GivenUp \in Int
         /\ ring \in Seq(Records) /\ Len(ring) \in Nat /\ (ring # << >> => Len(ring) > 0)
         /\ Owed \in {0, 1} /\ RingCapacity \in Nat
<1>1. /\ submitted \in 0 .. MaxEvents /\ MaxEvents \in Nat /\ RingCapacity \in Nat
      /\ refused \in Nat /\ dropped \in Nat /\ history \in Histories
      /\ ring \in Seq(Records)
  BY SessionAssumption DEF SessionAssumption, IInv, Types, DataTypes, CountTypes
<1>2. /\ history.synthLost \in Nat /\ history.counted \in Nat
      /\ history.recorded \in Seq(1 .. MaxEvents)
  BY <1>1 DEF Histories
<1>3. /\ Len(history.recorded) \in Nat
      /\ \A i \in 1 .. Len(history.recorded) : history.recorded[i] \in 1 .. MaxEvents
  BY <1>2, ElementOfSeq, LenProperties
<1>4. Len(ring) \in Nat /\ (ring # << >> => Len(ring) > 0)
  BY <1>1
<1>5. Owed \in {0, 1}
  BY DEF Owed
<1>6. GivenUp \in Int
  BY <1>1, <1>2 DEF GivenUp
<1>7. Passed \in Int
  BY <1>3, <1>6 DEF Passed
<1> QED
  BY <1>1, <1>2, <1>3, <1>4, <1>5, <1>6, <1>7

(* One more dropped is one more given up, unless it is a synthetic line. *)
LEMMA GivenUpCounts ==
  ASSUME IInv, NEW one \in {0, 1}, dropped' = dropped + 1,
         history'.synthLost = history.synthLost + one, history'.counted = history.counted
  PROVE  GivenUp' = GivenUp + 1 - one
<1>1. dropped \in Nat /\ history.synthLost \in Nat /\ history.counted \in Nat
  BY TailNumbers
<1>2. GivenUp' = (dropped + 1) - (history.synthLost + one) - history.counted
  BY DEF GivenUp
<1>3. GivenUp = dropped - history.synthLost - history.counted
  BY DEF GivenUp
<1> QED
  BY <1>1, <1>2, <1>3

(* The oldest record leaves the ring: the others are the tail still. *)
LEMMA RingPasses ==
  ASSUME IInv, RingIsTheTail, Open, ring # << >>, ring' = Tail(ring), submitted' = submitted
  PROVE  /\ Len(ring') = Len(ring) - 1 /\ Len(ring') <= RingCapacity
         /\ \A i \in 1 .. Len(ring') : ring'[i].id = submitted' - Len(ring') + i
         /\ Head(ring).id = submitted - Len(ring) + 1
<1>1. /\ Len(ring) \in Nat \ {0} /\ Len(ring') = Len(ring) - 1
      /\ \A i \in 1 .. Len(ring) - 1 : ring'[i] = ring[i + 1]
      /\ Head(ring) = ring[1] /\ submitted \in Nat /\ RingCapacity \in Nat
  BY TailIs, TailNumbers
<1>2. \A i \in 1 .. Len(ring) : ring[i].id = submitted - Len(ring) + i
  BY DEF RingIsTheTail
<1>3. ASSUME NEW i \in 1 .. Len(ring') PROVE ring'[i].id = submitted' - Len(ring') + i
  <2>1. i \in 1 .. Len(ring) - 1 /\ i + 1 \in 1 .. Len(ring)
    BY <1>1
  <2>2. ring'[i].id = submitted - Len(ring) + (i + 1)
    BY <1>1, <1>2, <2>1
  <2> QED
    BY <1>1, <2>1, <2>2
<1>4. Head(ring).id = submitted - Len(ring) + 1
  BY <1>1, <1>2
<1> QED
  BY <1>1, <1>3, <1>4 DEF RingIsTheTail

(* Nothing was submitted, refused or passed yet. *)
LEMMA TailInit == Init => TailInv
<1> SUFFICES ASSUME Init PROVE TailInv
  OBVIOUS
<1>1. RingCapacity \in Nat
  BY SessionAssumption DEF SessionAssumption
<1>2. /\ history.recorded = << >> /\ history.synthLost = 0 /\ history.counted = 0
      /\ dropped = 0 /\ submitted = 0 /\ refused = 0 /\ ring = << >> /\ lines = << >>
  BY DEF Init
<1>3. Passed = 0 /\ Owed = 0
  BY <1>2 DEF Passed, GivenUp, Owed
<1> QED
  BY <1>1, <1>2, <1>3 DEF TailInv, RingIsTheTail

(* Construction and stop: the ring is freed unread with the session's end. *)
LEMMA TailStages ==
  ASSUME IInv, TailInv,
         OpenWal \/ StartCollector \/ SetTargetCgroup \/ StopReadsStats \/ StopDetaches
  PROVE  TailInv'
<1>0. /\ Stages /\ CallbackUnderWay /\ RingIsTheTail
  BY DEF IInv, TailInv
<1>1. /\ lines = << >> /\ UNCHANGED << lines, submitted, refused >> /\ Open
      /\ ring' = ring \/ (ring' = << >> /\ ~ Open')
  BY <1>0 DEF CallbackUnderWay, OpenWal, StartCollector, SetTargetCgroup, Scoped, HostWide,
              Unscopable, StopReadsStats, StopDetaches, Open
<1>2. /\ Passed' = Passed /\ history'.recorded = history.recorded
      /\ history'.counted <= refused'
  <2>1. CASE StopReadsStats
    <3>1. PICK read \in {0, refused} :
            dropped' = dropped + read /\ history' = [history EXCEPT !.counted = read]
      BY <2>1 DEF StopReadsStats
    <3>2. history.counted = 0
      BY <1>0, <2>1 DEF Stages, StopReadsStats
    <3>3. /\ history'.recorded = history.recorded /\ history'.synthLost = history.synthLost
          /\ history'.counted = read /\ read \in Nat /\ read <= refused
      BY <3>1, TailNumbers DEF Histories
    <3>4. GivenUp' = GivenUp
      BY <3>1, <3>2, <3>3, TailNumbers DEF GivenUp
    <3> QED
      BY <1>1, <3>3, <3>4 DEF Passed
  <2>2. CASE OpenWal \/ StartCollector \/ SetTargetCgroup \/ StopDetaches
    <3>1. UNCHANGED << history, dropped >>
      BY <2>2 DEF OpenWal, StartCollector, SetTargetCgroup, StopDetaches
    <3> QED
      BY <1>1, <3>1 DEF Passed, GivenUp, TailInv
  <2> QED
    BY <2>1, <2>2
<1>3. RingIsTheTail'
  <2>1. Owed' = Owed
    BY <1>1 DEF Owed
  <2>2. CASE ring' = ring
    BY <1>0, <1>1, <1>2, <2>1, <2>2 DEF RingIsTheTail
  <2>3. CASE ring' = << >> /\ ~ Open'
    BY <2>3, TailNumbers DEF RingIsTheTail
  <2> QED
    BY <1>1, <2>2, <2>3
<1> QED
  BY <1>1, <1>2, <1>3 DEF TailInv

(* The probes: a record takes the next number and the next place, and only *)
(* where there is one.                                                     *)
LEMMA TailProbes ==
  ASSUME IInv, TailInv, (\E kind \in RecordKinds : ProbeSubmits(kind)) \/ ProbeRefused
  PROVE  TailInv'
<1>0. RingIsTheTail
  BY DEF TailInv
<1>1. CASE ProbeRefused
  <2>1. /\ UNCHANGED << session, ring, lines, submitted, dropped, history >>
        /\ refused' = refused + 1
    BY <1>1 DEF ProbeRefused
  <2>2. Passed' = Passed /\ Owed' = Owed /\ (Open' <=> Open)
    BY <2>1 DEF Passed, GivenUp, Owed, Open
  <2>3. RingIsTheTail'
    BY <1>0, <2>1, <2>2 DEF RingIsTheTail
  <2>4. history'.counted <= refused'
    BY <2>1, TailNumbers DEF TailInv
  <2> QED
    BY <2>1, <2>2, <2>3, <2>4 DEF TailInv
<1>2. ASSUME NEW kind \in RecordKinds, ProbeSubmits(kind) PROVE TailInv'
  <2> DEFINE new == [id |-> submitted + 1, kind |-> kind]
  <2>1. /\ attached /\ submitted < MaxEvents /\ submitted' = submitted + 1
        /\ Len(ring) < RingCapacity /\ ring' = Append(ring, new)
        /\ UNCHANGED << session, lines, dropped, history, refused >>
    BY <1>2 DEF ProbeSubmits
  <2>2. /\ new \in Records /\ ring \in Seq(Records) /\ new.id = submitted + 1 /\ Open
    BY <2>1, SessionAssumption
       DEF SessionAssumption, IInv, Types, ControlTypes, DataTypes, CountTypes, Records, Open
  <2> HIDE DEF new
  <2>3. /\ Len(ring') = Len(ring) + 1 /\ ring'[Len(ring) + 1] = new
        /\ \A i \in 1 .. Len(ring) : ring'[i] = ring[i]
    BY <2>1, <2>2, AppendIs
  <2>4. Passed' = Passed /\ Owed' = Owed /\ Open'
    BY <2>1, <2>2 DEF Passed, GivenUp, Owed, Open
  <2>5. ASSUME NEW i \in 1 .. Len(ring') PROVE ring'[i].id = submitted' - Len(ring') + i
    <3>1. i \in 1 .. Len(ring) \/ i = Len(ring) + 1
      BY <2>3, TailNumbers
    <3>2. CASE i \in 1 .. Len(ring)
      <4>1. ring'[i].id = submitted - Len(ring) + i
        BY <1>0, <2>2, <2>3, <3>2 DEF RingIsTheTail
      <4> QED
        BY <2>1, <2>3, <3>2, <4>1, TailNumbers
    <3>3. CASE i = Len(ring) + 1
      <4>1. ring'[i].id = submitted + 1
        BY <2>2, <2>3, <3>3
      <4> QED
        BY <2>1, <2>3, <3>3, <4>1, TailNumbers
    <3> QED
      BY <3>1, <3>2, <3>3
  <2>6. Len(ring') <= RingCapacity /\ submitted' = Passed' + Len(ring') - Owed'
    BY <1>0, <2>1, <2>2, <2>3, <2>4, TailNumbers DEF RingIsTheTail
  <2>7. RingIsTheTail'
    BY <2>5, <2>6 DEF RingIsTheTail
  <2>8. (submitted - Passed)' \in 0 .. RingCapacity
    <3>1. Owed = 1 => ring # << >>
      BY DEF IInv, CallbackUnderWay, Owed
    <3> QED
      BY <2>3, <2>4, <2>6, <3>1, TailNumbers
  <2> QED
    BY <2>1, <2>4, <2>7, <2>8 DEF TailInv
<1> QED
  BY <1>1, <1>2

(* A poll: an event is passed when it is recorded or given up, and with it *)
(* goes its record, or the record stays for its synthetic line.            *)
LEMMA TailPoll ==
  ASSUME IInv, TailInv,
         DecodeFails \/ Decodes \/ WritesLine \/ \E torn \in BOOLEAN : WriteFails(torn)
  PROVE  TailInv'
<1>0. /\ CallbackUnderWay /\ RingIsTheTail /\ Open
      /\ UNCHANGED << session, submitted, refused >> /\ ring # << >>
  BY DEF IInv, TailInv, CallbackUnderWay, DecodeFails, Decodes, WritesLine, WriteFails, Throws,
         PollLeaves, Polls, Open
<1>1. /\ Open' /\ Len(ring) > 0 /\ Len(ring) <= RingCapacity
      /\ submitted = Passed + Len(ring) - Owed
      /\ \A i \in 1 .. Len(ring) : ring[i].id = submitted - Len(ring) + i
  BY <1>0, TailNumbers DEF RingIsTheTail, Open
<1> DEFINE KeepsRing(owed) ==
             /\ ring' = ring /\ Owed = 0 /\ Owed' = owed /\ Passed' = Passed + owed
           Pops ==
             /\ ring' = Tail(ring) /\ Owed' = 0 /\ Passed' = Passed + 1 - Owed
           Records1 ==
             /\ Owed = 0 /\ Passed' = Passed + 1 /\ history'.counted = history.counted
             /\ history'.recorded = Append(history.recorded, Head(ring).id)
           RecordsNone ==
             /\ history'.counted = history.counted /\ history'.recorded = history.recorded
<1>2. /\ Pops \/ KeepsRing(0) \/ KeepsRing(1)
      /\ Records1 \/ RecordsNone
  <2>1. CASE DecodeFails
    <3>1. /\ lines = << >> /\ lines' = << >> /\ ring' = Tail(ring)
          /\ dropped' = dropped + 1 /\ history' = history
      BY <2>1 DEF DecodeFails, Polls
    <3>2. Owed = 0 /\ Owed' = 0
      BY <3>1 DEF Owed
    <3>3. GivenUp' = GivenUp + 1 - 0
      BY <3>1, GivenUpCounts, TailNumbers
    <3>4. Passed' = Passed + 1
      BY <3>1, <3>3, TailNumbers DEF Passed
    <3> QED
      BY <3>1, <3>2, <3>4, TailNumbers
  <2>2. CASE Decodes
    <3>1. /\ lines = << >> /\ lines' \in {<< "event" >>, << "event", "synthetic" >>}
          /\ UNCHANGED << ring, dropped, history >>
      BY <2>2 DEF Decodes, Polls, LinesOf
    <3>2. Owed = 0 /\ Owed' = 0
      BY <3>1 DEF Owed
    <3>3. Passed' = Passed
      BY <3>1 DEF Passed, GivenUp
    <3> QED
      BY <3>1, <3>2, <3>3, TailNumbers
  <2>3. CASE WritesLine
    <3>1. /\ lines # << >> /\ dropped' = dropped /\ lines' = Tail(lines)
          /\ history' = IF Head(lines) = "event"
                        THEN [history EXCEPT !.recorded = Append(@, Head(ring).id)] ELSE history
          /\ ring' = IF Len(lines) = 1 THEN Tail(ring) ELSE ring
      BY <2>3 DEF WritesLine
    <3>2. CASE lines = << "synthetic" >>
      <4>1. lines' = << >> /\ ring' = Tail(ring) /\ history' = history
        BY <3>1, <3>2
      <4>2. Owed = 1 /\ Owed' = 0
        BY <3>2, <4>1 DEF Owed
      <4>3. Passed' = Passed
        BY <3>1, <4>1 DEF Passed, GivenUp
      <4> QED
        BY <4>1, <4>2, <4>3, TailNumbers
    <3>3. ASSUME lines = << "event" >> \/ lines = << "event", "synthetic" >>
          PROVE  (Pops \/ KeepsRing(1)) /\ Records1
      <4>1. Head(lines) = "event" /\ Owed = 0
        BY <3>3 DEF Owed
      <4>2. /\ history'.recorded = Append(history.recorded, Head(ring).id)
            /\ history'.synthLost = history.synthLost /\ history'.counted = history.counted
        BY <3>1, <4>1, TailNumbers DEF Histories
      <4>3. Len(history'.recorded) = Len(history.recorded) + 1
        BY <4>2, TailNumbers
      <4>4. Passed' = Passed + 1
        <5>1. GivenUp' = GivenUp
          BY <3>1, <4>2 DEF GivenUp
        <5> QED
          BY <4>3, <5>1, TailNumbers DEF Passed
      <4>5. CASE lines = << "event" >>
        <5>1. lines' = << >> /\ ring' = Tail(ring)
          BY <3>1, <4>5
        <5>2. Owed' = 0
          BY <5>1 DEF Owed
        <5> QED
          BY <4>1, <4>2, <4>4, <5>1, <5>2, TailNumbers
      <4>6. CASE lines = << "event", "synthetic" >>
        <5>1. lines' = << "synthetic" >> /\ ring' = ring
          BY <3>1, <4>6
        <5>2. Owed' = 1
          BY <5>1 DEF Owed
        <5> QED
          BY <4>1, <4>2, <4>4, <5>1, <5>2, TailNumbers
      <4> QED
        BY <3>3, <4>5, <4>6
    <3> QED
      BY <1>0, <3>1, <3>2, <3>3 DEF CallbackUnderWay
  <2>4. ASSUME NEW torn \in BOOLEAN, WriteFails(torn)
        PROVE  Pops /\ RecordsNone
    <3>1. /\ lines # << >> /\ lines' = << >> /\ ring' = Tail(ring) /\ dropped' = dropped + 1
          /\ history' =
               [history EXCEPT !.tears = IF torn THEN @ + 1 ELSE @,
                               !.synthLost = IF Head(lines) = "synthetic" THEN @ + 1 ELSE @]
      BY <2>4 DEF WriteFails, Throws
    <3>2. /\ history'.recorded = history.recorded /\ history'.counted = history.counted
          /\ history'.synthLost =
               IF Head(lines) = "synthetic" THEN history.synthLost + 1 ELSE history.synthLost
      BY <3>1, TailNumbers DEF Histories
    <3>3. Owed = (IF Head(lines) = "synthetic" THEN 1 ELSE 0) /\ Owed' = 0
      BY <1>0, <3>1 DEF Owed, CallbackUnderWay
    <3>4. Passed' = Passed + 1 - Owed
      <4>1. GivenUp' = GivenUp + 1 - Owed
        BY <3>1, <3>2, <3>3, GivenUpCounts, TailNumbers
      <4> QED
        BY <3>2, <4>1, TailNumbers DEF Passed
    <3> QED
      BY <3>1, <3>2, <3>3, <3>4
  <2> QED
    BY <2>1, <2>2, <2>3, <2>4
<1>3. /\ RingIsTheTail'
      /\ Len(ring') \in Nat /\ Len(ring') - Owed' >= 0
      /\ Passed <= Passed' /\ Passed' \in Int
  <2>1. CASE Pops
    <3>1. /\ Len(ring') = Len(ring) - 1 /\ Len(ring') <= RingCapacity
          /\ \A i \in 1 .. Len(ring') : ring'[i].id = submitted' - Len(ring') + i
      BY <1>0, <2>1, RingPasses
    <3>2. submitted' = Passed' + Len(ring') - Owed'
      BY <1>0, <1>1, <2>1, <3>1, TailNumbers
    <3>3. RingIsTheTail'
      BY <3>1, <3>2 DEF RingIsTheTail
    <3>4. Len(ring') \in Nat /\ Len(ring') - Owed' >= 0
      BY <1>1, <2>1, <3>1, TailNumbers
    <3>5. Passed <= Passed' /\ Passed' \in Int
      BY <2>1, TailNumbers
    <3> QED
      BY <3>3, <3>4, <3>5
  <2>2. ASSUME NEW owed \in {0, 1}, KeepsRing(owed)
        PROVE  /\ RingIsTheTail'
               /\ Len(ring') \in Nat /\ Len(ring') - Owed' >= 0
               /\ Passed <= Passed' /\ Passed' \in Int
    <3>1. submitted' = Passed' + Len(ring') - Owed'
      BY <1>0, <1>1, <2>2, TailNumbers
    <3>2. Len(ring') <= RingCapacity
      BY <1>1, <2>2
    <3>3. \A i \in 1 .. Len(ring') : ring'[i].id = submitted' - Len(ring') + i
      BY <1>0, <1>1, <2>2
    <3>4. RingIsTheTail'
      BY <3>1, <3>2, <3>3 DEF RingIsTheTail
    <3> QED
      BY <1>1, <2>2, <3>4, TailNumbers
  <2> QED
    BY <1>2, <2>1, <2>2
<1>4. (submitted - Passed)' \in 0 .. RingCapacity
  <2>1. submitted' = Passed' + Len(ring') - Owed' /\ Len(ring') <= RingCapacity
    BY <1>1, <1>3 DEF RingIsTheTail
  <2>2. Owed' \in {0, 1} /\ submitted' \in Nat
    BY <1>0, TailNumbers DEF Owed
  <2>3. RingCapacity \in Nat /\ (submitted - Passed)' = submitted' - Passed'
    BY TailNumbers
  <2> QED
    BY <1>3, <2>1, <2>2, <2>3
<1>5. /\ \A i \in 1 .. Len(history'.recorded) : history'.recorded[i] <= Passed'
      /\ history'.counted <= refused'
  <2>1. ASSUME NEW i \in 1 .. Len(history.recorded) PROVE history.recorded[i] <= Passed'
    <3>1. history.recorded[i] <= Passed
      BY <1>0 DEF TailInv
    <3>2. history.recorded[i] \in Int
      BY TailNumbers
    <3>3. Passed \in Int
      BY TailNumbers
    <3>4. Passed <= Passed' /\ Passed' \in Int
      BY <1>3
    <3> HIDE DEF Passed
    <3> QED
      BY <3>1, <3>2, <3>3, <3>4
  <2>2. CASE Records1
    <3>0. Head(ring) = ring[1] /\ Head(ring) \in Records
      BY <1>0, TailIs, TailNumbers
    <3>1. Head(ring).id = Passed'
      <4>1. ring[1].id = submitted - Len(ring) + 1
        BY <1>1, TailNumbers
      <4>2. submitted - Len(ring) + 1 = Passed + 1
        BY <1>1, <2>2, TailNumbers
      <4> QED
        BY <2>2, <3>0, <4>1, <4>2
    <3>2. Head(ring).id \in 1 .. MaxEvents
      BY <3>0 DEF Records
    <3>3. /\ Len(history'.recorded) = Len(history.recorded) + 1
          /\ \A i \in 1 .. Len(history.recorded) :
               history'.recorded[i] = history.recorded[i]
          /\ history'.recorded[Len(history.recorded) + 1] = Passed'
      BY <2>2, <3>1, <3>2, AppendIs, TailNumbers
    <3>4. ASSUME NEW i \in 1 .. Len(history'.recorded) PROVE history'.recorded[i] <= Passed'
      <4>1. i \in 1 .. Len(history.recorded) \/ i = Len(history.recorded) + 1
        BY <3>3, TailNumbers
      <4> QED
        BY <1>3, <2>1, <3>3, <4>1
    <3> QED
      BY <1>0, <2>2, <3>4 DEF TailInv
  <2>3. CASE RecordsNone
    BY <1>0, <2>1, <2>3 DEF TailInv
  <2> QED
    BY <1>2, <2>2, <2>3
<1> QED
  BY <1>3, <1>4, <1>5 DEF TailInv

(* What a session loses is the end of what was submitted, no more than its *)
(* ring holds: the records stop finds waiting (session.cpp stop).          *)
THEOREM OnlyTheTailIsLost == Spec => []StopLosesOnlyTheTail
<1>1. IInv /\ TailInv /\ [Next]_vars => TailInv'
  <2> SUFFICES ASSUME IInv, TailInv, [Next]_vars PROVE TailInv'
    OBVIOUS
  <2>1. CASE UNCHANGED vars
    BY <2>1 DEF vars, TailInv, RingIsTheTail, Passed, GivenUp, Owed, Open
  <2>2. CASE Next
    BY <2>2, TailStages, TailProbes, TailPoll DEF Next
  <2> QED
    BY <2>1, <2>2
<1>2. IInv /\ TailInv => StopLosesOnlyTheTail
  <2> SUFFICES ASSUME IInv, TailInv PROVE StopLosesOnlyTheTail
    OBVIOUS
  <2>1. DOMAIN history.recorded = 1 .. Len(history.recorded)
    BY TailNumbers
  <2> QED
    BY <2>1 DEF TailInv, StopLosesOnlyTheTail, Passed, GivenUp
<1> QED
  BY TailInit, <1>1, <1>2, Invariant, PTL DEF Spec
=============================================================================
