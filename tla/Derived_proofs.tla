------------------------------ MODULE Derived_proofs ------------------------------
(***************************************************************************)
(* What is derived from the events.  Of processes whose ids are used       *)
(* again: the process tree (ProcessTree), for any ids and any number of    *)
(* steps, and what the enricher reads in /proc (Enricher), for any number  *)
(* of processes that have an id one after the other and any length of time *)
(* between an event and its enrichment.  Of payloads that were cut: the    *)
(* DNS events (ProtocolDecoder), for any labels, names of any number of    *)
(* them, and any number of answers, and the HTTP events, for any tokens.   *)
(***************************************************************************)
EXTENDS ProcessTree, Enricher, ProtocolDecoder, FiniteSetTheorems, SequenceTheorems,
        WellFoundedInduction, TLAPS

Events ==
  [kind : {"fork", "exec", "clone", "exit"}, tgid : Ids, ppid : Ids \union {Outside},
   child : Ids \union {0}]
Types ==
  /\ task \in [Ids -> Ids \union {0}]
  /\ parent \in [Ids -> Ids \union {Outside}]
  /\ log \in Seq(Events)
  /\ forks \subseteq Ids \X Ids /\ \A f \in forks : f[1] # f[2]
  /\ lostForks \subseteq forks /\ adopted \subseteq Ids \X Ids
  /\ used \in [Ids -> Nat]

(* Ids that have been a process's: a thread's may have been no process's.  *)
Process(t) == t = Root \/ \E f \in forks : f[2] = t

(* What the kernel's tables say of processes.                              *)
Tables ==
  \A p \in Ids :
    /\ Running(p) => Process(p)
    /\ Process(p) => used[p] > 0
    /\ Process(p) /\ used[p] = 1 =>
         parent[p] = Outside \/ << parent[p], p >> \in forks \union adopted

(* What has been read of the log, before the edges are resolved.           *)
Read(events) == FoldLeft(LAMBDA read, e : ReadEvent(e, read), NoRecords, events)
RecordsAreTrue(records) ==
  \A t \in DOMAIN records :
    /\ t \in Ids /\ Process(t)
    /\ records[t] \in [ppid : Ids \union {Outside}, ended : BOOLEAN]
    /\ used[t] = 1 => records[t].ppid = Outside \/ << records[t].ppid, t >> \in forks \union adopted

(* A candidate edge was a fork, leads to a thread, its id was used again   *)
(* or is a number of a pid namespace.                                      *)
EdgesAreTrue(read) ==
  /\ \A e \in read.edges :
       /\ e \in Ids \X Ids /\ e[1] \in DOMAIN read.records
       /\ used[e[2]] > 0 \/ e \in misnamed
       /\ e \in forks \union misnamed \/ used[e[2]] > 1 \/ ~ Process(e[2])
  /\ forks \ lostForks \subseteq read.edges

IInv == Types /\ Tables /\ RecordsAreTrue(Read(log).records) /\ EdgesAreTrue(Read(log))

-----------------------------------------------------------------------------
(* Induction over the naturals, from their well-foundedness. *)
LEMMA Induction ==
  ASSUME NEW S, 0 \in S, \A n \in Nat : n \in S => n + 1 \in S
  PROVE  \A n \in Nat : n \in S
<1> SUFFICES ASSUME Nat \ S # {} PROVE FALSE
  OBVIOUS
<1> DEFINE R == OpToRel(<, Nat)
           T == Nat \ S
<1>1. IsWellFoundedOn(R, Nat) /\ T \subseteq Nat /\ T # {}
  BY NatLessThanWellFounded
<1> HIDE DEF R, T
<1>2. PICK n \in T : \A m \in T : ~ (<< m, n >> \in R)
  BY <1>1, WFMin
<1>3. n # 0 /\ n \in Nat /\ n - 1 \in Nat /\ n \notin S
  BY <1>2 DEF T
<1>4. << n - 1, n >> \in R
  BY <1>3 DEF R, OpToRel
<1>5. n - 1 \in S
  BY <1>2, <1>3, <1>4 DEF T
<1> QED
  BY <1>3, <1>5

(* A function applied any number of times. *)
Iterates(f, x0, s, N) == \A n \in 0 .. N : f[n] = IF n = 0 THEN x0 ELSE s[f[n - 1]]

LEMMA Iterated ==
  ASSUME NEW X, NEW x0 \in X, NEW s \in [X -> X], NEW N \in Nat
  PROVE  \E f \in [0 .. N -> X] : Iterates(f, x0, s, N)
<1> DEFINE Is(f, n) == Iterates(f, x0, s, n)
           Done == { n \in Nat : \E f \in [0 .. n -> X] : Is(f, n) }
<1> USE DEF Iterates
<1>1. 0 \in Done
  <2>1. [i \in 0 .. 0 |-> x0] \in [0 .. 0 -> X] /\ Is([i \in 0 .. 0 |-> x0], 0)
    OBVIOUS
  <2> QED
    BY <2>1
<1>2. ASSUME NEW n \in Nat, n \in Done PROVE n + 1 \in Done
  <2>1. PICK f \in [0 .. n -> X] : Is(f, n)
    BY <1>2
  <2> DEFINE g == [i \in 0 .. n + 1 |-> IF i = n + 1 THEN s[f[n]] ELSE f[i]]
  <2>2. g \in [0 .. n + 1 -> X]
    OBVIOUS
  <2>3. Is(g, n + 1)
    <3>1. ASSUME NEW i \in 0 .. n PROVE g[i] = IF i = 0 THEN x0 ELSE s[g[i - 1]]
      BY <2>1
    <3>2. g[n + 1] = s[g[n + 1 - 1]] /\ n + 1 # 0
      OBVIOUS
    <3>3. \A i \in 0 .. n + 1 : i \in 0 .. n \/ i = n + 1
      OBVIOUS
    <3> HIDE DEF g
    <3> QED
      BY <3>1, <3>2, <3>3
  <2> HIDE DEF g, Is
  <2> QED
    BY <2>2, <2>3
<1>3. N \in Done
  <2> HIDE DEF Done
  <2> QED
    BY <1>1, <1>2, Induction
<1> QED
  BY <1>3

-----------------------------------------------------------------------------
(* The fold that reads the log is a function on the sets of its indices,   *)
(* each of which reads the event with the highest index last.              *)
Reads(F, events) ==
  F = [s \in SUBSET DOMAIN events |->
         IF s = {} THEN NoRecords ELSE ReadEvent(events[Max(s)], F[s \ {Max(s)}])]

LEMMA ReadIsFold ==
  ASSUME NEW events PROVE Read(events) = (CHOOSE F : Reads(F, events))[DOMAIN events]
  BY DEF Read, FoldLeft, MapThenFoldSet, Reads

(* The highest of a set that has n, and nothing above. *)
LEMMA HighestIs ==
  ASSUME NEW n \in Nat, NEW s \in SUBSET (1 .. n), n \in s PROVE Max(s) = n
<1>1. \A x \in s : n >= x
  OBVIOUS
<1>2. \A x \in s : (\A y \in s : x >= y) => x = n
  BY <1>1
<1> QED
  BY <1>1, <1>2 DEF Max

LEMMA WithoutHighest ==
  ASSUME NEW n \in Nat, NEW s \in SUBSET (1 .. n + 1)
  PROVE  s \subseteq 1 .. n \/ s \ {Max(s)} \subseteq 1 .. n
<1>1. CASE n + 1 \in s
  <2>1. Max(s) = n + 1
    BY <1>1, HighestIs
  <2>2. \A x \in s : x # n + 1 => x \in 1 .. n
    OBVIOUS
  <2> QED
    BY <2>1, <2>2
<1>2. CASE n + 1 \notin s
  <2>1. \A x \in s : x # n + 1 /\ x \in 1 .. n + 1
    BY <1>2
  <2>2. \A x \in 1 .. n + 1 : x # n + 1 => x \in 1 .. n
    OBVIOUS
  <2> QED
    BY <2>1, <2>2
<1> QED
  BY <1>1, <1>2

(* There is such a function for every log. *)
LEMMA ReadsExist ==
  ASSUME NEW events \in Seq(Events) PROVE \E F : Reads(F, events)
<1> DEFINE Reading(F, s) == IF s = {} THEN NoRecords
                          ELSE ReadEvent(events[Max(s)], F[s \ {Max(s)}])
           Upto(F, n) == \A s \in SUBSET (1 .. n) : F[s] = Reading(F, s)
           Done == { n \in Nat : \E F : Upto(F, n) }
<1>1. 0 \in Done
  <2> DEFINE F == [s \in {{}} |-> NoRecords]
  <2>1. Upto(F, 0)
    OBVIOUS
  <2> QED
    BY <2>1
<1>2. ASSUME NEW n \in Nat, n \in Done PROVE n + 1 \in Done
  <2>1. PICK F : Upto(F, n)
    BY <1>2
  <2> DEFINE G == [s \in SUBSET (1 .. n + 1) |->
                     IF s \subseteq 1 .. n THEN F[s] ELSE Reading(F, s)]
  <2>2. ASSUME NEW s \in SUBSET (1 .. n + 1) PROVE G[s] = Reading(G, s)
    <3>1. G[s] = Reading(F, s)
      BY <2>1
    <3>2. s \ {Max(s)} \in SUBSET (1 .. n)
      BY WithoutHighest
    <3>3. G[s \ {Max(s)}] = F[s \ {Max(s)}]
      BY <3>2
    <3> QED
      BY <3>1, <3>3
  <2>3. Upto(G, n + 1)
    BY <2>2
  <2> HIDE DEF G, Upto
  <2> QED
    BY <2>3
<1>3. Len(events) \in Done
  <2> HIDE DEF Done
  <2> QED
    BY <1>1, <1>2, Induction
<1>4. PICK F : Upto(F, Len(events))
  BY <1>3
<1> DEFINE G == [s \in SUBSET DOMAIN events |-> F[s]]
<1>5. ASSUME NEW s \in SUBSET DOMAIN events PROVE G[s] = Reading(G, s)
  <2>1. DOMAIN events = 1 .. Len(events)
    OBVIOUS
  <2>2. s \ {Max(s)} \in SUBSET DOMAIN events
    OBVIOUS
  <2>3. G[s \ {Max(s)}] = F[s \ {Max(s)}] /\ G[s] = F[s]
    BY <2>2
  <2>4. F[s] = Reading(F, s)
    BY <1>4, <2>1
  <2> HIDE DEF G
  <2> QED
    BY <2>3, <2>4
<1>6. G = [s \in SUBSET DOMAIN events |-> Reading(G, s)]
  BY <1>5
<1>7. Reads(G, events)
  <2> HIDE DEF G
  <2> QED
    BY <1>6 DEF Reads
<1> QED
  BY <1>7

(* What it makes of the first n events. *)
LEMMA ReadsAre ==
  ASSUME NEW events \in Seq(Events), NEW F, Reads(F, events)
  PROVE  /\ F[{}] = NoRecords
         /\ \A n \in 0 .. Len(events) - 1 :
              F[1 .. n + 1] = ReadEvent(events[n + 1], F[1 .. n])
<1>1. \A s \in SUBSET (1 .. Len(events)) :
        F[s] = IF s = {} THEN NoRecords ELSE ReadEvent(events[Max(s)], F[s \ {Max(s)}])
  <2>1. DOMAIN events = 1 .. Len(events)
    OBVIOUS
  <2> QED
    BY <2>1 DEF Reads
<1>2. ASSUME NEW n \in 0 .. Len(events) - 1
      PROVE  F[1 .. n + 1] = ReadEvent(events[n + 1], F[1 .. n])
  <2>1. 1 .. n + 1 \in SUBSET (1 .. Len(events)) /\ 1 .. n + 1 # {} /\ n + 1 \in 1 .. n + 1
    <3>1. n \in Nat /\ n + 1 <= Len(events) /\ Len(events) \in Nat
      OBVIOUS
    <3>2. \A x \in 1 .. n + 1 : x \in 1 .. Len(events)
      BY <3>1
    <3>3. n + 1 \in 1 .. n + 1
      BY <3>1
    <3> QED
      BY <3>2, <3>3
  <2>2. Max(1 .. n + 1) = n + 1
    BY <2>1, HighestIs
  <2>3. (1 .. n + 1) \ {n + 1} = 1 .. n
    OBVIOUS
  <2> QED
    BY <1>1, <2>1, <2>2, <2>3
<1> QED
  BY <1>1, <1>2

(* It is a record. *)
LEMMA ReadIsRecord ==
  ASSUME NEW events \in Seq(Events)
  PROVE  Read(events) = [records |-> Read(events).records, edges |-> Read(events).edges]
<1> DEFINE F == CHOOSE H : Reads(H, events)
           s == DOMAIN events
<1>1. Reads(F, events)
  BY ReadsExist
<1> HIDE DEF F
<1>2. F[s] = IF s = {} THEN NoRecords ELSE ReadEvent(events[Max(s)], F[s \ {Max(s)}])
  BY <1>1 DEF Reads
<1>3. Read(events) = F[s]
  BY ReadIsFold DEF F
<1>4. \E r, d : F[s] = [records |-> r, edges |-> d]
  <2>1. CASE s = {}
    BY <1>2, <2>1 DEF NoRecords
  <2>2. CASE s # {}
    <3>1. PICK e, read : F[s] = ReadEvent(e, read)
      BY <1>2, <2>2
    <3> QED
      BY <3>1 DEF ReadEvent
  <2> QED
    BY <2>1, <2>2
<1> HIDE DEF s
<1> QED
  BY <1>3, <1>4

(* So reading goes event by event: nothing at first, ... *)
LEMMA ReadNone == Read(<< >>) = NoRecords
<1>1. << >> \in Seq(Events) /\ DOMAIN << >> = {}
  OBVIOUS
<1>2. Reads(CHOOSE F : Reads(F, << >>), << >>)
  BY <1>1, ReadsExist
<1> QED
  BY <1>1, <1>2, ReadsAre, ReadIsFold

(* ... and one event more. *)
LEMMA ReadMore ==
  ASSUME NEW events \in Seq(Events), NEW e \in Events
  PROVE  Read(Append(events, e)) = ReadEvent(e, Read(events))
<1> DEFINE more == Append(events, e)
           F == CHOOSE H : Reads(H, events)
           G == CHOOSE H : Reads(H, more)
           Done == { n \in Nat : n <= Len(events) => F[1 .. n] = G[1 .. n] }
<1>1. /\ more \in Seq(Events) /\ Len(more) = Len(events) + 1 /\ more[Len(events) + 1] = e
      /\ \A i \in 1 .. Len(events) : more[i] = events[i]
      /\ DOMAIN events = 1 .. Len(events) /\ DOMAIN more = 1 .. Len(events) + 1
      /\ Len(events) \in Nat
  OBVIOUS
<1> HIDE DEF more
<1>2. Reads(F, events) /\ Reads(G, more)
  BY <1>1, ReadsExist
<1> HIDE DEF F, G
<1>3. /\ F[{}] = NoRecords /\ G[{}] = NoRecords
      /\ \A n \in 0 .. Len(events) - 1 : F[1 .. n + 1] = ReadEvent(events[n + 1], F[1 .. n])
      /\ \A n \in 0 .. Len(events) : G[1 .. n + 1] = ReadEvent(more[n + 1], G[1 .. n])
  <2>1. /\ F[{}] = NoRecords
        /\ \A n \in 0 .. Len(events) - 1 :
             F[1 .. n + 1] = ReadEvent(events[n + 1], F[1 .. n])
    BY <1>2, ReadsAre
  <2>2. /\ G[{}] = NoRecords
        /\ \A n \in 0 .. Len(more) - 1 : G[1 .. n + 1] = ReadEvent(more[n + 1], G[1 .. n])
    BY <1>1, <1>2, ReadsAre
  <2>3. Len(more) - 1 = Len(events)
    BY <1>1
  <2> QED
    BY <2>1, <2>2, <2>3
<1>4. 0 \in Done
  <2>1. 1 .. 0 = {}
    OBVIOUS
  <2> QED
    BY <1>3, <2>1
<1>5. ASSUME NEW n \in Nat, n \in Done PROVE n + 1 \in Done
  <2> SUFFICES ASSUME n + 1 <= Len(events) PROVE F[1 .. n + 1] = G[1 .. n + 1]
    OBVIOUS
  <2>1. n \in 0 .. Len(events) - 1 /\ n \in 0 .. Len(events) /\ n + 1 \in 1 .. Len(events)
    BY <1>1
  <2>2. F[1 .. n] = G[1 .. n]
    BY <1>5, <2>1
  <2> QED
    BY <1>1, <1>3, <2>1, <2>2
<1>6. Len(events) \in Done
  <2> HIDE DEF Done
  <2> QED
    BY <1>1, <1>4, <1>5, Induction
<1>7. G[1 .. Len(events) + 1] = ReadEvent(e, F[1 .. Len(events)])
  BY <1>1, <1>3, <1>6
<1>8. Read(events) = F[1 .. Len(events)] /\ Read(more) = G[1 .. Len(events) + 1]
  BY <1>1, ReadIsFold DEF F, G
<1> QED
  BY <1>7, <1>8 DEF more

(* What reading one event changes. *)
LEMMA ReadEventIs ==
  ASSUME NEW e \in Events, NEW read,
         \A t \in DOMAIN read.records :
           read.records[t] \in [ppid : Ids \union {Outside}, ended : BOOLEAN]
  PROVE  LET new == ReadEvent(e, read) IN
         /\ DOMAIN new.records = DOMAIN read.records \union {e.tgid}
         /\ \A t \in DOMAIN new.records :
              new.records[t] \in [ppid : Ids \union {Outside}, ended : BOOLEAN]
         /\ \A t \in DOMAIN read.records : new.records[t].ppid = read.records[t].ppid
         /\ e.tgid \notin DOMAIN read.records => new.records[e.tgid].ppid = e.ppid
         /\ new.edges = IF e.child \notin {0, e.tgid}
                        THEN read.edges \union {<< e.tgid, e.child >>} ELSE read.edges
<1> DEFINE new == ReadEvent(e, read)
           touched == TouchRecord(read.records, e)
<1>1. /\ DOMAIN touched = DOMAIN read.records \union {e.tgid}
      /\ \A t \in DOMAIN read.records : touched[t] = read.records[t]
      /\ e.tgid \notin DOMAIN read.records =>
           touched[e.tgid] = [ppid |-> e.ppid, ended |-> FALSE]
  BY DEF TouchRecord
<1> HIDE DEF touched
<1>2. e.tgid \in Ids /\ e.ppid \in Ids \union {Outside}
  BY DEF Events
<1>3. \A t \in DOMAIN touched : touched[t] \in [ppid : Ids \union {Outside}, ended : BOOLEAN]
  <2>1. ASSUME NEW t \in DOMAIN read.records
        PROVE  touched[t] \in [ppid : Ids \union {Outside}, ended : BOOLEAN]
    BY <1>1
  <2>2. ASSUME e.tgid \notin DOMAIN read.records
        PROVE  touched[e.tgid] \in [ppid : Ids \union {Outside}, ended : BOOLEAN]
    <3>1. touched[e.tgid] = [ppid |-> e.ppid, ended |-> FALSE]
      BY <1>1, <2>2
    <3>2. \A q \in Ids \union {Outside} :
            [ppid |-> q, ended |-> FALSE] \in [ppid : Ids \union {Outside}, ended : BOOLEAN]
      OBVIOUS
    <3> QED
      BY <1>2, <3>1, <3>2
  <2> QED
    BY <1>1, <2>1, <2>2
<1>4. /\ new.records = IF e.kind = "exit" THEN [touched EXCEPT ![e.tgid].ended = TRUE]
                       ELSE touched
      /\ new.edges = IF e.child \notin {0, e.tgid}
                     THEN read.edges \union {<< e.tgid, e.child >>} ELSE read.edges
  BY DEF ReadEvent, touched
<1> HIDE DEF new
<1>5. /\ DOMAIN new.records = DOMAIN touched
      /\ \A t \in DOMAIN touched :
           /\ new.records[t] \in [ppid : Ids \union {Outside}, ended : BOOLEAN]
           /\ new.records[t].ppid = touched[t].ppid
  <2>1. CASE e.kind = "exit"
    <3> DEFINE r == [touched EXCEPT ![e.tgid].ended = TRUE]
    <3>1. /\ DOMAIN r = DOMAIN touched
          /\ \A t \in DOMAIN touched : r[t] =
               IF t = e.tgid THEN [touched[t] EXCEPT !.ended = TRUE] ELSE touched[t]
      OBVIOUS
    <3>2. new.records = r
      BY <1>4, <2>1
    <3> HIDE DEF r
    <3>3. ASSUME NEW c \in [ppid : Ids \union {Outside}, ended : BOOLEAN]
          PROVE  /\ [c EXCEPT !.ended = TRUE] \in [ppid : Ids \union {Outside}, ended : BOOLEAN]
                 /\ [c EXCEPT !.ended = TRUE].ppid = c.ppid
      OBVIOUS
    <3> QED
      BY <1>3, <3>1, <3>2, <3>3
  <2>2. CASE e.kind # "exit"
    BY <1>3, <1>4, <2>2
  <2> QED
    BY <2>1, <2>2
<1>6. \A t \in DOMAIN read.records : new.records[t].ppid = read.records[t].ppid
  BY <1>1, <1>5
<1>7. e.tgid \notin DOMAIN read.records => new.records[e.tgid].ppid = e.ppid
  BY <1>1, <1>5
<1> QED
  BY <1>1, <1>4, <1>5, <1>6, <1>7 DEF new

-----------------------------------------------------------------------------
LEMMA InitInv == Init => IInv
<1> SUFFICES ASSUME Init PROVE IInv
  OBVIOUS
<1>1. Types
  BY TreeAssumption DEF Init, Types
<1>2. Tables
  BY TreeAssumption DEF Init, Tables, Running, Process
<1>3. Read(log) = NoRecords
  BY ReadNone DEF Init
<1>4. DOMAIN NoRecords.records = {} /\ NoRecords.edges = {}
  BY DEF NoRecords
<1>5. RecordsAreTrue(Read(log).records) /\ EdgesAreTrue(Read(log))
  BY <1>3, <1>4 DEF Init, RecordsAreTrue, EdgesAreTrue
<1> QED
  BY <1>1, <1>2, <1>5 DEF IInv

(* In every step ids are only used more often, forks only added, and what  *)
(* becomes a process has been used once more.                              *)
Later ==
  /\ used' \in [Ids -> Nat] /\ \A t \in Ids : used'[t] >= used[t]
  /\ forks \subseteq forks' /\ adopted \subseteq adopted' /\ misnamed \subseteq misnamed'
  /\ \A t \in Ids : Process(t)' /\ ~ Process(t) => used'[t] > used[t]

(* An event of a process that runs, about a child that is one, is a thread *)
(* or is named by a number of a pid namespace.                             *)
Justified(e) ==
  /\ e \in Events /\ Running(e.tgid) /\ e.ppid = parent[e.tgid]
  /\ e.child # 0 => /\ used'[e.child] > 0 \/ << e.tgid, e.child >> \in misnamed'
                    /\ \/ << e.tgid, e.child >> \in forks' \union misnamed'
                       \/ used'[e.child] > 1
                       \/ ~ Process(e.child)'

(* What has been read stays true as time goes by, ... *)
LEMMA StaysTrue ==
  ASSUME IInv, Later
  PROVE  /\ \A t \in DOMAIN Read(log).records :
              /\ t \in Ids /\ Process(t)'
              /\ used'[t] = 1 => \/ Read(log).records[t].ppid = Outside
                                 \/ << Read(log).records[t].ppid, t >> \in forks' \union adopted'
         /\ \A e \in Read(log).edges :
              /\ used'[e[2]] > 0 \/ e \in misnamed'
              /\ e \in forks' \union misnamed' \/ used'[e[2]] > 1 \/ ~ Process(e[2])'
<1> DEFINE read == Read(log)
<1>1. ASSUME NEW t \in Ids, Process(t) PROVE Process(t)' /\ used[t] > 0 /\ used'[t] > 0
  <2>1. used[t] > 0
    BY <1>1 DEF IInv, Tables
  <2>2. used[t] \in Nat /\ used'[t] \in Nat /\ used'[t] >= used[t]
    BY DEF IInv, Types, Later
  <2>3. Process(t)'
    BY <1>1 DEF Later, Process
  <2> QED
    BY <2>1, <2>2, <2>3
<1>2. ASSUME NEW t \in DOMAIN read.records
      PROVE  /\ t \in Ids /\ Process(t)'
             /\ used'[t] = 1 => \/ read.records[t].ppid = Outside
                                \/ << read.records[t].ppid, t >> \in forks' \union adopted'
  <2>1. /\ t \in Ids /\ Process(t)
        /\ used[t] = 1 => \/ read.records[t].ppid = Outside
                          \/ << read.records[t].ppid, t >> \in forks \union adopted
    BY DEF IInv, RecordsAreTrue
  <2>2. used[t] \in Nat /\ used'[t] \in Nat /\ used'[t] >= used[t]
        /\ forks \subseteq forks' /\ adopted \subseteq adopted'
    BY <2>1 DEF IInv, Types, Later
  <2> HIDE DEF read
  <2> QED
    BY <1>1, <2>1, <2>2
<1>3. ASSUME NEW e \in read.edges
      PROVE  /\ used'[e[2]] > 0 \/ e \in misnamed'
             /\ e \in forks' \union misnamed' \/ used'[e[2]] > 1 \/ ~ Process(e[2])'
  <2>1. /\ e[2] \in Ids
        /\ used[e[2]] > 0 \/ e \in misnamed
        /\ e \in forks \union misnamed \/ used[e[2]] > 1 \/ ~ Process(e[2])
    BY DEF IInv, EdgesAreTrue
  <2>2. /\ used[e[2]] \in Nat /\ used'[e[2]] \in Nat /\ used'[e[2]] >= used[e[2]]
        /\ forks \subseteq forks' /\ misnamed \subseteq misnamed'
        /\ Process(e[2])' /\ ~ Process(e[2]) => used'[e[2]] > used[e[2]]
    BY <2>1 DEF IInv, Types, Later
  <2> QED
    BY <2>1, <2>2
<1> QED
  BY <1>2, <1>3

(* ... when no event comes, ... *)
LEMMA NothingRead ==
  ASSUME IInv, Later, log' = log, forks' \ lostForks' \subseteq forks \ lostForks
  PROVE  RecordsAreTrue(Read(log).records)' /\ EdgesAreTrue(Read(log))'
<1> DEFINE read == Read(log)
<1>1. Read(log)' = read
  OBVIOUS
<1>2. /\ \A t \in DOMAIN read.records :
           read.records[t] \in [ppid : Ids \union {Outside}, ended : BOOLEAN]
      /\ \A e \in read.edges : e \in Ids \X Ids /\ e[1] \in DOMAIN read.records
      /\ forks \ lostForks \subseteq read.edges
  BY DEF IInv, RecordsAreTrue, EdgesAreTrue
<1>3. /\ \A t \in DOMAIN read.records :
           /\ t \in Ids /\ Process(t)'
           /\ used'[t] = 1 => \/ read.records[t].ppid = Outside
                              \/ << read.records[t].ppid, t >> \in forks' \union adopted'
      /\ \A e \in read.edges :
           /\ used'[e[2]] > 0 \/ e \in misnamed'
           /\ e \in forks' \union misnamed' \/ used'[e[2]] > 1 \/ ~ Process(e[2])'
  BY StaysTrue
<1> HIDE DEF read
<1>4. RecordsAreTrue(Read(log).records)'
  BY <1>1, <1>2, <1>3 DEF RecordsAreTrue
<1>5. EdgesAreTrue(Read(log))'
  BY <1>1, <1>2, <1>3 DEF EdgesAreTrue
<1> QED
  BY <1>4, <1>5

(* ... and when one does. *)
LEMMA OneMoreRead ==
  ASSUME IInv, Later, NEW e, Justified(e), Records(e),
         \A f \in forks' \ lostForks' :
           f \in forks \ lostForks \/ (f = << e.tgid, e.child >> /\ e.child \notin {0, e.tgid})
  PROVE  RecordsAreTrue(Read(log).records)' /\ EdgesAreTrue(Read(log))'
<1> DEFINE read == Read(log)
           new == ReadEvent(e, read)
<1>1. /\ \A t \in DOMAIN read.records :
           read.records[t] \in [ppid : Ids \union {Outside}, ended : BOOLEAN]
      /\ \A d \in read.edges : d \in Ids \X Ids /\ d[1] \in DOMAIN read.records
      /\ forks \ lostForks \subseteq read.edges
  BY DEF IInv, RecordsAreTrue, EdgesAreTrue
<1>2. /\ \A t \in DOMAIN read.records :
           /\ t \in Ids /\ Process(t)'
           /\ used'[t] = 1 => \/ read.records[t].ppid = Outside
                              \/ << read.records[t].ppid, t >> \in forks' \union adopted'
      /\ \A d \in read.edges :
           /\ used'[d[2]] > 0 \/ d \in misnamed'
           /\ d \in forks' \union misnamed' \/ used'[d[2]] > 1 \/ ~ Process(d[2])'
  BY StaysTrue
<1>3. e \in Events /\ e.tgid \in Ids /\ e.child \in Ids \union {0}
  BY DEF Justified, Events
<1>4. Read(log)' = new
  <2>1. Read(log)' = Read(Append(log, e)) /\ log \in Seq(Events)
    BY DEF Records, IInv, Types
  <2> QED
    BY <1>3, <2>1, ReadMore
<1> HIDE DEF read, new
<1>5. /\ DOMAIN new.records = DOMAIN read.records \union {e.tgid}
      /\ \A t \in DOMAIN new.records :
           new.records[t] \in [ppid : Ids \union {Outside}, ended : BOOLEAN]
      /\ \A t \in DOMAIN read.records : new.records[t].ppid = read.records[t].ppid
      /\ e.tgid \notin DOMAIN read.records => new.records[e.tgid].ppid = e.ppid
      /\ new.edges = IF e.child \notin {0, e.tgid}
                     THEN read.edges \union {<< e.tgid, e.child >>} ELSE read.edges
  BY <1>1, <1>3, ReadEventIs DEF new
<1>6. /\ Process(e.tgid)'
      /\ used'[e.tgid] = 1 => e.ppid = Outside \/ << e.ppid, e.tgid >> \in forks' \union adopted'
  <2>1. /\ Process(e.tgid) /\ used[e.tgid] > 0
        /\ used[e.tgid] = 1 => \/ parent[e.tgid] = Outside
                               \/ << parent[e.tgid], e.tgid >> \in forks \union adopted
    BY <1>3 DEF IInv, Tables, Justified
  <2>2. /\ used[e.tgid] \in Nat /\ used'[e.tgid] \in Nat /\ used'[e.tgid] >= used[e.tgid]
        /\ forks \subseteq forks' /\ adopted \subseteq adopted' /\ e.ppid = parent[e.tgid]
    BY <1>3 DEF IInv, Types, Later, Justified
  <2> QED
    BY <2>1, <2>2 DEF Process
<1>7. ASSUME NEW t \in DOMAIN new.records
      PROVE  /\ t \in Ids /\ Process(t)'
             /\ used'[t] = 1 => \/ new.records[t].ppid = Outside
                                \/ << new.records[t].ppid, t >> \in forks' \union adopted'
  BY <1>2, <1>3, <1>5, <1>6
<1>8. RecordsAreTrue(Read(log).records)'
  BY <1>4, <1>5, <1>7 DEF RecordsAreTrue
<1>9. ASSUME NEW d \in new.edges
      PROVE  /\ d \in Ids \X Ids /\ d[1] \in DOMAIN new.records
             /\ used'[d[2]] > 0 \/ d \in misnamed'
             /\ d \in forks' \union misnamed' \/ used'[d[2]] > 1 \/ ~ Process(d[2])'
  <2>1. CASE d \in read.edges
    BY <1>1, <1>2, <1>5, <2>1
  <2>2. CASE d = << e.tgid, e.child >> /\ e.child # 0
    BY <1>3, <1>5, <2>2 DEF Justified
  <2> QED
    BY <1>5, <2>1, <2>2
<1>10. forks' \ lostForks' \subseteq new.edges
  BY <1>1, <1>5
<1>11. EdgesAreTrue(Read(log))'
  BY <1>4, <1>9, <1>10 DEF EdgesAreTrue
<1> QED
  BY <1>8, <1>11

-----------------------------------------------------------------------------
(* The steps. *)
LEMMA RunningIsProcess ==
  ASSUME IInv, NEW p \in Ids, Running(p)
  PROVE  Process(p) /\ used[p] > 0 /\ task[p] \in Ids \union {0}
  BY DEF IInv, Tables, Types

(* The event a step records. *)
LEMMA EventIs ==
  ASSUME IInv, NEW kind \in {"fork", "exec", "clone", "exit"}, NEW p \in Ids,
         NEW c \in Ids \union {0}
  PROVE  /\ Event(kind, p, c) \in Events
         /\ Event(kind, p, c).tgid = p /\ Event(kind, p, c).child = c
         /\ Event(kind, p, c).ppid = parent[p]
  BY DEF Event, Events, IInv, Types

LEMMA LongerLog ==
  ASSUME NEW events \in Seq(Events), NEW e \in Events
  PROVE  Append(events, e) \in Seq(Events)
  OBVIOUS

(* A fork makes a process of an id that is no task's. *)
LEMMA ForksKeeps ==
  ASSUME IInv, NEW p \in Ids, NEW c \in Ids, Forks(p, c) PROVE IInv'
<1> USE DEF IInv
<1>0. PICK q \in {p, parent[p]} :
        /\ parent' = [parent EXCEPT ![c] = q]
        /\ adopted' = IF q \in {p, Outside} THEN adopted ELSE adopted \union {<< q, c >>}
  BY DEF Forks
<1>1. /\ task' = [task EXCEPT ![c] = c] /\ UNCHANGED misnamed
      /\ used' = [used EXCEPT ![c] = @ + 1] /\ forks' = forks \union {<< p, c >>}
      /\ Running(p) /\ ~ Running(c) /\ p # c /\ c # 0
      /\ q \in Ids \union {Outside}
      /\ adopted \subseteq adopted' /\ adopted' \subseteq Ids \X Ids
      /\ q = Outside \/ << q, c >> \in forks' \union adopted'
  BY <1>0, TreeAssumption DEF Forks, Free, Types
<1>2. /\ used' \in [Ids -> Nat] /\ used'[c] = used[c] + 1
      /\ \A t \in Ids : t # c => used'[t] = used[t]
      /\ used[c] \in Nat
  BY <1>1 DEF Types
<1>3. \A t \in Ids : Process(t)' <=> Process(t) \/ t = c
  <2>1. \A t \in Ids : Process(t) => Process(t)'
    BY <1>1 DEF Process
  <2>2. Process(c)'
    <3>1. << p, c >> \in forks' /\ << p, c >>[2] = c
      BY <1>1
    <3> QED
      BY <3>1 DEF Process
  <2>3. ASSUME NEW t \in Ids, Process(t)', t # c PROVE Process(t)
    <3>1. CASE t = Root
      BY <3>1 DEF Process
    <3>2. CASE t # Root
      <4>1. PICK f \in forks' : f[2] = t
        BY <2>3, <3>2 DEF Process
      <4>2. f \in forks
        BY <1>1, <2>3, <4>1
      <4> QED
        BY <4>1, <4>2 DEF Process
    <3> QED
      BY <3>1, <3>2
  <2> QED
    BY <2>1, <2>2, <2>3
<1>4. Later
  BY <1>1, <1>2, <1>3 DEF Later, Types
<1>5. RecordsAreTrue(Read(log).records)' /\ EdgesAreTrue(Read(log))'
  <2>1. CASE Records(Event("fork", p, c)) /\ UNCHANGED lostForks
    <3>1. PICK e : e = Event("fork", p, c)
      OBVIOUS
    <3>2. e \in Events /\ e.tgid = p /\ e.child = c /\ e.ppid = parent[p]
      BY <3>1, EventIs
    <3>3. Justified(e)
      BY <1>1, <1>2, <3>2 DEF Justified
    <3>4. \A f \in forks' \ lostForks' :
            f \in forks \ lostForks \/ (f = << e.tgid, e.child >> /\ e.child \notin {0, e.tgid})
      BY <1>1, <2>1, <3>2
    <3>5. Records(e)
      BY <2>1, <3>1
    <3> QED
      BY <1>4, <3>3, <3>4, <3>5, OneMoreRead
  <2>2. CASE lostForks' = lostForks \union {<< p, c >>} /\ UNCHANGED log
    <3>1. forks' \ lostForks' \subseteq forks \ lostForks
      BY <1>1, <2>2
    <3> QED
      BY <1>4, <2>2, <3>1, NothingRead
  <2> QED
    BY <2>1, <2>2 DEF Forks
<1>6. Types'
  <2>1. log' \in Seq(Events)
    <3>1. Event("fork", p, c) \in Events
      BY EventIs
    <3>2. log' = Append(log, Event("fork", p, c)) \/ log' = log
      BY DEF Forks, Records
    <3> QED
      BY <3>1, <3>2, LongerLog DEF Types
  <2>2. task' \in [Ids -> Ids \union {0}] /\ parent' \in [Ids -> Ids \union {Outside}]
    BY <1>0, <1>1 DEF Types
  <2>3. /\ forks' \subseteq Ids \X Ids /\ lostForks' \subseteq forks'
        /\ \A f \in forks' : f[1] # f[2]
    BY <1>1 DEF Types, Forks
  <2>4. adopted' \subseteq Ids \X Ids
    BY <1>1
  <2> QED
    BY <1>2, <2>1, <2>2, <2>3, <2>4 DEF Types
<1>7. Tables'
  <2> SUFFICES ASSUME NEW r \in Ids
               PROVE  /\ Running(r)' => Process(r)'
                      /\ Process(r)' => used'[r] > 0
                      /\ Process(r)' /\ used'[r] = 1 =>
                           parent'[r] = Outside \/ << parent'[r], r >> \in forks' \union adopted'
    BY DEF Tables
  <2>1. Running(r)' => Running(r) \/ r = c
    BY <1>1 DEF Running, Types
  <2>2. /\ Running(r) => Process(r)
        /\ Process(r) => used[r] > 0
        /\ Process(r) /\ used[r] = 1 =>
             parent[r] = Outside \/ << parent[r], r >> \in forks \union adopted
    BY DEF Tables
  <2>3. CASE r = c
    <3>1. parent'[c] = q
      BY <1>0 DEF Types
    <3> QED
      BY <1>1, <1>2, <1>3, <2>3, <3>1
  <2>4. CASE r # c
    <3>1. parent'[r] = parent[r]
      BY <1>0, <2>4 DEF Types
    <3> QED
      BY <1>1, <1>2, <1>3, <2>1, <2>2, <2>4, <3>1
  <2> QED
    BY <2>3, <2>4
<1> QED
  BY <1>5, <1>6, <1>7

(* A new thread of a process is none, and its id may have been one's. *)
LEMMA StartsThreadKeeps ==
  ASSUME IInv, NEW p \in Ids, NEW t \in Ids, StartsThread(p, t) PROVE IInv'
<1> USE DEF IInv
<1>1. /\ task' = [task EXCEPT ![t] = p] /\ parent' = parent
      /\ used' = [used EXCEPT ![t] = @ + 1] /\ forks' = forks /\ lostForks' = lostForks
      /\ adopted' = adopted /\ misnamed' = misnamed
      /\ Running(p) /\ t # 0
  BY TreeAssumption DEF StartsThread
<1>2. /\ used' \in [Ids -> Nat] /\ used'[t] = used[t] + 1
      /\ \A q \in Ids : q # t => used'[q] = used[q]
      /\ used[t] \in Nat /\ used \in [Ids -> Nat]
  BY <1>1 DEF Types
<1>3. \A q \in Ids : Process(q)' <=> Process(q)
  BY <1>1 DEF Process
<1>4. Later
  BY <1>1, <1>2, <1>3 DEF Later
<1>5. RecordsAreTrue(Read(log).records)' /\ EdgesAreTrue(Read(log))'
  <2>1. CASE Records(Event("fork", p, t))
    <3>1. PICK e : e = Event("fork", p, t)
      OBVIOUS
    <3>2. e \in Events /\ e.tgid = p /\ e.child = t /\ e.ppid = parent[p]
      BY <3>1, EventIs
    <3>3. used'[t] > 0 /\ (used'[t] > 1 \/ ~ Process(t)')
      <4>1. Process(t) => used[t] > 0
        BY DEF Tables
      <4> QED
        BY <1>2, <1>3, <4>1
    <3>4. Justified(e)
      BY <1>1, <3>2, <3>3 DEF Justified
    <3>5. Records(e)
      BY <2>1, <3>1
    <3> QED
      BY <1>1, <1>4, <3>4, <3>5, OneMoreRead
  <2>2. CASE UNCHANGED log
    BY <1>1, <1>4, <2>2, NothingRead
  <2> QED
    BY <2>1, <2>2 DEF StartsThread
<1>6. Types'
  <2>1. log' \in Seq(Events)
    <3>1. Event("fork", p, t) \in Events
      BY EventIs
    <3>2. log' = Append(log, Event("fork", p, t)) \/ log' = log
      BY DEF StartsThread, Records
    <3> QED
      BY <3>1, <3>2, LongerLog DEF Types
  <2> QED
    BY <1>1, <1>2, <2>1 DEF Types
<1>7. Tables'
  <2> SUFFICES ASSUME NEW q \in Ids
               PROVE  /\ Running(q)' => Process(q)'
                      /\ Process(q)' => used'[q] > 0
                      /\ Process(q)' /\ used'[q] = 1 =>
                           parent'[q] = Outside \/ << parent'[q], q >> \in forks' \union adopted'
    BY DEF Tables
  <2>1. Running(q)' => Running(q)
    BY <1>1 DEF Running, Types
  <2>2. /\ Running(q) => Process(q)
        /\ Process(q) => used[q] > 0
        /\ Process(q) /\ used[q] = 1 =>
             parent[q] = Outside \/ << parent[q], q >> \in forks \union adopted
    BY DEF Tables
  <2> QED
    BY <1>1, <1>2, <1>3, <2>1, <2>2
<1> QED
  BY <1>5, <1>6, <1>7

(* An event that reports no child, of a step that makes no process and     *)
(* uses no id.                                                             *)
LEMMA ChildlessRead ==
  ASSUME IInv, UNCHANGED << forks, lostForks, misnamed, used >>, adopted \subseteq adopted',
         NEW p \in Ids, Running(p), NEW kind \in {"exec", "clone", "exit"},
         Records(Event(kind, p, 0)) \/ UNCHANGED log
  PROVE  /\ RecordsAreTrue(Read(log).records)' /\ EdgesAreTrue(Read(log))'
         /\ log' \in Seq(Events)
<1>1. Later
  BY DEF Later, IInv, Types, Process
<1>2. CASE UNCHANGED log
  BY <1>1, <1>2, NothingRead DEF IInv, Types
<1>3. CASE Records(Event(kind, p, 0))
  <2>1. PICK e : e = Event(kind, p, 0)
    OBVIOUS
  <2>2. e \in Events /\ e.tgid = p /\ e.child = 0 /\ e.ppid = parent[p] /\ Records(e)
    BY <1>3, <2>1, EventIs
  <2>3. Justified(e)
    BY <2>2 DEF Justified
  <2>4. RecordsAreTrue(Read(log).records)' /\ EdgesAreTrue(Read(log))'
    BY <1>1, <2>2, <2>3, OneMoreRead
  <2>5. log' \in Seq(Events)
    BY <2>2, LongerLog DEF Records, IInv, Types
  <2> QED
    BY <2>4, <2>5
<1> QED
  BY <1>2, <1>3

LEMMA ExecsKeeps ==
  ASSUME IInv, NEW p \in Ids, Execs(p) PROVE IInv'
<1>1. UNCHANGED << task, parent, forks, lostForks, adopted, misnamed, used >> /\ Running(p)
  BY DEF Execs
<1>2. PICK kind \in {"exec", "clone", "exit"} :
        Records(Event(kind, p, 0)) \/ UNCHANGED log
  BY DEF Execs
<1>3. /\ RecordsAreTrue(Read(log).records)' /\ EdgesAreTrue(Read(log))'
      /\ log' \in Seq(Events)
  BY <1>1, <1>2, ChildlessRead
<1>4. Types' /\ Tables'
  BY <1>1, <1>3 DEF IInv, Types, Tables, Running, Process
<1> QED
  BY <1>3, <1>4 DEF IInv

(* clone's return reports a fork once more, or names anything. *)
LEMMA CloneReturnsKeeps ==
  ASSUME IInv, NEW p \in Ids, NEW n \in Ids, CloneReturns(p, n) PROVE IInv'
<1>1. /\ UNCHANGED << task, parent, forks, adopted, used >>
      /\ Running(p) /\ Records(Event("clone", p, n))
      /\ misnamed \subseteq misnamed' /\ lostForks' \subseteq lostForks
      /\ lostForks \ lostForks' \subseteq {<< p, n >>}
      /\ << p, n >> \in forks \union misnamed'
      /\ << p, n >> \in forks \/ lostForks' = lostForks
  BY DEF CloneReturns
<1>2. PICK e : e = Event("clone", p, n)
  OBVIOUS
<1>3. e \in Events /\ e.tgid = p /\ e.child = n /\ e.ppid = parent[p] /\ Records(e)
  BY <1>1, <1>2, EventIs
<1>4. Later
  BY <1>1 DEF Later, IInv, Types, Process
<1>5. << p, n >> \in forks => p # n /\ used[n] > 0
  <2> SUFFICES ASSUME << p, n >> \in forks PROVE p # n /\ used[n] > 0
    OBVIOUS
  <2>1. << p, n >>[1] = p /\ << p, n >>[2] = n
    OBVIOUS
  <2>2. Process(n)
    BY <2>1 DEF Process
  <2> QED
    BY <2>1, <2>2 DEF IInv, Types, Tables
<1>6. Justified(e)
  BY <1>1, <1>3, <1>5 DEF Justified
<1>7. RecordsAreTrue(Read(log).records)' /\ EdgesAreTrue(Read(log))'
  <2>1. n # 0
    BY TreeAssumption
  <2>2. \A f \in forks' \ lostForks' :
          f \in forks \ lostForks \/ (f = << e.tgid, e.child >> /\ e.child \notin {0, e.tgid})
    BY <1>1, <1>3, <1>5, <2>1
  <2> QED
    BY <1>3, <1>4, <1>6, <2>2, OneMoreRead
<1>8. Types'
  <2>1. log' \in Seq(Events)
    BY <1>3, LongerLog DEF Records, IInv, Types
  <2> QED
    BY <1>1, <2>1 DEF IInv, Types
<1>9. Tables'
  BY <1>1 DEF IInv, Tables, Running, Process
<1> QED
  BY <1>7, <1>8, <1>9 DEF IInv

(* Above a process are processes, or what is outside. *)
LEMMA AncestorsAre ==
  ASSUME IInv, NEW p \in Ids PROVE Ancestors(p) \subseteq Ids \union {Outside}
<1> DEFINE N == Cardinality(Ids)
           X == Ids \union {Outside}
           s == [q \in X |-> IF q \in Ids THEN parent[q] ELSE Outside]
           Is(f) == f = [n \in 0 .. N |->
                           IF n = 0 THEN p ELSE IF f[n - 1] \in Ids THEN parent[f[n - 1]] ELSE Outside]
           at == CHOOSE f : Is(f)
<1>1. N \in Nat
  BY TreeAssumption, FS_CardinalityType
<1>2. s \in [X -> X]
  BY DEF IInv, Types
<1>3. PICK f \in [0 .. N -> X] : Iterates(f, p, s, N)
  <2>1. p \in X
    OBVIOUS
  <2> HIDE DEF s, N, X
  <2> QED
    BY <1>1, <1>2, <2>1, Iterated
<1>4. \A n \in 0 .. N : n # 0 => n - 1 \in 0 .. N
  BY <1>1
<1>5. Is(f)
  <2>1. \A n \in 0 .. N : f[n] = IF n = 0 THEN p ELSE s[f[n - 1]]
    BY <1>3 DEF Iterates
  <2>2. \A n \in 0 .. N : n # 0 =>
          s[f[n - 1]] = IF f[n - 1] \in Ids THEN parent[f[n - 1]] ELSE Outside
    BY <1>4
  <2> HIDE DEF s
  <2> QED
    BY <2>1, <2>2
<1>6. Is(at)
  BY <1>5
<1>7. Ancestors(p) = { at[n] : n \in 1 .. N } \ {p}
  BY DEF Ancestors
<1> HIDE DEF at
<1>8. \A n \in 0 .. N :
        at[n] = IF n = 0 THEN p ELSE IF at[n - 1] \in Ids THEN parent[at[n - 1]] ELSE Outside
  BY <1>6
<1>9. ASSUME NEW n \in 1 .. N PROVE at[n] \in Ids \union {Outside}
  <2>1. n \in 0 .. N /\ n # 0
    BY <1>1
  <2> QED
    BY <1>8, <2>1 DEF IInv, Types
<1> QED
  BY <1>7, <1>9

(* A task's exit is its process's event; children may go to a reaper.      *)
LEMMA ExitsKeeps ==
  ASSUME IInv, NEW t \in Ids, Exits(t) PROVE IInv'
<1> DEFINE p == task[t]
           left == { c \in Ids : parent[c] = p /\ \A u \in Ids \ {t} : task[u] # p }
<1>1. /\ UNCHANGED << forks, lostForks, misnamed, used >>
      /\ p \in Ids /\ Running(p)
      /\ Records(Event("exit", p, 0)) \/ UNCHANGED log
  BY DEF Exits, Running, IInv, Types
<1>2. PICK reaper \in {Outside} \union Ancestors(p) :
        /\ parent' = [c \in Ids |-> IF c \in left THEN reaper ELSE parent[c]]
        /\ adopted' = IF reaper = Outside THEN adopted ELSE adopted \union ({reaper} \X left)
  BY DEF Exits
<1>3. reaper \in Ids \union {Outside}
  BY <1>1, <1>2, AncestorsAre
<1>4. /\ parent' \in [Ids -> Ids \union {Outside}]
      /\ adopted \subseteq adopted' /\ adopted' \subseteq Ids \X Ids
      /\ \A q \in Ids : \/ parent'[q] = parent[q]
                        \/ parent'[q] = Outside
                        \/ << parent'[q], q >> \in adopted'
  BY <1>2, <1>3 DEF IInv, Types
<1>5. /\ RecordsAreTrue(Read(log).records)' /\ EdgesAreTrue(Read(log))'
      /\ log' \in Seq(Events)
  BY <1>1, <1>4, ChildlessRead
<1>6. /\ task' \in [Ids -> Ids \union {0}]
      /\ \A u \in Ids : task'[u] = task[u] \/ task'[u] = 0
  BY DEF Exits, IInv, Types
<1>7. Types'
  BY <1>1, <1>4, <1>5, <1>6 DEF IInv, Types
<1>8. Tables'
  <2>1. \A q \in Ids : Running(q)' => Running(q)
    BY <1>6, TreeAssumption DEF Running
  <2> QED
    BY <1>1, <1>4, <2>1 DEF IInv, Tables, Process
<1> QED
  BY <1>5, <1>7, <1>8 DEF IInv

LEMMA NextInv == IInv /\ [Next]_vars => IInv'
<1> SUFFICES ASSUME IInv, [Next]_vars PROVE IInv'
  OBVIOUS
<1>1. CASE UNCHANGED vars
  BY <1>1 DEF vars, IInv, Types, Tables, Running, Process, RecordsAreTrue, EdgesAreTrue
<1>2. ASSUME NEW p \in Ids, NEW c \in Ids, Forks(p, c) \/ StartsThread(p, c) \/ CloneReturns(p, c)
      PROVE  IInv'
  BY <1>2, ForksKeeps, StartsThreadKeeps, CloneReturnsKeeps
<1>3. ASSUME NEW t \in Ids, Execs(t) \/ Exits(t) PROVE IInv'
  BY <1>3, ExecsKeeps, ExitsKeeps
<1> QED
  BY <1>1, <1>2, <1>3 DEF Next

THEOREM Invariant == Spec => []IInv
  BY InitInv, NextInv, PTL DEF Spec

-----------------------------------------------------------------------------
LEMMA TreeIs ==
  ASSUME IInv
  PROVE  /\ Tree.records = Read(log).records
         /\ Tree.edges = { e \in Read(log).edges :
                             {e[1], e[2]} \subseteq DOMAIN Read(log).records }
<1> DEFINE read == Read(log)
<1>1. Tree = Resolve(read)
  BY DEF Tree, ReconstructTree, Read
<1>2. read = [records |-> read.records, edges |-> read.edges]
  BY ReadIsRecord DEF IInv, Types
<1> HIDE DEF read
<1>3. Tree.records = read.records
  BY <1>1, <1>2 DEF Resolve
<1>4. Tree.edges = { e \in read.edges : {e[1], e[2]} \subseteq DOMAIN read.records }
  BY <1>1, <1>2 DEF Resolve
<1> QED
  BY <1>3, <1>4 DEF read

LEMMA InvTrue == IInv => TreeIsTrue
<1> SUFFICES ASSUME IInv PROVE TreeIsTrue
  OBVIOUS
<1>1. /\ Tree.records = Read(log).records
      /\ Tree.edges = { e \in Read(log).edges :
                          {e[1], e[2]} \subseteq DOMAIN Read(log).records }
  BY TreeIs
<1>2. \A t \in DOMAIN Tree.records :
        /\ Process(t)
        /\ used[t] = 1 => \/ Tree.records[t].ppid = Outside
                          \/ << Tree.records[t].ppid, t >> \in forks \union adopted
  BY <1>1 DEF IInv, RecordsAreTrue
<1>3. /\ \A e \in Read(log).edges :
           /\ e[1] \in DOMAIN Tree.records
           /\ e \in forks \union misnamed \/ used[e[2]] > 1 \/ ~ Process(e[2])
      /\ forks \ lostForks \subseteq Read(log).edges
  BY <1>1 DEF IInv, EdgesAreTrue
<1>4. \A e \in Tree.edges : e \in forks \union misnamed \/ used[e[2]] > 1
  BY <1>1, <1>2, <1>3
<1>5. \A f \in forks \ lostForks : f[2] \in DOMAIN Tree.records => f \in Tree.edges
  BY <1>1, <1>3
<1> QED
  BY <1>2, <1>4, <1>5 DEF TreeIsTrue

(* The tree's edges are forks that happened, unless an id was used again   *)
(* or named in a pid namespace; every fork that was reported, and whose    *)
(* child was recorded, is an edge; and a record's parent is the process    *)
(* that made it or got it, or the reaper outside.                          *)
THEOREM TreesAreTrue == Spec => []TreeIsTrue
  BY Invariant, InvTrue, PTL

-----------------------------------------------------------------------------
(* What print_node and the walk up compute. *)
Levels(tree, from, level) ==
  level = [n \in 0 .. MaxDepth - 1 |->
             IF n = 0 THEN {from}
             ELSE level[n - 1] \union
                    { e[2] : e \in { f \in tree.edges : f[1] \in level[n - 1] } }]
Walks(tree, from, count, at) ==
  at = [n \in 0 .. count - 1 |->
          IF n = 0 THEN from
          ELSE LET cur == at[n - 1] IN
               IF cur = Root \/ cur \notin DOMAIN tree.records THEN cur
               ELSE tree.records[cur].ppid]

LEMMA BelowIs ==
  ASSUME NEW tree, NEW from
  PROVE  Below(tree, from) =
           (CHOOSE level : Levels(tree, from, level))[MaxDepth - 1]
             \intersect DOMAIN tree.records
  BY DEF Below, Levels

LEMMA UpIs ==
  ASSUME NEW tree, NEW from, NEW count
  PROVE  LET at == CHOOSE at : Walks(tree, from, count, at)
         IN Up(tree, from, count) = { at[n] : n \in DOMAIN at }
  BY DEF Up, Walks

LEMMA LimitsAre ==
  /\ MaxDepth \in Nat \ {0} /\ MaxHops \in Nat \ {0}
  /\ MaxDepth - 1 \in Nat /\ MaxHops - 1 \in Nat
  BY TreeAssumption

(* Below a node there are only ids, at every level those of the level      *)
(* before and their children.                                              *)
LEMMA LevelsAre ==
  ASSUME NEW tree, tree.edges \subseteq Ids \X Ids, NEW from \in Ids
  PROVE  \E level \in [0 .. MaxDepth - 1 -> SUBSET Ids] :
           Levels(tree, from, level)
<1> DEFINE s == [S \in SUBSET Ids |->
                   S \union { e[2] : e \in { f \in tree.edges : f[1] \in S } }]
           N == MaxDepth - 1
<1>1. s \in [SUBSET Ids -> SUBSET Ids]
  OBVIOUS
<1>2. {from} \in SUBSET Ids /\ N \in Nat
  BY LimitsAre
<1>3. PICK level \in [0 .. N -> SUBSET Ids] : Iterates(level, {from}, s, N)
  <2> HIDE DEF s, N
  <2> QED
    BY <1>1, <1>2, Iterated
<1>4. \A n \in 0 .. N : level[n] = IF n = 0 THEN {from} ELSE s[level[n - 1]]
  BY <1>3 DEF Iterates
<1>5. \A n \in 0 .. N : n # 0 => n - 1 \in 0 .. N
  BY <1>2
<1>6. \A n \in 0 .. N : n # 0 =>
        s[level[n - 1]] = level[n - 1] \union
                            { e[2] : e \in { f \in tree.edges : f[1] \in level[n - 1] } }
  BY <1>5
<1>7. level = [n \in 0 .. N |->
                 IF n = 0 THEN {from}
                 ELSE level[n - 1] \union
                        { e[2] : e \in { f \in tree.edges : f[1] \in level[n - 1] } }]
  <2> HIDE DEF s
  <2> QED
    BY <1>4, <1>6
<1> QED
  BY <1>7 DEF Levels

(* The walk up goes from id to id, or out of the capture, where it stops. *)
LEMMA WalksAre ==
  ASSUME NEW tree, NEW from \in Ids \union {Outside}, NEW count \in Nat \ {0},
         \A t \in DOMAIN tree.records : tree.records[t].ppid \in Ids \union {Outside}
  PROVE  \E at \in [0 .. count - 1 -> Ids \union {Outside}] : Walks(tree, from, count, at)
<1> DEFINE X == Ids \union {Outside}
           s == [cur \in X |-> IF cur = Root \/ cur \notin DOMAIN tree.records THEN cur
                               ELSE tree.records[cur].ppid]
           N == count - 1
<1>1. s \in [X -> X]
  OBVIOUS
<1>2. N \in Nat
  OBVIOUS
<1>3. PICK at \in [0 .. N -> X] : Iterates(at, from, s, N)
  <2>1. from \in X
    OBVIOUS
  <2> HIDE DEF s, N, X
  <2> QED
    BY <1>1, <1>2, <2>1, Iterated
<1>4. \A n \in 0 .. N : at[n] = IF n = 0 THEN from ELSE s[at[n - 1]]
  BY <1>3 DEF Iterates
<1>5. \A n \in 0 .. N : n # 0 => n - 1 \in 0 .. N
  BY <1>2
<1>6. \A n \in 0 .. N : n # 0 =>
        s[at[n - 1]] = LET cur == at[n - 1] IN
                       IF cur = Root \/ cur \notin DOMAIN tree.records THEN cur
                       ELSE tree.records[cur].ppid
  BY <1>5
<1>7. at = [n \in 0 .. N |->
              IF n = 0 THEN from
              ELSE LET cur == at[n - 1] IN
                   IF cur = Root \/ cur \notin DOMAIN tree.records THEN cur
                   ELSE tree.records[cur].ppid]
  <2> HIDE DEF s
  <2> QED
    BY <1>4, <1>6
<1> QED
  BY <1>7 DEF Walks

(* print_node starts from its node, goes down, and stays within the ids.   *)
LEMMA BelowRoot ==
  ASSUME NEW tree, tree.edges \subseteq Ids \X Ids, NEW from \in Ids
  PROVE  \E level \in [0 .. MaxDepth - 1 -> SUBSET Ids] :
           /\ Below(tree, from) = level[MaxDepth - 1] \intersect DOMAIN tree.records
           /\ from \in level[0]
           /\ \A n \in 0 .. MaxDepth - 2 :
                /\ level[n] \subseteq level[n + 1]
                /\ \A e \in tree.edges : e[1] \in level[n] => e[2] \in level[n + 1]
           /\ \A n \in 0 .. MaxDepth - 1 : level[n] \subseteq level[MaxDepth - 1]
<1> DEFINE N == MaxDepth - 1
           level == CHOOSE l : Levels(tree, from, l)
<1>1. N \in Nat
  BY LimitsAre
<1>2. PICK l \in [0 .. N -> SUBSET Ids] : Levels(tree, from, l)
  BY LevelsAre
<1>3. Levels(tree, from, level)
  BY <1>2
<1>4. Below(tree, from) = level[N] \intersect DOMAIN tree.records
  BY BelowIs
<1> HIDE DEF level
<1>5. /\ DOMAIN level = 0 .. N
      /\ \A n \in 0 .. N : level[n] =
           IF n = 0 THEN {from}
           ELSE level[n - 1] \union
                  { e[2] : e \in { f \in tree.edges : f[1] \in level[n - 1] } }
  BY <1>3 DEF Levels
<1>6. level = [n \in 0 .. N |-> level[n]]
  BY <1>3 DEF Levels
<1>7. level[0] = {from}
  BY <1>1, <1>5
<1>8. ASSUME NEW n \in 0 .. N - 1
      PROVE  level[n + 1] = level[n] \union
                              { e[2] : e \in { f \in tree.edges : f[1] \in level[n] } }
  <2>1. n + 1 \in 0 .. N /\ n + 1 # 0 /\ n + 1 - 1 = n
    BY <1>1
  <2> QED
    BY <1>5, <2>1
<1>9. \A n \in 0 .. N : level[n] \subseteq Ids
  <2> DEFINE Done == { n \in Nat : n <= N => level[n] \subseteq Ids }
  <2>1. 0 \in Done
    BY <1>7
  <2>2. ASSUME NEW n \in Nat, n \in Done PROVE n + 1 \in Done
    <3> SUFFICES ASSUME n + 1 <= N PROVE level[n + 1] \subseteq Ids
      OBVIOUS
    <3>1. n \in 0 .. N - 1 /\ n <= N
      BY <1>1
    <3>2. level[n] \subseteq Ids
      BY <2>2, <3>1
    <3> QED
      BY <1>8, <3>1, <3>2
  <2>3. \A n \in Nat : n \in Done
    <3> HIDE DEF Done
    <3> QED
      BY <2>1, <2>2, Induction
  <2> QED
    BY <1>1, <2>3
<1>10. level \in [0 .. N -> SUBSET Ids]
  BY <1>6, <1>9
<1>11. \A n \in 0 .. N - 1 :
         /\ level[n] \subseteq level[n + 1]
         /\ \A e \in tree.edges : e[1] \in level[n] => e[2] \in level[n + 1]
  BY <1>8
<1>12. \A n \in 0 .. N : level[n] \subseteq level[N]
  <2> DEFINE Done == { k \in Nat : k <= N => level[N - k] \subseteq level[N] }
  <2>1. 0 \in Done
    BY <1>1
  <2>2. ASSUME NEW k \in Nat, k \in Done PROVE k + 1 \in Done
    <3> SUFFICES ASSUME k + 1 <= N PROVE level[N - (k + 1)] \subseteq level[N]
      OBVIOUS
    <3>1. N - (k + 1) \in 0 .. N - 1 /\ N - (k + 1) + 1 = N - k /\ k <= N
      BY <1>1
    <3>2. level[N - k] \subseteq level[N]
      BY <2>2, <3>1
    <3>3. level[N - (k + 1)] \subseteq level[N - (k + 1) + 1]
      BY <1>11, <3>1
    <3> QED
      BY <3>1, <3>2, <3>3
  <2>3. \A k \in Nat : k \in Done
    <3> HIDE DEF Done
    <3> QED
      BY <2>1, <2>2, Induction
  <2>4. ASSUME NEW n \in 0 .. N PROVE level[n] \subseteq level[N]
    <3>1. N - n \in Nat /\ N - n <= N /\ N - (N - n) = n
      BY <1>1
    <3> QED
      BY <2>3, <3>1
  <2> QED
    BY <2>4
<1>13. N - 1 = MaxDepth - 2
  BY LimitsAre
<1> QED
  BY <1>4, <1>7, <1>10, <1>11, <1>12, <1>13

(* The walk up, step by step. *)
GoesUp(tree, from, count, at) ==
  /\ Up(tree, from, count) = { at[n] : n \in 0 .. count - 1 }
  /\ at[0] = from
  /\ \A n \in 0 .. count - 2 :
       at[n + 1] = IF at[n] = Root \/ at[n] \notin DOMAIN tree.records THEN at[n]
                   ELSE tree.records[at[n]].ppid

LEMMA UpFrom ==
  ASSUME NEW tree, NEW from \in Ids, NEW count \in Nat \ {0},
         \A t \in DOMAIN tree.records : tree.records[t].ppid \in Ids \union {Outside}
  PROVE  \E at : GoesUp(tree, from, count, at)
<1> DEFINE N == count - 1
           at == CHOOSE w : Walks(tree, from, count, w)
<1>1. N \in Nat
  OBVIOUS
<1>2. \E w \in [0 .. N -> Ids \union {Outside}] : Walks(tree, from, count, w)
  BY WalksAre
<1>3. Walks(tree, from, count, at)
  BY <1>2
<1>4. Up(tree, from, count) = { at[n] : n \in DOMAIN at }
  BY UpIs
<1> HIDE DEF at
<1>5. /\ DOMAIN at = 0 .. N
      /\ \A n \in 0 .. N : at[n] =
           IF n = 0 THEN from
           ELSE IF at[n - 1] = Root \/ at[n - 1] \notin DOMAIN tree.records THEN at[n - 1]
                ELSE tree.records[at[n - 1]].ppid
  BY <1>3 DEF Walks
<1>6. at[0] = from
  BY <1>1, <1>5
<1>7. ASSUME NEW n \in 0 .. N - 1
      PROVE  at[n + 1] = IF at[n] = Root \/ at[n] \notin DOMAIN tree.records THEN at[n]
                         ELSE tree.records[at[n]].ppid
  <2>1. n + 1 \in 0 .. N /\ n + 1 # 0 /\ n + 1 - 1 = n
    BY <1>1
  <2> QED
    BY <1>5, <2>1
<1>8. N - 1 = count - 2
  OBVIOUS
<1>9. Up(tree, from, count) = { at[n] : n \in 0 .. count - 1 }
  BY <1>4, <1>5
<1>10. GoesUp(tree, from, count, at)
  <2> HIDE DEF N
  <2> QED
    BY <1>6, <1>7, <1>8, <1>9 DEF GoesUp
<1> QED
  BY <1>10

(* Two walks up from one id are the same as far as both go. *)
LEMMA SameWalk ==
  ASSUME NEW v, NEW w, NEW y \in Nat, NEW z \in Nat, v[0] = w[0],
         \A n \in 0 .. y - 1 : n \in 0 .. z - 1 /\ v[n] = w[n] => v[n + 1] = w[n + 1]
  PROVE  \A n \in Nat : n <= y /\ n <= z => v[n] = w[n]
<1> DEFINE Done == { n \in Nat : n <= y /\ n <= z => v[n] = w[n] }
<1>1. 0 \in Done
  OBVIOUS
<1>2. ASSUME NEW n \in Nat, n \in Done PROVE n + 1 \in Done
  <2> SUFFICES ASSUME n + 1 <= y, n + 1 <= z PROVE v[n + 1] = w[n + 1]
    OBVIOUS
  <2>1. n \in 0 .. y - 1 /\ n \in 0 .. z - 1 /\ n <= y /\ n <= z
    OBVIOUS
  <2> QED
    BY <1>2, <2>1
<1>3. \A n \in Nat : n \in Done
  <2> HIDE DEF Done
  <2> QED
    BY <1>1, <1>2, Induction
<1> QED
  BY <1>3

(* A walk that goes up to the target over forks that were recorded, and no *)
(* further than print_node goes down, is a way down to where it began.     *)
LEMMA InvHidden == IInv => HiddenOnlyByLostForks
<1> SUFFICES ASSUME IInv, NEW t \in DOMAIN Tree.records \ Printed(Tree),
                    \A u \in WalkUp(Tree, t) \intersect Ids :
                      ~ LostFork(u) /\ ~ (used[u] > 1) /\ ~ Adopted(u),
                    ~ TooDeep(t)
             PROVE  FALSE
  BY DEF HiddenOnlyByLostForks
<1> DEFINE N == MaxDepth - 1
           H == MaxHops - 1
<1>1. /\ Tree.records = Read(log).records
      /\ Tree.edges = { e \in Read(log).edges :
                          {e[1], e[2]} \subseteq DOMAIN Read(log).records }
  BY TreeIs
<1>2. /\ \A u \in DOMAIN Tree.records :
           /\ u \in Ids /\ Process(u) /\ Tree.records[u].ppid \in Ids \union {Outside}
      /\ Tree.edges \subseteq Ids \X Ids
  BY <1>1 DEF IInv, RecordsAreTrue, EdgesAreTrue
<1>3. /\ \A f \in forks \ lostForks : f[2] \in DOMAIN Tree.records => f \in Tree.edges
      /\ \A u \in DOMAIN Tree.records :
           used[u] = 1 => \/ Tree.records[u].ppid = Outside
                          \/ << Tree.records[u].ppid, u >> \in forks \union adopted
  BY InvTrue DEF TreeIsTrue
<1>4. \A u \in Ids : Process(u) => used[u] \in Nat /\ used[u] > 0
  BY DEF IInv, Tables, Types
<1>5. /\ N \in Nat /\ H \in Nat /\ Root \in Ids /\ Outside \notin Ids
      /\ MaxDepth \in Nat \ {0} /\ MaxHops \in Nat \ {0}
      /\ MaxDepth - 2 = N - 1 /\ MaxHops - 2 = H - 1
  BY LimitsAre, TreeAssumption
<1>6. t \in Ids
  BY <1>2
<1>7. \A u \in {Root} \union Orphans(Tree) : t \notin Below(Tree, u)
  BY DEF Printed
<1>8. t \in Below(Tree, t)
  <2>1. PICK level \in [0 .. N -> SUBSET Ids] :
          /\ Below(Tree, t) = level[N] \intersect DOMAIN Tree.records
          /\ t \in level[0]
          /\ \A n \in 0 .. N : level[n] \subseteq level[N]
    BY <1>2, <1>6, BelowRoot
  <2>2. 0 \in 0 .. N
    BY <1>5
  <2> QED
    BY <2>1, <2>2
<1>9. Root \in WalkUp(Tree, t)
  BY <1>7, <1>8 DEF Orphans
<1>0. ASSUME NEW count \in Nat \ {0} PROVE \E at : GoesUp(Tree, t, count, at)
  BY <1>2, <1>6, UpFrom
<1>10. PICK at :
         /\ WalkUp(Tree, t) = { at[n] : n \in 0 .. H }
         /\ at[0] = t
         /\ \A n \in 0 .. H - 1 :
              at[n + 1] = IF at[n] = Root \/ at[n] \notin DOMAIN Tree.records THEN at[n]
                          ELSE Tree.records[at[n]].ppid
  BY <1>5, <1>0 DEF WalkUp, GoesUp
<1>11. PICK m \in 0 .. H : at[m] = Root /\ m <= N
  <2>1. PICK w :
          /\ Up(Tree, t, MaxDepth) = { w[n] : n \in 0 .. N }
          /\ w[0] = t
          /\ \A n \in 0 .. N - 1 :
               w[n + 1] = IF w[n] = Root \/ w[n] \notin DOMAIN Tree.records THEN w[n]
                          ELSE Tree.records[w[n]].ppid
    BY <1>5, <1>0 DEF GoesUp
  <2>2. PICK a \in 0 .. N : w[a] = Root
    BY <2>1 DEF TooDeep
  <2>3. PICK c \in 0 .. H : at[c] = Root
    BY <1>9, <1>10
  <2>4. \A n \in Nat : n <= N /\ n <= H => w[n] = at[n]
    <3>1. \A n \in 0 .. N - 1 :
            n \in 0 .. H - 1 /\ w[n] = at[n] => w[n + 1] = at[n + 1]
      BY <1>10, <2>1
    <3>2. w[0] = at[0]
      BY <1>10, <2>1
    <3>3. N \in Nat /\ H \in Nat
      BY <1>5
    <3> HIDE DEF N, H
    <3> QED
      BY <3>1, <3>2, <3>3, SameWalk, Zenon
  <2>5. CASE a <= c
    <3>1. a \in 0 .. H /\ a \in Nat /\ a <= N /\ a <= H
      BY <1>5, <2>5
    <3> QED
      BY <2>2, <2>4, <3>1
  <2>6. CASE ~ (a <= c)
    <3>1. c <= N
      BY <1>5, <2>6
    <3> QED
      BY <2>3, <3>1
  <2> QED
    BY <2>5, <2>6
<1>12. PICK level \in [0 .. N -> SUBSET Ids] :
         /\ Below(Tree, Root) = level[N] \intersect DOMAIN Tree.records
         /\ Root \in level[0]
         /\ \A n \in 0 .. N - 1 :
              /\ level[n] \subseteq level[n + 1]
              /\ \A e \in Tree.edges : e[1] \in level[n] => e[2] \in level[n + 1]
         /\ \A n \in 0 .. N : level[n] \subseteq level[N]
  BY <1>2, <1>5, BelowRoot
<1> DEFINE Done == { j \in Nat : j <= m => at[m - j] \in level[j] }
<1>13. 0 \in Done
  BY <1>5, <1>11, <1>12
<1>14. ASSUME NEW j \in Nat, j \in Done PROVE j + 1 \in Done
  <2> SUFFICES ASSUME j + 1 <= m PROVE at[m - (j + 1)] \in level[j + 1]
    OBVIOUS
  <2> DEFINE i == m - (j + 1)
             u == at[i]
  <2>1. /\ i \in 0 .. H - 1 /\ i \in 0 .. H /\ i + 1 = m - j
        /\ j <= m /\ j \in 0 .. N - 1 /\ j \in 0 .. N
    BY <1>5, <1>11
  <2>2. at[i + 1] \in level[j]
    BY <1>14, <2>1
  <2> HIDE DEF i
  <2>3. level[j] \subseteq level[j + 1] /\ level[j] \subseteq Ids
    BY <1>12, <2>1
  <2>4. at[i + 1] = IF u = Root \/ u \notin DOMAIN Tree.records THEN u
                    ELSE Tree.records[u].ppid
    BY <1>10, <2>1
  <2>5. CASE u = Root \/ u \notin DOMAIN Tree.records
    BY <2>2, <2>3, <2>4, <2>5 DEF i
  <2>6. CASE u \in DOMAIN Tree.records /\ u # Root
    <3>1. u \in Ids /\ u \in WalkUp(Tree, t)
      BY <1>2, <1>10, <2>1, <2>6
    <3>2. used[u] = 1 /\ ~ LostFork(u) /\ ~ Adopted(u)
      BY <1>2, <1>4, <2>6, <3>1
    <3>3. Tree.records[u].ppid # Outside /\ Tree.records[u].ppid \in level[j]
      BY <1>5, <2>2, <2>3, <2>4, <2>6
    <3>4. << Tree.records[u].ppid, u >> \in forks
      <4>1. << Tree.records[u].ppid, u >>[2] = u
        OBVIOUS
      <4> QED
        BY <1>3, <2>6, <3>2, <3>3, <4>1 DEF Adopted
    <3>5. << Tree.records[u].ppid, u >> \in Tree.edges
      BY <1>3, <2>6, <3>2, <3>4 DEF LostFork
    <3>6. u \in level[j + 1]
      BY <1>12, <2>1, <3>3, <3>5
    <3> QED
      BY <3>6 DEF i
  <2> QED
    BY <2>5, <2>6
<1>15. m \in Done
  <2>1. m \in Nat
    BY <1>5
  <2> HIDE DEF Done
  <2> QED
    BY <1>13, <1>14, <2>1, Induction
<1>16. t \in level[N]
  <2>1. m - m = 0 /\ m <= m /\ m \in 0 .. N
    BY <1>5, <1>11
  <2> QED
    BY <1>10, <1>12, <1>15, <2>1
<1> QED
  BY <1>7, <1>12, <1>16

(* What `vishaya tree` does not show is below a process whose fork was not *)
(* reported, whose id was used again or whose parent did not make it, or   *)
(* is deeper than print_node goes: for any limits of depth and hops.       *)
THEOREM HiddenAreExplained == Spec => []HiddenOnlyByLostForks
  BY Invariant, InvHidden, PTL

-----------------------------------------------------------------------------
(* The enricher. *)

Values == [id : Nat, image : Nat]
Fields == [filename : Values, exec_path : Values, cwd : Values, cmdline : Values,
           parent_comm : Values]
ReadFields == {"filename", "exec_path", "cwd", "cmdline"}

EnricherTypes ==
  /\ clock \in Nat \ {0}
  /\ owner \in [id : 1 .. MaxOwners, start : Nat \ {0}, image : -1 .. 2]
  /\ parentOwner \in Nat
  /\ event \in [kind : {"exec", "other"}, task : Nat \ {0}, start : Nat, field : Fields]
  /\ trusted \in BOOLEAN
  /\ checked \in 0 .. owner.id
  /\ started \in [1 .. MaxOwners -> Nat \ {0}]
  /\ pc \in {"check", "exe", "cwd", "cmdline", "parent", "start", "done"}

(* What is remembered of the processes that had the id.                    *)
History == started[owner.id] = owner.start /\ started[1] = 1

(* Before the guard nothing has been read.                                 *)
Untouched ==
  pc = "check" =>
    /\ checked = 0 /\ trusted
    /\ event.start \in {0, event.task}
    /\ \A name \in ReadFields : event.field[name].id \in {0, 1}

(* What the guard found, and that a refused event carries nothing foreign. *)
Guard ==
  /\ checked # 0 => /\ event.start = event.task
                    /\ trusted <=> Near(event.start, started[checked])
  /\ ~trusted => /\ checked # 0
                 /\ \A name \in ReadFields : event.field[name].id \in {0, 1}

PathKept ==
  event.kind = "exec" =>
    /\ event.field.filename = Value(1, 1)
    /\ IF pc \in {"check", "exe"} THEN event.field.exec_path = Empty
       ELSE \/ event.field.exec_path \in {Value(1, 1), Value(1, 2)}
            \/ event.field.exec_path.id > 1

EnricherInv == EnricherTypes /\ History /\ Untouched /\ Guard /\ PathKept

-----------------------------------------------------------------------------
LEMMA EnricherInitInv == EnricherInit => EnricherInv
<1> USE EnricherAssumption
<1> SUFFICES ASSUME EnricherInit PROVE EnricherInv
  OBVIOUS
<1>1. PICK e \in EventsAt(clock) :
        event = [e EXCEPT !.start = IF e.start = 0 THEN 0 ELSE e.task]
  BY DEF EnricherInit
<1> DEFINE Starts(ev) ==
      /\ ev \in [kind : {"exec", "other"}, task : Nat \ {0}, start : Nat, field : Fields]
      /\ \A name \in ReadFields : ev.field[name].id \in {0, 1}
      /\ ev.kind = "exec" => ev.field.filename = Value(1, 1) /\ ev.field.exec_path = Empty
<1>2. Starts(e)
  <2>1. ASSUME NEW path \in {Empty, Value(1, 1)}, NEW args \in {Empty, Value(1, 1)},
               NEW comm \in {Empty, Value(1, 1)}
        PROVE  /\ Carrying(path, args, comm) \in Fields
               /\ \A name \in ReadFields : Carrying(path, args, comm)[name].id \in {0, 1}
               /\ Carrying(path, args, comm).filename = path
               /\ Carrying(path, args, comm).exec_path = Empty
    <3>1. /\ Value(1, 1) \in Values /\ Empty \in Values
          /\ Value(1, 1).id = 1 /\ Empty.id = 0
      BY DEF Values, Value, Empty
    <3> QED
      BY <3>1 DEF Carrying, Fields, ReadFields
  <2>2. \/ \E t \in 1 .. clock, s \in {0, 1} :
             e = [kind |-> "other", task |-> t, start |-> s,
                  field |-> Carrying(Empty, Empty, Empty)]
        \/ \E s \in {0, 1}, args \in {Empty, Value(1, 1)}, comm \in {Empty, Value(1, 1)} :
             e = [kind |-> "exec", task |-> 1, start |-> s,
                  field |-> Carrying(Value(1, 1), args, comm)]
    BY <1>1 DEF EventsAt
  <2>3. clock \in Nat
    BY DEF EnricherInit
  <2>4. ASSUME NEW t \in 1 .. clock, NEW s \in {0, 1},
               e = [kind |-> "other", task |-> t, start |-> s,
                    field |-> Carrying(Empty, Empty, Empty)]
        PROVE  Starts(e)
    BY <2>1, <2>3, <2>4
  <2>5. ASSUME NEW s \in {0, 1}, NEW args \in {Empty, Value(1, 1)},
               NEW comm \in {Empty, Value(1, 1)},
               e = [kind |-> "exec", task |-> 1, start |-> s,
                    field |-> Carrying(Value(1, 1), args, comm)]
        PROVE  Starts(e)
    BY <2>1, <2>5
  <2> QED
    BY <2>2, <2>4, <2>5
<1>3. /\ event \in [kind : {"exec", "other"}, task : Nat \ {0}, start : Nat, field : Fields]
      /\ event.start \in {0, event.task} /\ event.field = e.field /\ event.kind = e.kind
  BY <1>1, <1>2
<1>4. EnricherTypes /\ History
  BY <1>3 DEF EnricherInit, EnricherTypes, History
<1> QED
  BY <1>2, <1>3, <1>4 DEF EnricherInit, EnricherInv, Untouched, Guard, PathKept

(* The world goes on: nothing the enricher holds changes.                  *)
LEMMA WorldKeepsInv ==
  ASSUME EnricherInv, Tick \/ ExecsAgain \/ Dies \/ Reaped \/ IdReused \/ ParentReplaced
  PROVE  EnricherInv'
<1> USE EnricherAssumption
<1>1. EnricherTypes' /\ History' /\ UNCHANGED << event, trusted, checked, pc >>
  <2>1. CASE Tick
    BY <2>1 DEF EnricherInv, EnricherTypes, History, Tick, World
  <2>2. CASE ExecsAgain
    BY <2>2 DEF EnricherInv, EnricherTypes, History, ExecsAgain, World
  <2>3. CASE Dies
    BY <2>3 DEF EnricherInv, EnricherTypes, History, Dies, Zombie, World
  <2>4. CASE Reaped
    BY <2>4 DEF EnricherInv, EnricherTypes, History, Reaped, Zombie, Gone, World
  <2>5. CASE IdReused
    BY <2>5 DEF EnricherInv, EnricherTypes, History, IdReused, Gone, World
  <2>6. CASE ParentReplaced
    BY <2>6 DEF EnricherInv, EnricherTypes, History, ParentReplaced, World
  <2> QED
    BY <2>1, <2>2, <2>3, <2>4, <2>5, <2>6
<1>2. checked # 0 => started'[checked] = started[checked]
  BY DEF EnricherInv, EnricherTypes, Tick, ExecsAgain, Dies, Reaped, IdReused, ParentReplaced
<1> QED
  BY <1>1, <1>2 DEF EnricherInv, Untouched, Guard, PathKept, Near

LEMMA CheckKeepsInv == ASSUME EnricherInv, CheckStart PROVE EnricherInv'
<1>1. EnricherTypes' /\ History'
  <2>1. UNCHANGED << clock, owner, parentOwner, started, event >> /\ pc' = "exe"
    BY DEF CheckStart, Enriches
  <2>2. CASE event.start = 0 \/ StatStart = 0
    BY <2>1, <2>2 DEF EnricherInv, EnricherTypes, History, CheckStart
  <2>3. CASE ~(event.start = 0 \/ StatStart = 0)
    <3>1. checked' = owner.id /\ trusted' \in BOOLEAN
      BY <2>3 DEF CheckStart, SameStart, Near
    <3> QED
      BY <2>1, <3>1 DEF EnricherInv, EnricherTypes, History
  <2> QED
    BY <2>2, <2>3
<1>2. /\ pc' = "exe" /\ UNCHANGED << event, started >>
      /\ \A name \in ReadFields : event.field[name].id \in {0, 1}
  BY DEF EnricherInv, CheckStart, Enriches, Untouched
<1>3. Guard'
  <2>1. CASE event.start = 0 \/ StatStart = 0
    BY <1>2, <2>1 DEF EnricherInv, Untouched, Guard, CheckStart, Enriches
  <2>2. CASE ~(event.start = 0 \/ StatStart = 0)
    <3>1. /\ checked' = owner.id /\ checked' # 0
          /\ trusted' = Near(event.start, started[owner.id])
      BY <2>2 DEF EnricherInv, EnricherTypes, History, CheckStart, StatStart, SameStart
    <3>2. event.start = event.task
      BY <2>2 DEF EnricherInv, Untouched, CheckStart, Enriches
    <3> QED
      BY <1>2, <3>1, <3>2 DEF Guard, Near
  <2> QED
    BY <2>1, <2>2
<1> QED
  BY <1>1, <1>2, <1>3 DEF EnricherInv, Untouched, PathKept, CheckStart, Enriches

(* A read of a field after the guard: all that is known of the new event.  *)
LEMMA ReadKeepsInv ==
  ASSUME EnricherInv, pc # "check",
         UNCHANGED << clock, owner, parentOwner, started, trusted, checked >>,
         pc' \in {"cwd", "cmdline", "parent", "start", "done"},
         event' \in [kind : {"exec", "other"}, task : Nat \ {0}, start : Nat, field : Fields],
         event'.kind = event.kind, event'.task = event.task,
         checked # 0 => event'.start = event.start,
         ~trusted => \A name \in ReadFields : event'.field[name].id \in {0, 1},
         PathKept'
  PROVE  EnricherInv'
<1>1. EnricherTypes' /\ History'
  BY DEF EnricherInv, EnricherTypes, History
<1>2. Guard'
  BY DEF EnricherInv, Guard, Near
<1> QED
  BY <1>1, <1>2 DEF EnricherInv, Untouched

LEMMA ProcValue ==
  ASSUME EnricherTypes
  PROVE  /\ FromProc \in Values
         /\ FromProc = Empty \/ FromProc \in {Value(1, 1), Value(1, 2)} \/ FromProc.id > 1
BY DEF EnricherTypes, FromProc, Values, Value, Empty, Zombie, Gone

LEMMA ExeKeepsInv == ASSUME EnricherInv, ReadExe PROVE EnricherInv'
<1> DEFINE E == Fill("exec_path", FromProc)
<1>1. EnricherTypes /\ pc = "exe" /\ pc' = "cwd" /\ event' = WithFallback(E)
      /\ UNCHANGED << clock, owner, parentOwner, started, trusted, checked >>
  BY DEF EnricherInv, ReadExe, Enriches
<1>2. /\ E \in [kind : {"exec", "other"}, task : Nat \ {0}, start : Nat, field : Fields]
      /\ E.kind = event.kind /\ E.task = event.task /\ E.start = event.start
      /\ E.field.filename = event.field.filename /\ E.field.cwd = event.field.cwd
      /\ E.field.cmdline = event.field.cmdline
      /\ \/ E.field.exec_path = event.field.exec_path
         \/ trusted /\ event.field.exec_path = Empty /\ E.field.exec_path = FromProc
  <2>1. CASE trusted /\ event.field.exec_path = Empty
    <3>1. E = [event EXCEPT !.field["exec_path"] = FromProc]
      BY <2>1 DEF Fill
    <3>2. FromProc \in Values
      BY <1>1, ProcValue
    <3> DEFINE F == [event.field EXCEPT !["exec_path"] = FromProc]
    <3>3. /\ F \in Fields /\ F.exec_path = FromProc
          /\ F.filename = event.field.filename
          /\ F.cwd = event.field.cwd /\ F.cmdline = event.field.cmdline
      BY <1>1, <3>2 DEF EnricherTypes, Fields
    <3>4. E = [event EXCEPT !.field = F]
      BY <3>1
    <3> HIDE DEF E, F
    <3> QED
      BY <1>1, <2>1, <3>3, <3>4 DEF EnricherTypes
  <2>2. CASE ~(trusted /\ event.field.exec_path = Empty)
    <3>1. E = event
      BY <2>2 DEF Fill
    <3> HIDE DEF E
    <3> QED
      BY <1>1, <3>1 DEF EnricherTypes
  <2> QED
    BY <2>1, <2>2
<1> HIDE DEF E
<1>3. /\ event' \in [kind : {"exec", "other"}, task : Nat \ {0}, start : Nat, field : Fields]
      /\ event'.kind = event.kind /\ event'.task = event.task /\ event'.start = event.start
      /\ event'.field.cwd = event.field.cwd /\ event'.field.cmdline = event.field.cmdline
      /\ event'.field.exec_path =
           IF E.field.exec_path = Empty THEN event.field.filename ELSE E.field.exec_path
      /\ event'.field.filename =
           IF event.field.filename = Empty THEN event'.field.exec_path ELSE event.field.filename
  BY <1>1, <1>2 DEF WithFallback, Fields
<1>4. ~trusted => \A name \in ReadFields : event'.field[name].id \in {0, 1}
  BY <1>2, <1>3 DEF EnricherInv, Guard, ReadFields
<1>5. PathKept'
  <2> SUFFICES ASSUME event.kind = "exec"
               PROVE  /\ event'.field.filename = Value(1, 1)
                      /\ \/ event'.field.exec_path \in {Value(1, 1), Value(1, 2)}
                         \/ event'.field.exec_path.id > 1
    BY <1>1, <1>3 DEF PathKept
  <2>1. event.field.filename = Value(1, 1) /\ event.field.exec_path = Empty
    BY <1>1 DEF EnricherInv, PathKept
  <2>2. Value(1, 1) # Empty
    BY DEF Value, Empty
  <2> QED
    BY <1>1, <1>2, <1>3, <2>1, <2>2, ProcValue
<1> QED
  BY <1>1, <1>3, <1>4, <1>5, ReadKeepsInv

(* The other reads fill one field that PathKept does not speak of.             *)
LEMMA FieldKeepsInv ==
  ASSUME EnricherInv, pc \in {"cwd", "cmdline", "parent"},
         UNCHANGED << clock, owner, parentOwner, started, trusted, checked >>,
         pc' \in {"cmdline", "parent", "start"},
         NEW name \in {"cwd", "cmdline", "parent_comm"}, NEW value \in Values,
         event' = Fill(name, value)
  PROVE  EnricherInv'
<1>1. /\ event' \in [kind : {"exec", "other"}, task : Nat \ {0}, start : Nat, field : Fields]
      /\ event'.kind = event.kind /\ event'.task = event.task /\ event'.start = event.start
      /\ event'.field.filename = event.field.filename
      /\ event'.field.exec_path = event.field.exec_path
  <2>1. CASE name = "cwd"
    BY <2>1 DEF EnricherInv, EnricherTypes, Fields, Fill
  <2>2. CASE name = "cmdline"
    BY <2>2 DEF EnricherInv, EnricherTypes, Fields, Fill
  <2>3. CASE name = "parent_comm"
    BY <2>3 DEF EnricherInv, EnricherTypes, Fields, Fill
  <2> QED
    BY <2>1, <2>2, <2>3
<1>2. ~trusted => \A f \in ReadFields : event'.field[f].id \in {0, 1}
  BY DEF EnricherInv, Guard, Fill
<1>3. PathKept'
  BY <1>1 DEF EnricherInv, PathKept
<1> QED
  BY <1>1, <1>2, <1>3, ReadKeepsInv

LEMMA StartKeepsInv == ASSUME EnricherInv, FillStart PROVE EnricherInv'
<1>1. /\ pc = "start" /\ pc' = "done"
      /\ UNCHANGED << clock, owner, parentOwner, started, trusted, checked >>
  BY DEF FillStart, Enriches
<1>2. StatStart \in Nat
  BY DEF EnricherInv, EnricherTypes, StatStart
<1>3. /\ event' \in [kind : {"exec", "other"}, task : Nat \ {0}, start : Nat, field : Fields]
      /\ event'.kind = event.kind /\ event'.task = event.task /\ event'.field = event.field
      /\ checked # 0 => event'.start = event.start
  BY <1>2 DEF EnricherInv, EnricherTypes, Guard, FillStart
<1>4. PathKept' /\ (~trusted => \A name \in ReadFields : event'.field[name].id \in {0, 1})
  BY <1>1, <1>3 DEF EnricherInv, PathKept, Guard
<1> QED
  BY <1>1, <1>3, <1>4, ReadKeepsInv

THEOREM EnricherInvariant == EnricherSpec => []EnricherInv
<1>1. ASSUME EnricherInv, [EnricherNext]_enricherVars PROVE EnricherInv'
  <2>1. CASE Tick \/ ExecsAgain \/ Dies \/ Reaped \/ IdReused \/ ParentReplaced
    BY <1>1, <2>1, WorldKeepsInv
  <2>2. CASE CheckStart
    BY <1>1, <2>2, CheckKeepsInv
  <2>3. CASE ReadExe
    BY <1>1, <2>3, ExeKeepsInv
  <2>4. CASE ReadCwd
    BY <1>1, <2>4, FieldKeepsInv, ProcValue DEF EnricherInv, ReadCwd, Enriches
  <2>5. CASE ReadCmdline
    BY <1>1, <2>5, FieldKeepsInv, ProcValue DEF EnricherInv, ReadCmdline, Enriches
  <2>6. CASE ReadParentComm
    <3>1. Value(parentOwner, IF parentOwner = 0 THEN 0 ELSE 1) \in Values
      BY <1>1 DEF EnricherInv, EnricherTypes, Values, Value
    <3> QED
      BY <1>1, <2>6, <3>1, FieldKeepsInv DEF ReadParentComm, Enriches
  <2>7. CASE FillStart
    BY <1>1, <2>7, StartKeepsInv
  <2>8. CASE UNCHANGED enricherVars
    BY <1>1, <2>8 DEF enricherVars, EnricherInv, EnricherTypes, History, Untouched, Guard, PathKept, Near
  <2> QED
    BY <1>1, <2>1, <2>2, <2>3, <2>4, <2>5, <2>6, <2>7, <2>8 DEF EnricherNext
<1> QED
  BY <1>1, EnricherInitInv, PTL DEF EnricherSpec

(* Foreign data is never accepted from a process whose start the guard     *)
(* compared and found different (enricher.cpp:145-164).                    *)
THEOREM ForeignDataIsExplained == EnricherSpec => []ForeignDataExplained
<1>1. EnricherInv => ForeignDataExplained
  BY DEF EnricherInv, Guard, ForeignDataExplained, ReadFields
<1> QED
  BY <1>1, EnricherInvariant, PTL

(* No exec event loses its path, and filename is the executed one          *)
(* (enricher.cpp:166-184).                                                 *)
THEOREM ExecPathIsExplained == EnricherSpec => []ExecPathExplained
<1>1. EnricherInv => ExecPathExplained
  BY DEF EnricherInv, PathKept, ExecPathExplained, Value, Empty
<1> QED
  BY <1>1, EnricherInvariant, PTL

(* The guard refuses no event of the leader while its process has the id   *)
(* (enricher.cpp:152-164).                                                 *)
THEOREM RefusalIsExplained == EnricherSpec => []RefusalExplained
<1>1. EnricherInv => RefusalExplained
  BY DEF EnricherInv, EnricherTypes, History, Guard, RefusalExplained, Near
<1> QED
  BY <1>1, EnricherInvariant, PTL

-----------------------------------------------------------------------------
(* The decoder of DNS.  A message is what it says, put together piece by   *)
(* piece; a buffer holds the pieces as far as it reaches.                  *)
Texts == Seq(Nat)
Results == [ok : BOOLEAN, name : Texts, pos : Nat]
Tails == [Nat -> Texts]
Parses == [Nat -> Results]
Buffers == { p \in Seq(Nat) : Len(p) <= 128 }

(* A byte of a buffer, and what is beyond it. *)
LEMMA AtIs ==
  ASSUME NEW p \in Texts, NEW i \in Nat
  PROVE  /\ Len(p) \in Nat
         /\ i < Len(p) => At(p, i) = p[i + 1] /\ At(p, i) \in Nat
         /\ i >= Len(p) => At(p, i) = Beyond /\ Beyond = -1
<1>1. Len(p) \in Nat /\ \A j \in 1 .. Len(p) : p[j] \in Nat
  BY DEF Texts
<1>2. i < Len(p) => i + 1 \in 1 .. Len(p)
  BY <1>1
<1> QED
  BY <1>1, <1>2 DEF At, Beyond

(* A piece of a buffer. *)
LEMMA SliceIs ==
  ASSUME NEW p \in Texts, NEW from \in Nat, NEW length \in Nat, from + length <= Len(p)
  PROVE  /\ Slice(p, from, length) \in Texts /\ Len(Slice(p, from, length)) = length
         /\ \A i \in 1 .. length : Slice(p, from, length)[i] = At(p, from + i - 1)
<1>1. ASSUME NEW i \in 1 .. length PROVE At(p, from + i - 1) \in Nat
  <2>1. from + i - 1 \in Nat /\ from + i - 1 < Len(p)
    BY AtIs
  <2> QED
    BY <2>1, AtIs
<1> QED
  BY <1>1 DEF Slice, Texts

(* Names are joined to a name. *)
LEMMA JoinedIs ==
  ASSUME NEW name \in Texts, NEW more \in Texts PROVE Joined(name, more) \in Texts
<1>1. Append(name, Dot) \in Texts
  BY DEF Texts, Dot
<1> QED
  BY <1>1 DEF Joined, Texts

(* A step of the parser. *)
TypedAfter(f, pos) == \A q \in Nat : q > pos => f[q] \in Results

LEMMA ByteIs ==
  ASSUME NEW b, b \in Nat \/ b = -1
  PROVE  /\ b \in 1 .. 63 <=> b \in Nat /\ b >= 1 /\ b <= 63
         /\ b >= 192 => b \in Nat
         /\ b = -1 => ~ (b >= 192) /\ b \notin Nat
         /\ b = 0 => b \notin 1 .. 63 /\ ~ (b >= 192)
         /\ b \in 1 .. 63 => ~ (b >= 192)
<1>1. b \in Int /\ b >= -1
  OBVIOUS
<1> QED
  BY <1>1

LEMMA LabelAtCases ==
  ASSUME NEW p \in Texts, NEW tails, NEW f, NEW pos \in Nat, NEW b, b = At(p, pos)
  PROVE  /\ b = 0 => LabelAt(p, tails, f, pos) = Parsed(<< >>, pos + 1)
         /\ b \in 1 .. 63 /\ pos + 1 + b <= Len(p) =>
              /\ b \in Nat /\ b >= 1 /\ pos + 1 + b \in Nat /\ pos + 1 + b > pos
              /\ LabelAt(p, tails, f, pos) =
                   IF f[pos + 1 + b].ok
                   THEN Parsed(Joined(Slice(p, pos + 1, b), f[pos + 1 + b].name), f[pos + 1 + b].pos)
                   ELSE f[pos + 1 + b]
         /\ b \in 1 .. 63 /\ pos + 1 + b > Len(p) => LabelAt(p, tails, f, pos) = Malformed(pos + 1)
         /\ b >= 192 /\ pos + 1 < Len(p) =>
              LabelAt(p, tails, f, pos) = Parsed(tails[Word(p, pos) % 16384], pos + 2)
         /\ b # 0 /\ b \notin 1 .. 63 /\ ~ (b >= 192 /\ pos + 1 < Len(p)) =>
              LabelAt(p, tails, f, pos) = Malformed(pos)
<1>1. b \in Nat \/ b = -1
  BY AtIs
<1>2. Len(p) \in Nat
  BY AtIs
<1>3. CASE b = 0
  BY <1>1, <1>3, ByteIs DEF LabelAt
<1>4. CASE b \in 1 .. 63
  <2>1. b \in Nat /\ b >= 1 /\ b # 0 /\ ~ (b >= 192)
    BY <1>1, <1>4, ByteIs
  <2>2. pos + 1 + b \in Nat /\ pos + 1 + b > pos
    BY <2>1
  <2>3. CASE pos + 1 + b <= Len(p)
    BY <1>2, <1>4, <2>1, <2>2, <2>3 DEF LabelAt
  <2>4. CASE pos + 1 + b > Len(p)
    BY <1>2, <1>4, <2>1, <2>2, <2>4 DEF LabelAt
  <2> QED
    BY <1>2, <1>4, <2>1, <2>2, <2>3, <2>4
<1>5. CASE b # 0 /\ b \notin 1 .. 63
  BY <1>5 DEF LabelAt
<1> QED
  BY <1>3, <1>4, <1>5

(* The same, a case at a time. *)
LEMMA NameEndsAt ==
  ASSUME NEW p \in Texts, NEW tails, NEW f, NEW pos \in Nat, At(p, pos) = 0
  PROVE  LabelAt(p, tails, f, pos) = Parsed(<< >>, pos + 1)
BY LabelAtCases

LEMMA GoesOnAt ==
  ASSUME NEW p \in Texts, NEW tails, NEW f, NEW pos \in Nat,
         At(p, pos) \in 1 .. 63, pos + 1 + At(p, pos) <= Len(p)
  PROVE  LabelAt(p, tails, f, pos) =
           IF f[pos + 1 + At(p, pos)].ok
           THEN Parsed(Joined(Slice(p, pos + 1, At(p, pos)), f[pos + 1 + At(p, pos)].name),
                       f[pos + 1 + At(p, pos)].pos)
           ELSE f[pos + 1 + At(p, pos)]
BY LabelAtCases

LEMMA NothingAt ==
  ASSUME NEW p \in Texts, NEW tails, NEW f, NEW pos \in Nat,
         At(p, pos) # 0, At(p, pos) \notin 1 .. 63, ~ (At(p, pos) >= 192 /\ pos + 1 < Len(p))
  PROVE  LabelAt(p, tails, f, pos) = Malformed(pos)
BY DEF LabelAt

LEMMA NoNameAt ==
  ASSUME NEW p \in Texts, NEW tails, NEW f, NEW pos \in Nat, At(p, pos) = -1
  PROVE  LabelAt(p, tails, f, pos).name = << >>
<1> DEFINE byte == At(p, pos)
<1>1. byte = -1
  OBVIOUS
<1> HIDE DEF byte
<1>2. byte # 0 /\ byte \notin 1 .. 63 /\ ~ (byte >= 192)
  BY <1>1
<1>3. LabelAt(p, tails, f, pos) = Malformed(pos)
  BY <1>2, NothingAt DEF byte
<1> QED
  BY <1>3 DEF Malformed

(* What the parser returns. *)
LEMMA ResultsAre ==
  ASSUME NEW name \in Texts, NEW pos \in Nat
  PROVE  /\ Parsed(name, pos) \in Results /\ Malformed(pos) \in Results /\ << >> \in Texts
         /\ Parsed(name, pos).name = name /\ Parsed(name, pos).pos = pos /\ Parsed(name, pos).ok
         /\ Malformed(pos).name = << >> /\ Malformed(pos).pos = pos /\ ~ Malformed(pos).ok
<1>1. << >> \in Texts
  BY DEF Texts
<1> QED
  BY <1>1 DEF Parsed, Malformed, Results

(* Beyond the buffer there is nothing. *)
LEMMA LabelAtEnd ==
  ASSUME NEW p \in Texts, NEW tails, NEW f, NEW pos \in Nat, pos >= Len(p)
  PROVE  LabelAt(p, tails, f, pos) = Malformed(pos)
<1>1. At(p, pos) = -1
  BY AtIs
<1>2. At(p, pos) # 0 /\ At(p, pos) \notin 1 .. 63 /\ ~ (At(p, pos) >= 192)
  BY <1>1, ByteIs
<1> QED
  BY <1>2, NothingAt

LEMMA LabelAtType ==
  ASSUME NEW p \in Texts, NEW tails \in Tails, NEW f, NEW pos \in Nat, TypedAfter(f, pos)
  PROVE  LabelAt(p, tails, f, pos) \in Results
<1>0. << >> \in Texts /\ Len(p) \in Nat
  BY AtIs DEF Texts
<1>1. PICK b : b = At(p, pos)
  OBVIOUS
<1>2. b \in Nat \/ b = -1
  BY <1>1, AtIs
<1>3. CASE b = 0
  <2>1. LabelAt(p, tails, f, pos) = Parsed(<< >>, pos + 1)
    BY <1>1, <1>3, NameEndsAt
  <2> QED
    BY <1>0, <2>1, ResultsAre
<1>4. CASE b \in 1 .. 63 /\ pos + 1 + b <= Len(p)
  <2>0. b \in Nat /\ pos + 1 + b \in Nat /\ pos + 1 + b > pos
    BY <1>4
  <2>1. /\ b \in Nat /\ pos + 1 + b \in Nat /\ pos + 1 + b > pos
        /\ LabelAt(p, tails, f, pos) =
             IF f[pos + 1 + b].ok
             THEN Parsed(Joined(Slice(p, pos + 1, b), f[pos + 1 + b].name), f[pos + 1 + b].pos)
             ELSE f[pos + 1 + b]
    BY <1>1, <1>4, <2>0, GoesOnAt
  <2>2. f[pos + 1 + b] \in Results
    BY <2>1 DEF TypedAfter
  <2>3. Slice(p, pos + 1, b) \in Texts
    BY <1>4, <2>1, SliceIs
  <2>4. Joined(Slice(p, pos + 1, b), f[pos + 1 + b].name) \in Texts
    BY <2>2, <2>3, JoinedIs DEF Results
  <2> QED
    BY <2>1, <2>2, <2>4 DEF Parsed, Results
<1>5. CASE b \in 1 .. 63 /\ pos + 1 + b > Len(p)
  <2>1. LabelAt(p, tails, f, pos) = Malformed(pos + 1)
    BY <1>1, <1>5, LabelAtCases
  <2> QED
    BY <1>0, <2>1, ResultsAre
<1>6. CASE b >= 192 /\ pos + 1 < Len(p)
  <2>1. Word(p, pos) \in Nat
    BY <1>0, <1>1, <1>6, AtIs DEF Word
  <2>2. tails[Word(p, pos) % 16384] \in Texts
    BY <2>1 DEF Tails
  <2> QED
    <3>1. LabelAt(p, tails, f, pos) = Parsed(tails[Word(p, pos) % 16384], pos + 2)
      BY <1>1, <1>6, LabelAtCases
    <3> QED
      BY <1>0, <2>2, <3>1, ResultsAre
<1>7. CASE b # 0 /\ b \notin 1 .. 63 /\ ~ (b >= 192 /\ pos + 1 < Len(p))
  <2>1. LabelAt(p, tails, f, pos) = Malformed(pos)
    BY <1>1, <1>7, NothingAt
  <2> QED
    BY <1>0, <2>1, ResultsAre
<1>8. b \in 1 .. 63 => pos + 1 + b <= Len(p) \/ pos + 1 + b > Len(p)
  BY <1>0
<1> QED
  BY <1>3, <1>4, <1>5, <1>6, <1>7, <1>8

(* It depends on what is made of later positions only. *)
LEMMA LabelAtDepends ==
  ASSUME NEW p \in Texts, NEW tails, NEW f, NEW g, NEW pos \in Nat,
         \A q \in Nat : q > pos => f[q] = g[q]
  PROVE  LabelAt(p, tails, f, pos) = LabelAt(p, tails, g, pos)
<1>1. CASE At(p, pos) \in 1 .. 63
  <2>1. f[pos + 1 + At(p, pos)] = g[pos + 1 + At(p, pos)]
    BY <1>1
  <2> QED
    BY <2>1 DEF LabelAt
<1>2. CASE At(p, pos) \notin 1 .. 63
  BY <1>2 DEF LabelAt
<1> QED
  BY <1>1, <1>2

(* The parser's recursion ends: each step goes on to a later position. *)
LEMMA LabelsAre ==
  ASSUME NEW p \in Texts, NEW tails \in Tails
  PROVE  /\ LabelsFrom(p, tails) \in Parses
         /\ \A pos \in Nat : LabelsFrom(p, tails)[pos] = LabelAt(p, tails, LabelsFrom(p, tails), pos)
<1> DEFINE Is(f, n) ==
             \A pos \in Nat : pos + n >= Len(p) => f[pos] = LabelAt(p, tails, f, pos)
           Done == { n \in Nat : \E f \in Parses : Is(f, n) }
<1>0. << >> \in Texts /\ Len(p) \in Nat
  BY AtIs DEF Texts
<1>1. 0 \in Done
  <2> DEFINE f == [pos \in Nat |-> Malformed(pos)]
  <2>1. f \in Parses
    BY <1>0 DEF Malformed, Parses, Results
  <2>2. ASSUME NEW pos \in Nat, pos + 0 >= Len(p) PROVE f[pos] = LabelAt(p, tails, f, pos)
    BY <1>0, <2>2, LabelAtEnd
  <2> HIDE DEF f
  <2> QED
    BY <2>1, <2>2
<1>2. ASSUME NEW n \in Nat, n \in Done PROVE n + 1 \in Done
  <2>1. PICK f \in Parses : Is(f, n)
    BY <1>2
  <2> DEFINE g == [pos \in Nat |-> IF pos + n >= Len(p) THEN f[pos] ELSE LabelAt(p, tails, f, pos)]
  <2>2. g \in Parses
    <3>1. ASSUME NEW pos \in Nat PROVE g[pos] \in Results
      <4>1. TypedAfter(f, pos)
        BY <2>1 DEF Parses, TypedAfter
      <4> QED
        BY <2>1, <4>1, LabelAtType DEF Parses
    <3> QED
      BY <3>1 DEF Parses
  <2>3. ASSUME NEW pos \in Nat, pos + (n + 1) >= Len(p)
        PROVE  g[pos] = LabelAt(p, tails, g, pos)
    <3>1. ASSUME NEW q \in Nat, q > pos PROVE f[q] = g[q]
      BY <1>0, <2>3, <3>1
    <3>2. LabelAt(p, tails, g, pos) = LabelAt(p, tails, f, pos)
      <4> HIDE DEF g
      <4> QED
        BY <2>2, <3>1, LabelAtDepends
    <3>3. g[pos] = LabelAt(p, tails, f, pos)
      BY <2>1
    <3> QED
      BY <3>2, <3>3
  <2> HIDE DEF g
  <2> QED
    BY <2>2, <2>3
<1>3. Len(p) \in Done
  <2> HIDE DEF Done
  <2> QED
    BY <1>0, <1>1, <1>2, Induction
<1>4. PICK f \in Parses : Is(f, Len(p))
  BY <1>3
<1>5. f = [pos \in Nat |-> LabelAt(p, tails, f, pos)]
  <2>1. \A pos \in Nat : f[pos] = LabelAt(p, tails, f, pos)
    BY <1>0, <1>4
  <2> QED
    BY <2>1 DEF Parses
<1>6. LabelsFrom(p, tails) = CHOOSE g : g = [pos \in Nat |-> LabelAt(p, tails, g, pos)]
  BY DEF LabelsFrom
<1> DEFINE L == LabelsFrom(p, tails)
<1>7. L = [pos \in Nat |-> LabelAt(p, tails, L, pos)]
  BY <1>5, <1>6
<1> HIDE DEF L
<1>8. \A pos \in Nat : L[pos] = LabelAt(p, tails, L, pos)
  BY <1>7
<1>9. L \in Parses
  <2> DEFINE Typed == { n \in Nat : \A pos \in Nat : pos + n >= Len(p) => L[pos] \in Results }
  <2>1. ASSUME NEW pos \in Nat, pos >= Len(p) PROVE L[pos] \in Results
    BY <1>0, <1>8, <2>1, LabelAtEnd, ResultsAre
  <2>2. ASSUME NEW n \in Typed PROVE n + 1 \in Typed
    <3>1. ASSUME NEW pos \in Nat, pos + (n + 1) >= Len(p) PROVE L[pos] \in Results
      <4>1. TypedAfter(L, pos)
        BY <1>0, <3>1 DEF TypedAfter
      <4> QED
        BY <1>8, <4>1, LabelAtType
    <3> QED
      BY <3>1
  <2>3. 0 \in Typed /\ \A n \in Nat : n \in Typed => n + 1 \in Typed
    BY <1>0, <2>1, <2>2
  <2> HIDE DEF Typed
  <2>4. Len(p) \in Typed
    BY <1>0, <2>3, Induction
  <2>5. \A pos \in Nat : L[pos] \in Results
    BY <1>0, <2>4 DEF Typed
  <2> QED
    BY <1>7, <2>5 DEF Parses
<1> QED
  BY <1>8, <1>9 DEF L

(* The names of a buffer, from how often pointers may lead to pointers.    *)
TailsOf(p, left) == [pos \in Nat |-> IF left = 0 THEN << >> ELSE NamesFrom(p)[left - 1][pos].name]

LEMMA NamesAre ==
  ASSUME NEW p \in Texts
  PROVE  \A left \in 0 .. 16 :
           /\ NamesFrom(p)[left] \in Parses /\ TailsOf(p, left) \in Tails
           /\ NamesFrom(p)[left] = LabelsFrom(p, TailsOf(p, left))
<1> DEFINE none == [pos \in Nat |-> << >>]
           names(parse) == [pos \in Nat |-> parse[pos].name]
           x0 == LabelsFrom(p, none)
           s == [parse \in Parses |-> LabelsFrom(p, names(parse))]
<1>1. none \in Tails /\ x0 \in Parses
  <2>1. none \in Tails
    BY DEF Tails, Texts
  <2> QED
    BY <2>1, LabelsAre
<1>2. ASSUME NEW parse \in Parses PROVE names(parse) \in Tails /\ LabelsFrom(p, names(parse)) \in Parses
  <2>1. \A pos \in Nat : parse[pos].name \in Texts
    BY DEF Parses, Results
  <2>2. names(parse) \in Tails
    BY <2>1 DEF Tails
  <2> HIDE DEF names
  <2> QED
    BY <2>2, LabelsAre
<1> HIDE DEF none, names
<1>3. s \in [Parses -> Parses]
  BY <1>2
<1>4. PICK f \in [0 .. 16 -> Parses] : Iterates(f, x0, s, 16)
  <2> HIDE DEF x0, s
  <2> QED
    BY <1>1, <1>3, Iterated
<1> DEFINE Step(g, left) == IF left = 0 THEN LabelsFrom(p, none) ELSE LabelsFrom(p, names(g[left - 1]))
<1>5. f = [left \in 0 .. 16 |-> Step(f, left)]
  <2>1. ASSUME NEW left \in 0 .. 16 PROVE f[left] = Step(f, left)
    <3>1. f[left] = IF left = 0 THEN x0 ELSE s[f[left - 1]]
      BY <1>4 DEF Iterates
    <3>2. left # 0 => f[left - 1] \in Parses
      <4>1. left # 0 => left - 1 \in 0 .. 16
        OBVIOUS
      <4> QED
        BY <4>1
    <3> QED
      BY <3>1, <3>2
  <2> HIDE DEF Step
  <2> QED
    BY <2>1
<1> DEFINE N == NamesFrom(p)
<1>6. N = CHOOSE g : g = [left \in 0 .. 16 |-> Step(g, left)]
  BY DEF NamesFrom, none, names
<1> HIDE DEF Step, N
<1>7. N = [left \in 0 .. 16 |-> Step(N, left)]
  BY <1>5, <1>6
<1>8. \A left \in 0 .. 16 : N[left] = Step(N, left)
  BY <1>7
<1> DEFINE Typed == { n \in Nat : n <= 16 => N[n] \in Parses }
<1>9. 0 \in Typed
  BY <1>1, <1>8 DEF Step
<1>10. ASSUME NEW n \in Nat, n \in Typed PROVE n + 1 \in Typed
  <2>1. CASE n + 1 <= 16
    <3>1. n + 1 \in 0 .. 16 /\ n + 1 # 0 /\ n + 1 - 1 = n /\ N[n] \in Parses
      BY <1>10, <2>1
    <3>2. N[n + 1] = LabelsFrom(p, names(N[n]))
      BY <1>8, <3>1 DEF Step
    <3> QED
      BY <1>2, <3>1, <3>2
  <2> QED
    BY <2>1
<1>11. \A n \in Nat : n \in Typed
  <2> HIDE DEF Typed
  <2> QED
    BY <1>9, <1>10, Induction
<1>12. \A n \in 0 .. 16 : N[n] \in Parses
  BY <1>11
<1>13. ASSUME NEW left \in 0 .. 16
       PROVE  N[left] \in Parses /\ TailsOf(p, left) \in Tails /\ N[left] = LabelsFrom(p, TailsOf(p, left))
  <2>1. CASE left = 0
    <3>1. TailsOf(p, left) = none
      BY <2>1 DEF TailsOf, none
    <3> QED
      BY <1>1, <1>8, <1>12, <2>1, <3>1 DEF Step
  <2>2. CASE left # 0
    <3>1. left - 1 \in 0 .. 16 /\ N[left - 1] \in Parses
      BY <1>12, <2>2
    <3>2. TailsOf(p, left) = names(N[left - 1])
      BY <2>2 DEF TailsOf, names, N
    <3> QED
      BY <1>2, <1>8, <1>12, <2>2, <3>1, <3>2 DEF Step
  <2> QED
    BY <2>1, <2>2
<1> QED
  BY <1>13 DEF N

(* What holds of the ends of names and is kept by one more label holds of  *)
(* all names with these ends.                                              *)
LEMMA SpelledInduction ==
  ASSUME NEW ends, NEW S, ends \subseteq S,
         \A label \in HostLabels, name \in S : Labelled(label, name) \in S
  PROVE  Spelled(ends) \subseteq S
<1> DEFINE More(names) == names \union { Labelled(label, name) : label \in HostLabels, name \in names }
           Step(g, n) == IF n = 0 THEN ends ELSE More(g[n - 1])
           s == [names \in SUBSET S |-> More(names)]
<1>0. MaxLabels \in Nat
  BY DecoderAssumption
<1>1. ASSUME NEW names \in SUBSET S PROVE More(names) \in SUBSET S
  OBVIOUS
<1>2. s \in [SUBSET S -> SUBSET S]
  BY <1>1
<1> HIDE DEF More
<1>3. PICK f \in [0 .. MaxLabels -> SUBSET S] : Iterates(f, ends, s, MaxLabels)
  <2> HIDE DEF s
  <2> QED
    BY <1>0, <1>2, Iterated
<1>4. f = [n \in 0 .. MaxLabels |-> Step(f, n)]
  <2>1. ASSUME NEW n \in 0 .. MaxLabels PROVE f[n] = Step(f, n)
    <3>1. f[n] = IF n = 0 THEN ends ELSE s[f[n - 1]]
      BY <1>3 DEF Iterates
    <3>2. n # 0 => f[n - 1] \in SUBSET S
      <4>1. n # 0 => n - 1 \in 0 .. MaxLabels
        BY <1>0
      <4> QED
        BY <4>1
    <3> QED
      BY <3>1, <3>2
  <2> HIDE DEF Step
  <2> QED
    BY <2>1
<1> DEFINE U == CHOOSE g : g = [n \in 0 .. MaxLabels |-> Step(g, n)]
<1>5. Spelled(ends) = U[MaxLabels]
  BY DEF Spelled, More
<1>6. U = [n \in 0 .. MaxLabels |-> Step(U, n)]
  <2> HIDE DEF Step
  <2> QED
    BY <1>4
<1> HIDE DEF U
<1>7. \A n \in 0 .. MaxLabels : U[n] = Step(U, n)
  <2> HIDE DEF Step
  <2> QED
    BY <1>6
<1> DEFINE Within == { n \in Nat : n <= MaxLabels => U[n] \in SUBSET S }
<1>8. 0 \in Within
  BY <1>0, <1>7
<1>9. ASSUME NEW n \in Nat, n \in Within PROVE n + 1 \in Within
  <2>1. CASE n + 1 <= MaxLabels
    <3>1. n + 1 \in 0 .. MaxLabels /\ n + 1 # 0 /\ n + 1 - 1 = n /\ U[n] \in SUBSET S
      BY <1>0, <1>9, <2>1
    <3>2. U[n + 1] = More(U[n])
      BY <1>7, <3>1
    <3> QED
      BY <1>1, <3>1, <3>2
  <2> QED
    BY <2>1
<1>10. MaxLabels \in Within
  <2> HIDE DEF Within
  <2> QED
    BY <1>0, <1>8, <1>9, Induction
<1> QED
  BY <1>0, <1>5, <1>10

-----------------------------------------------------------------------------
(* A piece of a message lies in a buffer from an offset on, or what of it  *)
(* was captured does.                                                      *)
Lies(s, p, a) == \A i \in 1 .. Len(s) : a + i <= Len(p) => At(p, a + i - 1) = s[i]

LEMMA ConcatIs ==
  ASSUME NEW s \in Texts, NEW t \in Texts
  PROVE  /\ s \o t \in Texts /\ Len(s \o t) = Len(s) + Len(t) /\ Len(s) \in Nat /\ Len(t) \in Nat
         /\ \A i \in 1 .. Len(s) : (s \o t)[i] = s[i]
         /\ \A i \in 1 .. Len(t) : (s \o t)[Len(s) + i] = t[i]
BY DEF Texts

LEMMA LiesApart ==
  ASSUME NEW s \in Texts, NEW t \in Texts, NEW p \in Texts, NEW a \in Nat, Lies(s \o t, p, a)
  PROVE  Lies(s, p, a) /\ Lies(t, p, a + Len(s))
<1>1. /\ Len(s \o t) = Len(s) + Len(t) /\ Len(s) \in Nat /\ Len(t) \in Nat
      /\ \A i \in 1 .. Len(s) : (s \o t)[i] = s[i]
      /\ \A i \in 1 .. Len(t) : (s \o t)[Len(s) + i] = t[i]
  BY ConcatIs
<1>2. Lies(s, p, a)
  BY <1>1 DEF Lies
<1>3. ASSUME NEW i \in 1 .. Len(t), a + Len(s) + i <= Len(p)
      PROVE  At(p, a + Len(s) + i - 1) = t[i]
  <2>1. Len(s) + i \in 1 .. Len(s \o t) /\ a + (Len(s) + i) <= Len(p)
    BY <1>1, <1>3
  <2>2. At(p, a + (Len(s) + i) - 1) = (s \o t)[Len(s) + i]
    BY <2>1 DEF Lies
  <2>3. a + (Len(s) + i) - 1 = a + Len(s) + i - 1
    BY <1>1
  <2> QED
    BY <1>1, <2>2, <2>3
<1> QED
  BY <1>2, <1>3 DEF Lies

LEMMA LabelIs ==
  ASSUME NEW label \in HostLabels
  PROVE  /\ label \in Texts /\ Len(label) \in Nat /\ Len(label) >= 1 /\ Len(label) <= 63
         /\ \A i \in 1 .. Len(label) : label[i] \in Nat /\ label[i] >= 1
         /\ << Len(label) >> \in Texts /\ Len(<< Len(label) >>) = 1 /\ << Len(label) >>[1] = Len(label)
<1>1. label \in Seq(1 .. 255) /\ Len(label) \in 1 .. 63
  BY DecoderAssumption
<1> DEFINE bytes == 1 .. 255
           length == Len(label)
<1>2. \A b \in bytes : b \in Nat /\ b >= 1
  OBVIOUS
<1>a. bytes \subseteq Nat
  OBVIOUS
<1>b. \A n \in 1 .. 63 : n \in Nat /\ n >= 1 /\ n <= 63
  OBVIOUS
<1> HIDE DEF bytes, length
<1>3. label \in Seq(bytes) /\ length \in 1 .. 63
  BY <1>1 DEF bytes, length
<1>4. length \in Nat /\ length >= 1 /\ length <= 63
  BY <1>b, <1>3
<1>c. \A i \in 1 .. Len(label) : label[i] \in bytes
  BY <1>3
<1>5. \A i \in 1 .. Len(label) : label[i] \in Nat /\ label[i] >= 1
  BY <1>2, <1>c
<1>6. label \in Texts
  BY <1>a, <1>3, SeqMonotonic DEF Texts
<1>7. << length >> \in Texts /\ Len(<< length >>) = 1 /\ << length >>[1] = length
  BY <1>4 DEF Texts
<1> QED
  BY <1>4, <1>5, <1>6, <1>7 DEF length

Writtens == [bytes : Texts, says : Texts]

LEMMA LabelledIs ==
  ASSUME NEW label \in HostLabels, NEW name \in Writtens
  PROVE  /\ Labelled(label, name) \in Writtens
         /\ Len(Labelled(label, name).bytes) = 1 + Len(label) + Len(name.bytes)
         /\ Labelled(label, name).bytes = (<< Len(label) >> \o label) \o name.bytes
         /\ Labelled(label, name).says = Joined(label, name.says)
<1>1. label \in Texts /\ << Len(label) >> \in Texts /\ Len(<< Len(label) >>) = 1
  BY LabelIs
<1>2. name.bytes \in Texts /\ name.says \in Texts
  BY DEF Writtens
<1>3. << Len(label) >> \o label \in Texts /\ Len(<< Len(label) >> \o label) = 1 + Len(label)
  BY <1>1, ConcatIs
<1>4. /\ (<< Len(label) >> \o label) \o name.bytes \in Texts
      /\ Len((<< Len(label) >> \o label) \o name.bytes) = 1 + Len(label) + Len(name.bytes)
  BY <1>2, <1>3, ConcatIs
<1>5. Joined(label, name.says) \in Texts
  BY <1>1, <1>2, JoinedIs
<1> QED
  BY <1>4, <1>5 DEF Labelled, Written, Writtens

(* A pointer into the captured bytes. *)
PointsTo(e, at, says) ==
  /\ e \in Writtens /\ e.says = says /\ Len(e.bytes) = 2 /\ e.bytes[1] \in Nat /\ e.bytes[1] >= 192
  /\ at <= 127 => e.bytes[1] = 192 /\ e.bytes[2] = at

LEMMA PointerIs ==
  ASSUME NEW at \in Nat, NEW says \in Texts
  PROVE  PointsTo(Pointer(at, says), at, says)
<1>1. at \div 256 \in Nat /\ at % 256 \in Nat /\ (at <= 127 => at \div 256 = 0 /\ at % 256 = at)
  OBVIOUS
<1>2. << 192 + (at \div 256), at % 256 >> \in Texts
  BY <1>1 DEF Texts
<1> QED
  BY <1>1, <1>2 DEF PointsTo, Pointer, Written, Writtens

LEMMA NameEndIs ==
  NameEnd \in Writtens /\ NameEnd.says = << >> /\ Len(NameEnd.bytes) = 1 /\ NameEnd.bytes[1] = 0
<1>1. << 0 >> \in Texts /\ << >> \in Texts
  BY DEF Texts
<1> QED
  BY <1>1 DEF NameEnd, Written, Writtens

(* Where an end of a name may be, and what the pointers among the ends are *)
(* read as.                                                                *)
AreEnds(ends) ==
  \A e \in ends : e = NameEnd \/ \E at \in Nat, says \in Texts : e = Pointer(at, says)
Resolved(ends, tails) ==
  \A e \in ends : e = NameEnd \/ \E at \in 0 .. 127, says \in Texts :
                                    e = Pointer(at, says) /\ tails[at] = says

(* The parser stops in a cut name so that the record it is in ends beyond  *)
(* the buffer.                                                             *)
GivesUp(p, result) ==
  /\ ~ result.ok /\ result.name = << >> /\ result.pos \in Nat
  /\ result.pos + 10 <= Len(p) => Word(p, result.pos + 8) > 128

ReadsAt(ends, p, tails, name, a) ==
  /\ a + Len(name.bytes) <= Len(p) /\ Resolved(ends, tails) =>
       LabelsFrom(p, tails)[a] = Parsed(name.says, a + Len(name.bytes))
  /\ a + Len(name.bytes) > Len(p) => GivesUp(p, LabelsFrom(p, tails)[a])

LEMMA GivesUpAt ==
  ASSUME NEW p \in Buffers, NEW pos \in Nat, pos + 10 > Len(p)
  PROVE  GivesUp(p, Malformed(pos))
BY DEF GivesUp, Malformed

(* An end of a name is read for what it is. *)
LEMMA EndIsRead ==
  ASSUME NEW ends, AreEnds(ends), NEW p \in Buffers, NEW tails \in Tails, NEW e \in ends,
         NEW a \in Nat, Lies(e.bytes, p, a)
  PROVE  ReadsAt(ends, p, tails, e, a)
<1> DEFINE L == LabelsFrom(p, tails)
<1>1. p \in Texts /\ Len(p) \in Nat /\ L[a] = LabelAt(p, tails, L, a)
  BY LabelsAre, AtIs DEF Buffers, Texts
<1>2. a >= Len(p) => GivesUp(p, L[a])
  BY <1>1, LabelAtEnd, GivesUpAt
<1>3. CASE e = NameEnd
  <2>1. Len(e.bytes) = 1 /\ e.bytes[1] = 0 /\ e.says = << >>
    BY <1>3, NameEndIs
  <2>2. CASE a + 1 <= Len(p)
    <3>1. At(p, a) = 0
      <4>1. 1 \in 1 .. Len(e.bytes) /\ a + 1 - 1 = a
        BY <2>1
      <4>2. At(p, a + 1 - 1) = e.bytes[1]
        BY <2>2, <4>1 DEF Lies
      <4> QED
        BY <2>1, <4>1, <4>2
    <3> QED
      BY <1>1, <2>1, <2>2, <3>1, NameEndsAt DEF ReadsAt
  <2>3. CASE a + 1 > Len(p)
    BY <1>1, <1>2, <2>1, <2>3 DEF ReadsAt
  <2> QED
    BY <1>1, <2>2, <2>3
<1>4. ASSUME NEW at \in Nat, NEW says \in Texts, e = Pointer(at, says) PROVE ReadsAt(ends, p, tails, e, a)
  <2>1. Len(e.bytes) = 2 /\ e.bytes[1] \in Nat /\ e.bytes[1] >= 192
    <3>1. PointsTo(e, at, says)
      BY <1>4, PointerIs
    <3> QED
      BY <3>1 DEF PointsTo
  <2>2. a < Len(p) => At(p, a) \in Nat /\ At(p, a) >= 192 /\ At(p, a) = e.bytes[1]
    <3>1. 1 \in 1 .. Len(e.bytes) /\ a + 1 - 1 = a
      BY <2>1
    <3>2. a < Len(p) => At(p, a + 1 - 1) = e.bytes[1]
      BY <1>1, <3>1 DEF Lies
    <3> QED
      BY <2>1, <3>1, <3>2
  <2>3. CASE a + 2 > Len(p)
    <3>1. a < Len(p) => L[a] = Malformed(a)
      <4>1. a < Len(p) => At(p, a) # 0 /\ At(p, a) \notin 1 .. 63
        BY <2>2, ByteIs
      <4>2. ~ (a + 1 < Len(p))
        BY <1>1, <2>3
      <4> HIDE DEF L
      <4> QED
        BY <1>1, <4>1, <4>2, NothingAt
    <3>2. a < Len(p) => GivesUp(p, L[a])
      BY <1>1, <2>3, <3>1, GivesUpAt
    <3> QED
      BY <1>1, <1>2, <2>1, <2>3, <3>2 DEF ReadsAt
  <2>4. CASE a + 2 <= Len(p) /\ Resolved(ends, tails)
    <3>0. e # NameEnd
      BY <2>1, NameEndIs
    <3>1. PICK to \in 0 .. 127, said \in Texts : e = Pointer(to, said) /\ tails[to] = said
      BY <2>4, <3>0 DEF Resolved
    <3>2. to \in Nat /\ to <= 127
      OBVIOUS
    <3>3. e.bytes[1] = 192 /\ e.bytes[2] = to /\ e.says = said
      <4>1. PointsTo(e, to, said)
        BY <3>1, <3>2, PointerIs
      <4> QED
        BY <3>2, <4>1 DEF PointsTo
    <3>4. At(p, a) = 192
      BY <1>1, <2>2, <2>4, <3>3
    <3>5. At(p, a + 1) = to
      <4>1. 2 \in 1 .. Len(e.bytes) /\ a + 2 - 1 = a + 1
        BY <2>1
      <4>2. At(p, a + 2 - 1) = e.bytes[2]
        BY <2>4, <4>1 DEF Lies
      <4> QED
        BY <3>3, <4>1, <4>2
    <3>6. Word(p, a) % 16384 = to
      <4>1. Word(p, a) = 49152 + to
        BY <3>2, <3>4, <3>5 DEF Word
      <4> QED
        BY <3>2, <4>1
    <3>7. LabelAt(p, tails, L, a) = Parsed(tails[Word(p, a) % 16384], a + 2)
      <4>1. At(p, a) >= 192 /\ a + 1 < Len(p)
        BY <1>1, <2>4, <3>4
      <4> HIDE DEF L
      <4> QED
        BY <1>1, <4>1, LabelAtCases
    <3>8. L[a] = Parsed(e.says, a + 2)
      BY <1>1, <3>1, <3>3, <3>6, <3>7
    <3> QED
      BY <1>1, <2>1, <2>4, <3>8 DEF ReadsAt
  <2> QED
    BY <1>1, <2>1, <2>3, <2>4 DEF ReadsAt
<1> QED
  BY <1>3, <1>4 DEF AreEnds

(* The bytes of a label are where it lies. *)
LEMMA LabelLies ==
  ASSUME NEW label \in HostLabels, NEW name \in Writtens, NEW p \in Texts, NEW a \in Nat,
         Lies(Labelled(label, name).bytes, p, a)
  PROVE  /\ a < Len(p) => At(p, a) = Len(label)
         /\ \A i \in 1 .. Len(label) : a + 1 + i <= Len(p) => At(p, a + i) = label[i]
         /\ Lies(name.bytes, p, a + 1 + Len(label))
<1> DEFINE one == << Len(label) >>
<1>1. /\ label \in Texts /\ Len(label) \in Nat /\ one \in Texts /\ Len(one) = 1 /\ one[1] = Len(label)
      /\ name.bytes \in Texts /\ Labelled(label, name).bytes = (one \o label) \o name.bytes
      /\ Len(p) \in Nat
  BY LabelIs, LabelledIs, AtIs DEF Writtens
<1> HIDE DEF one
<1>2. one \o label \in Texts /\ Len(one \o label) = 1 + Len(label)
  <2>1. one \o label \in Texts /\ Len(one \o label) = Len(one) + Len(label)
    BY <1>1, ConcatIs
  <2> QED
    BY <1>1, <2>1
<1>3. Lies(one \o label, p, a) /\ Lies(name.bytes, p, a + Len(one \o label))
  BY <1>1, <1>2, LiesApart
<1>4. Lies(one, p, a) /\ Lies(label, p, a + 1)
  BY <1>1, <1>3, LiesApart
<1>5. a < Len(p) => At(p, a) = Len(label)
  <2>1. 1 \in 1 .. Len(one) /\ a + 1 - 1 = a
    BY <1>1
  <2>2. a < Len(p) => At(p, a + 1 - 1) = one[1]
    BY <1>1, <1>4, <2>1 DEF Lies
  <2> QED
    BY <1>1, <2>1, <2>2
<1>6. ASSUME NEW i \in 1 .. Len(label), a + 1 + i <= Len(p) PROVE At(p, a + i) = label[i]
  <2>1. At(p, a + 1 + i - 1) = label[i]
    BY <1>4, <1>6 DEF Lies
  <2>2. a + 1 + i - 1 = a + i
    BY <1>1
  <2> QED
    BY <2>1, <2>2
<1>7. a + Len(one \o label) = a + 1 + Len(label)
  BY <1>1, <1>2
<1> QED
  BY <1>3, <1>5, <1>6, <1>7

(* A label is read, and then the rest of the name. *)
LEMMA LabelIsRead ==
  ASSUME NEW ends, NEW p \in Buffers, NEW tails \in Tails, NEW label \in HostLabels,
         NEW name \in Writtens, NEW a \in Nat, Lies(Labelled(label, name).bytes, p, a),
         ReadsAt(ends, p, tails, name, a + 1 + Len(label))
  PROVE  ReadsAt(ends, p, tails, Labelled(label, name), a)
<1> DEFINE L == LabelsFrom(p, tails)
           n == Len(label)
           next == a + 1 + n
           whole == Labelled(label, name)
           size == Len(p)
           length == Len(whole.bytes)
<1>1. p \in Texts /\ size \in Nat /\ size <= 128 /\ L \in Parses /\ L[a] = LabelAt(p, tails, L, a)
  BY LabelsAre, AtIs DEF Buffers, Texts
<1>2. n \in Nat /\ n >= 1 /\ n <= 63
  BY LabelIs
<1>b. label \in Texts /\ \A i \in 1 .. n : label[i] \in Nat /\ label[i] >= 1
  BY LabelIs
<1>3. /\ name.bytes \in Texts /\ Len(name.bytes) \in Nat
      /\ length = 1 + n + Len(name.bytes) /\ whole.says = Joined(label, name.says)
  BY LabelledIs, ConcatIs DEF Writtens
<1> DEFINE rest == Len(name.bytes)
<1> HIDE DEF length, size, rest
<1>n. size \in Nat /\ rest \in Nat /\ length \in Nat /\ a + length = next + rest /\ next = a + 1 + n
      /\ next \in Nat
  <2>1. size \in Nat /\ rest \in Nat /\ length = 1 + n + rest
    BY <1>1, <1>3 DEF size, rest, length
  <2> HIDE DEF n
  <2> QED
    BY <1>2, <2>1
<1>4. /\ a < size => At(p, a) = n
      /\ \A i \in 1 .. n : a + 1 + i <= size => At(p, a + i) = label[i]
  BY <1>1, LabelLies DEF size
<1> HIDE DEF L, n, whole, next
<1>5. CASE a >= size
  <2>1. GivesUp(p, L[a])
    BY <1>1, <1>5, LabelAtEnd, GivesUpAt DEF size
  <2>2. ~ (a + length <= size)
    BY <1>2, <1>n, <1>5
  <2> QED
    BY <2>1, <2>2 DEF ReadsAt, L, whole, size, length
<1>6. CASE a < size /\ next > size
  <2>1. n \in 1 .. 63 /\ At(p, a) = n
    BY <1>2, <1>4, <1>6
  <2>2. L[a] = Malformed(a + 1)
    <3>1. At(p, a) \in 1 .. 63 /\ a + 1 + At(p, a) > size
      BY <1>n, <1>6, <2>1
    <3> QED
      BY <1>1, <3>1, LabelAtCases DEF size
  <2>3. ASSUME a + 1 + 10 <= size PROVE Word(p, a + 1 + 8) > 128
    <3>1. 9 \in 1 .. n /\ 10 \in 1 .. n
      BY <1>2, <1>n, <1>6, <2>3
    <3>2. At(p, a + 9) = label[9] /\ At(p, a + 10) = label[10]
      BY <1>1, <1>4, <2>3, <3>1
    <3>3. label[9] \in Nat /\ label[9] >= 1 /\ label[10] \in Nat
      BY <1>b, <3>1
    <3>4. Word(p, a + 1 + 8) = 256 * label[9] + label[10]
      <4>1. a + 1 + 8 = a + 9 /\ a + 1 + 8 + 1 = a + 10
        OBVIOUS
      <4> QED
        BY <3>2, <4>1 DEF Word
    <3> QED
      BY <3>3, <3>4
  <2>4. GivesUp(p, L[a])
    BY <2>2, <2>3 DEF GivesUp, Malformed, size
  <2>5. ~ (a + length <= size)
    BY <1>2, <1>n, <1>6
  <2> QED
    BY <2>4, <2>5 DEF ReadsAt, L, whole, size, length
<1>7. CASE a < size /\ next <= size
  <2>1. n \in 1 .. 63 /\ At(p, a) = n
    BY <1>2, <1>4, <1>7
  <2>2. L[a] = IF L[next].ok THEN Parsed(Joined(Slice(p, a + 1, n), L[next].name), L[next].pos)
               ELSE L[next]
    <3>1. p \in Texts /\ n = At(p, a) /\ next = a + 1 + n /\ next <= Len(p)
      BY <1>1, <1>n, <1>7, <2>1 DEF size
    <3>2. LabelAt(p, tails, L, a) =
            IF L[next].ok THEN Parsed(Joined(Slice(p, a + 1, n), L[next].name), L[next].pos)
            ELSE L[next]
      <4>1. At(p, a) \in 1 .. 63 /\ a + 1 + At(p, a) <= Len(p)
        BY <2>1, <3>1
      <4>2. LabelAt(p, tails, L, a) =
              IF L[a + 1 + At(p, a)].ok
              THEN Parsed(Joined(Slice(p, a + 1, At(p, a)), L[a + 1 + At(p, a)].name),
                          L[a + 1 + At(p, a)].pos)
              ELSE L[a + 1 + At(p, a)]
        BY <3>1, <4>1, GoesOnAt
      <4> QED
        BY <3>1, <4>2
    <3> QED
      BY <1>1, <3>2
  <2>3. Slice(p, a + 1, n) = label
    <3>1. /\ Slice(p, a + 1, n) \in Texts /\ Len(Slice(p, a + 1, n)) = n
          /\ \A i \in 1 .. n : Slice(p, a + 1, n)[i] = At(p, a + 1 + i - 1)
      BY <1>1, <1>2, <1>n, <1>7, SliceIs DEF size
    <3>2. ASSUME NEW i \in 1 .. n PROVE Slice(p, a + 1, n)[i] = label[i]
      <4>1. a + 1 + i - 1 = a + i /\ a + 1 + i <= size
        <5>1. i \in Nat /\ i <= n
          BY <1>2
        <5> QED
          BY <1>2, <1>n, <1>7, <5>1
      <4> QED
        BY <1>4, <3>1, <4>1
    <3> QED
      BY <1>b, <3>1, <3>2, SeqEqual DEF Texts, n
  <2>4. CASE a + length > size
    <3>1. next + rest > size
      BY <1>n, <2>4
    <3>2. GivesUp(p, L[next])
      BY <3>1 DEF ReadsAt, L, n, next, size, length, rest
    <3>3. L[a] = L[next]
      BY <2>2, <3>2 DEF GivesUp
    <3>4. ~ (a + length <= size)
      BY <1>n, <2>4
    <3> QED
      BY <3>2, <3>3, <3>4 DEF ReadsAt, L, whole, size, length
  <2>5. CASE a + length <= size /\ Resolved(ends, tails)
    <3>1. next + rest = a + length
      BY <1>n
    <3>2. L[next] = Parsed(name.says, a + length)
      BY <2>5, <3>1 DEF ReadsAt, L, n, next, size, length, rest
    <3>3. L[a] = Parsed(whole.says, a + length)
      <4>1. L[next].ok /\ L[next].name = name.says /\ L[next].pos = a + length
        BY <3>2 DEF Parsed
      <4> QED
        BY <1>3, <2>2, <2>3, <4>1
    <3>4. ~ (a + length > size)
      BY <1>n, <2>5
    <3> QED
      BY <3>3, <3>4 DEF ReadsAt, L, whole, size, length
  <2>6. CASE a + length <= size /\ ~ Resolved(ends, tails)
    <3>1. ~ (a + length > size)
      BY <1>n, <2>6
    <3> QED
      BY <2>6, <3>1 DEF ReadsAt, L, whole, size, length
  <2> QED
    BY <1>n, <2>4, <2>5, <2>6
<1> QED
  BY <1>n, <1>5, <1>6, <1>7

(* A name is read for what it is, as far as it was captured. *)
LEMMA NameIsRead ==
  ASSUME NEW ends \in SUBSET Writtens, AreEnds(ends), NEW p \in Buffers, NEW tails \in Tails
  PROVE  \A name \in Spelled(ends) :
           /\ name \in Writtens
           /\ \A a \in Nat : Lies(name.bytes, p, a) => ReadsAt(ends, p, tails, name, a)
<1> DEFINE S == { name \in Writtens :
                    \A a \in Nat : Lies(name.bytes, p, a) => ReadsAt(ends, p, tails, name, a) }
<1>1. ends \subseteq S
  BY EndIsRead
<1>2. ASSUME NEW label \in HostLabels, NEW name \in S PROVE Labelled(label, name) \in S
  <2>1. name \in Writtens /\ Labelled(label, name) \in Writtens
    BY LabelledIs
  <2>2. ASSUME NEW a \in Nat, Lies(Labelled(label, name).bytes, p, a)
        PROVE  ReadsAt(ends, p, tails, Labelled(label, name), a)
    <3>1. Lies(name.bytes, p, a + 1 + Len(label)) /\ a + 1 + Len(label) \in Nat
      BY <2>1, <2>2, LabelLies, LabelIs DEF Buffers, Texts
    <3>2. ReadsAt(ends, p, tails, name, a + 1 + Len(label))
      BY <3>1
    <3> QED
      BY <2>1, <2>2, <3>2, LabelIsRead
  <2> QED
    BY <2>1, <2>2
<1>3. Spelled(ends) \subseteq S
  <2> HIDE DEF S
  <2> QED
    BY <1>1, <1>2, SpelledInduction
<1> QED
  BY <1>3

(* A name with a label says something, in three bytes at least. *)
LEMMA NamesSaySomething ==
  ASSUME NEW ends \in SUBSET Writtens, \A e \in ends : Len(e.bytes) >= 1
  PROVE  \A name \in Spelled(ends) :
           /\ name \in Writtens /\ Len(name.bytes) >= 1
           /\ name \in ends \/ (name.says # << >> /\ Len(name.bytes) >= 3)
<1> DEFINE S == { name \in Writtens : /\ Len(name.bytes) >= 1
                                      /\ name \in ends \/ (name.says # << >> /\ Len(name.bytes) >= 3) }
<1>1. ends \subseteq S
  OBVIOUS
<1>2. ASSUME NEW label \in HostLabels, NEW name \in S PROVE Labelled(label, name) \in S
  <2>1. /\ label \in Texts /\ Len(label) \in Nat /\ Len(label) >= 1
        /\ name.says \in Texts /\ name.bytes \in Texts /\ Len(name.bytes) \in Nat /\ Len(name.bytes) >= 1
    BY LabelIs, ConcatIs DEF Writtens
  <2>2. Len(Labelled(label, name).bytes) = 1 + Len(label) + Len(name.bytes)
    BY LabelledIs
  <2>3. Len(Labelled(label, name).bytes) >= 1 /\ Len(Labelled(label, name).bytes) >= 3
    <3> DEFINE x == Len(label)
               y == Len(name.bytes)
               z == Len(Labelled(label, name).bytes)
    <3>1. x \in Nat /\ x >= 1 /\ y \in Nat /\ y >= 1 /\ z = 1 + x + y
      BY <2>1, <2>2
    <3> HIDE DEF x, y, z
    <3>2. z >= 1 /\ z >= 3
      BY <3>1
    <3> QED
      BY <3>2 DEF z
  <2>4. Joined(label, name.says) # << >>
    <3>1. Append(label, Dot) \in Texts /\ Len(Append(label, Dot)) = Len(label) + 1
      BY <2>1 DEF Texts, Dot
    <3>2. Len(Append(label, Dot) \o name.says) >= 1
      <4>1. /\ Len(Append(label, Dot) \o name.says) = Len(Append(label, Dot)) + Len(name.says)
            /\ Len(name.says) \in Nat
        BY <2>1, <3>1, ConcatIs
      <4>2. Len(Append(label, Dot) \o name.says) = Len(label) + 1 + Len(name.says)
        BY <3>1, <4>1
      <4> DEFINE x == Len(label)
                 y == Len(name.says)
      <4>3. x \in Nat /\ y \in Nat /\ Len(Append(label, Dot) \o name.says) = x + 1 + y
        BY <2>1, <4>1, <4>2
      <4> HIDE DEF x, y
      <4> QED
        BY <4>3
    <3>3. Len(label \o name.says) >= 1
      <4>1. Len(label \o name.says) = Len(label) + Len(name.says) /\ Len(name.says) \in Nat
        BY <2>1, ConcatIs
      <4> QED
        BY <2>1, <4>1
    <3>4. Len(Joined(label, name.says)) >= 1
      BY <3>2, <3>3 DEF Joined
    <3>5. Len(<< >>) = 0
      OBVIOUS
    <3> QED
      BY <3>4, <3>5
  <2>5. Labelled(label, name) \in Writtens /\ Labelled(label, name).says # << >>
    BY <2>1, <2>4, LabelledIs
  <2> QED
    BY <2>3, <2>5
<1>3. Spelled(ends) \subseteq S
  <2> HIDE DEF S
  <2> QED
    BY <1>1, <1>2, SpelledInduction
<1> QED
  BY <1>3

-----------------------------------------------------------------------------
(* The messages as they are put together. *)
AnswerRecords == [name : Texts, type : Nat, rdata : Texts]
Messages == [bytes : Texts, qname : Texts, count : Nat, asked : Nat, answers : Seq(AnswerRecords),
             ends : Seq(Nat), owner : [at : Nat, name : Texts]]
EndsOf(m) == {NameEnd, Pointer(12, m.qname), Pointer(m.owner.at, m.owner.name)}

(* Where the names are that later names may point to. *)
OwnerPlaced(m) ==
  /\ m.owner.at >= 12 /\ m.owner.at < Len(m.bytes)
  /\ (m.owner.at = 12 /\ Len(m.bytes) >= 19) \/ Len(m.bytes) >= m.owner.at + 11

Reachable(m, p) ==
  \A left \in 0 .. 16 :
    /\ NamesFrom(p)[left][12].name = m.qname
    /\ 11 * left + 12 >= m.owner.at => NamesFrom(p)[left][m.owner.at].name = m.owner.name

NamesKept(m) ==
  \A p \in Buffers : Lies(m.bytes, p, 0) /\ Len(m.bytes) <= Len(p) => Reachable(m, p)

LEMMA EndsOfAre ==
  ASSUME NEW m \in Messages
  PROVE  /\ EndsOf(m) \in SUBSET Writtens /\ AreEnds(EndsOf(m))
         /\ \A e \in EndsOf(m) : Len(e.bytes) >= 1
         /\ NamesIn(m) = Spelled(EndsOf(m))
<1>1. m.qname \in Texts /\ m.owner.at \in Nat /\ m.owner.name \in Texts
  BY DEF Messages
<1>2. /\ Pointer(12, m.qname) \in Writtens /\ Len(Pointer(12, m.qname).bytes) = 2
      /\ Pointer(m.owner.at, m.owner.name) \in Writtens
      /\ Len(Pointer(m.owner.at, m.owner.name).bytes) = 2
  <2>1. 12 \in Nat /\ PointsTo(Pointer(m.owner.at, m.owner.name), m.owner.at, m.owner.name)
    BY <1>1, PointerIs
  <2>2. PointsTo(Pointer(12, m.qname), 12, m.qname)
    BY <1>1, <2>1, PointerIs
  <2> QED
    BY <2>1, <2>2 DEF PointsTo
<1>3. AreEnds(EndsOf(m))
  BY <1>1 DEF AreEnds, EndsOf
<1>4. EndsOf(m) \in SUBSET Writtens
  BY <1>2, NameEndIs DEF EndsOf
<1>5. \A e \in EndsOf(m) : Len(e.bytes) >= 1
  <2>1. \A e \in EndsOf(m) : Len(e.bytes) = 1 \/ Len(e.bytes) = 2
    BY <1>2, NameEndIs DEF EndsOf
  <2> QED
    BY <2>1
<1> QED
  BY <1>3, <1>4, <1>5 DEF EndsOf, NamesIn

(* What a pointer leads to is read, if pointers may still be followed. *)
LEMMA PointersResolve ==
  ASSUME NEW m \in Messages, OwnerPlaced(m), NEW p \in Buffers, Len(m.bytes) <= Len(p),
         Reachable(m, p), NEW left \in 1 .. 16, 11 * (left - 1) + 12 >= m.owner.at
  PROVE  Resolved(EndsOf(m), TailsOf(p, left))
<1> DEFINE tails == TailsOf(p, left)
<1>1. /\ m.qname \in Texts /\ m.owner.at \in Nat /\ m.owner.name \in Texts
      /\ Len(m.bytes) \in Nat /\ Len(p) \in Nat /\ Len(p) <= 128
  BY DEF Messages, Buffers, Texts
<1>2. m.owner.at \in 0 .. 127
  <2> DEFINE x == Len(m.bytes)
             y == Len(p)
             at == m.owner.at
  <2>1. x \in Nat /\ y \in Nat /\ y <= 128 /\ x <= y /\ at \in Nat /\ at < x
    BY <1>1 DEF OwnerPlaced
  <2> HIDE DEF x, y, at
  <2>2. at \in 0 .. 127
    BY <2>1
  <2> QED
    BY <2>2 DEF at
<1>3. left - 1 \in 0 .. 16 /\ left # 0
  OBVIOUS
<1>4. \A pos \in Nat : tails[pos] = NamesFrom(p)[left - 1][pos].name
  BY <1>3 DEF TailsOf
<1> HIDE DEF tails
<1>5. tails[12] = m.qname /\ tails[m.owner.at] = m.owner.name
  BY <1>1, <1>3, <1>4 DEF Reachable
<1>6. 12 \in 0 .. 127
  OBVIOUS
<1> QED
  BY <1>1, <1>2, <1>5, <1>6 DEF Resolved, EndsOf, tails

(* A name of the next record is read, or the parser gives up on it. *)
LEMMA NextNameIsRead ==
  ASSUME NEW m \in Messages, OwnerPlaced(m), NamesKept(m), NEW p \in Buffers, Lies(m.bytes, p, 0),
         NEW name \in NamesIn(m), NEW a \in Nat, a >= Len(m.bytes), Lies(name.bytes, p, a),
         NEW left \in 1 .. 16, 11 * (left - 1) + 12 >= m.owner.at \/ left = 16
  PROVE  /\ name \in Writtens /\ Len(name.bytes) \in Nat /\ Len(name.bytes) >= 1
         /\ a + Len(name.bytes) <= Len(p) =>
              NamesFrom(p)[left][a] = Parsed(name.says, a + Len(name.bytes))
         /\ a + Len(name.bytes) > Len(p) => GivesUp(p, NamesFrom(p)[left][a])
<1> DEFINE tails == TailsOf(p, left)
           length == Len(name.bytes)
           size == Len(p)
           before == Len(m.bytes)
<1>1. /\ p \in Texts /\ size \in Nat /\ size <= 128 /\ before \in Nat
  BY AtIs DEF Buffers, Texts, Messages
<1>2. left \in 0 .. 16
  OBVIOUS
<1>3. tails \in Tails /\ NamesFrom(p)[left] = LabelsFrom(p, tails)
  BY <1>1, <1>2, NamesAre
<1>4. name \in Spelled(EndsOf(m)) /\ EndsOf(m) \in SUBSET Writtens /\ AreEnds(EndsOf(m))
  BY EndsOfAre
<1>5. name \in Writtens /\ length >= 1
  BY <1>4, EndsOfAre, NamesSaySomething
<1>6. length \in Nat
  BY <1>5 DEF Writtens, Texts
<1> HIDE DEF tails
<1>7. ReadsAt(EndsOf(m), p, tails, name, a)
  BY <1>3, <1>4, NameIsRead
<1> HIDE DEF length, size, before
<1>8. ASSUME a + length <= size PROVE Resolved(EndsOf(m), tails)
  <2>1. before <= size /\ a < size
    BY <1>1, <1>5, <1>6, <1>8 DEF before
  <2>2. Reachable(m, p)
    BY <2>1 DEF NamesKept, before, size
  <2>3. 11 * (left - 1) + 12 >= m.owner.at
    <3>1. m.owner.at < before /\ m.owner.at \in Nat
      BY DEF OwnerPlaced, Messages, before
    <3> QED
      BY <1>1, <2>1, <3>1
  <2> QED
    BY <2>1, <2>2, <2>3, PointersResolve DEF before, size, tails
<1> QED
  BY <1>3, <1>5, <1>6, <1>7, <1>8 DEF ReadsAt, length, size

(* One more record. *)
DataRecords == [type : Nat, bytes : Texts, says : Texts]
Fixed(data) == << 0, data.type, 0, 1, 0, 0, 0, 60, 0, Len(data.bytes) >>

LEMMA FixedIs ==
  ASSUME NEW data \in DataRecords
  PROVE  /\ Fixed(data) \in Texts /\ Len(Fixed(data)) = 10
         /\ Fixed(data)[1] = 0 /\ Fixed(data)[2] = data.type
         /\ Fixed(data)[9] = 0 /\ Fixed(data)[10] = Len(data.bytes)
<1>1. data.type \in Nat /\ Len(data.bytes) \in Nat
  BY DEF DataRecords, Texts
<1> QED
  BY <1>1 DEF Fixed, Texts

LEMMA DataIs ==
  ASSUME NEW m \in Messages, NEW data \in Data(m)
  PROVE  /\ data \in DataRecords
         /\ \/ data.type = A /\ data.bytes = << 1, 2, 3, 4 >> /\ data.says = << 1, 2, 3, 4 >>
            \/ data.type = TXT /\ data.says = << >>
            \/ data.type = CNAME /\ \E name \in NamesIn(m) :
                                      data.bytes = name.bytes /\ data.says = name.says
<1>1. << 1, 2, 3, 4 >> \in Texts /\ << 1, 97 >> \in Texts /\ << >> \in Texts
  BY DEF Texts
<1>2. \A name \in NamesIn(m) : name.bytes \in Texts /\ name.says \in Texts
  BY EndsOfAre, NamesSaySomething DEF Writtens
<1>3. CASE data = Datum(A, Written(<< 1, 2, 3, 4 >>, << 1, 2, 3, 4 >>))
  BY <1>1, <1>3 DEF Datum, Written, DataRecords, A
<1>4. CASE data = Datum(TXT, Written(<< 1, 97 >>, << >>)) \/ data = Datum(TXT, Written(<< >>, << >>))
  BY <1>1, <1>4 DEF Datum, Written, DataRecords, TXT
<1>5. ASSUME NEW name \in NamesIn(m), data = Datum(CNAME, name)
      PROVE  /\ data \in DataRecords
             /\ data.type = CNAME /\ data.bytes = name.bytes /\ data.says = name.says
  BY <1>2, <1>5 DEF Datum, DataRecords, CNAME
<1> QED
  BY <1>3, <1>4, <1>5 DEF Data

Extended(n, m, owned, data) ==
  /\ n \in Messages
  /\ n.bytes = ((m.bytes \o owned.bytes) \o Fixed(data)) \o data.bytes
  /\ Len(n.bytes) = Len(m.bytes) + Len(owned.bytes) + 10 + Len(data.bytes)
  /\ n.ends = Append(m.ends, Len(n.bytes))
  /\ n.answers = Append(m.answers, Answer(owned.says, data.type, data.says))
  /\ n.owner = [at |-> Len(m.bytes), name |-> owned.says]
  /\ n.qname = m.qname /\ n.count = m.count /\ n.asked = m.asked

LEMMA WithAnswerIs ==
  ASSUME NEW m \in Messages, NEW owned \in Writtens, NEW data \in DataRecords
  PROVE  Extended(WithAnswer(m, owned, data), m, owned, data)
<1> DEFINE n == WithAnswer(m, owned, data)
           bytes == ((m.bytes \o owned.bytes) \o Fixed(data)) \o data.bytes
           answer == Answer(owned.says, data.type, data.says)
           place == [at |-> Len(m.bytes), name |-> owned.says]
<1>1. /\ m.bytes \in Texts /\ owned.bytes \in Texts /\ owned.says \in Texts /\ data.bytes \in Texts
      /\ data.type \in Nat /\ data.says \in Texts /\ Fixed(data) \in Texts /\ Len(Fixed(data)) = 10
      /\ Len(m.bytes) \in Nat
  BY FixedIs DEF Messages, Writtens, DataRecords, Texts
<1>2. m.bytes \o owned.bytes \in Texts /\ Len(m.bytes \o owned.bytes) = Len(m.bytes) + Len(owned.bytes)
  BY <1>1, ConcatIs
<1>3. /\ (m.bytes \o owned.bytes) \o Fixed(data) \in Texts
      /\ Len((m.bytes \o owned.bytes) \o Fixed(data)) = Len(m.bytes \o owned.bytes) + Len(Fixed(data))
  BY <1>1, <1>2, ConcatIs
<1>a. /\ bytes \in Texts
      /\ Len(bytes) = Len((m.bytes \o owned.bytes) \o Fixed(data)) + Len(data.bytes)
  BY <1>1, <1>3, ConcatIs
<1>4. bytes \in Texts /\ Len(bytes) = Len(m.bytes) + Len(owned.bytes) + 10 + Len(data.bytes)
  BY <1>1, <1>2, <1>3, <1>a
<1>5. n = [m EXCEPT !.bytes = bytes, !.ends = Append(@, Len(bytes)), !.answers = Append(@, answer),
                    !.owner = place]
  BY DEF n, WithAnswer, Fixed
<1>6. answer \in AnswerRecords /\ place \in [at : Nat, name : Texts] /\ Len(bytes) \in Nat
  <2>1. Len(bytes) \in Nat
    BY <1>4, ConcatIs
  <2> QED
    BY <1>1, <2>1 DEF Answer, AnswerRecords
<1> HIDE DEF n, bytes, answer, place
<1>7. /\ m.ends \in Seq(Nat) /\ m.answers \in Seq(AnswerRecords)
      /\ m = [bytes |-> m.bytes, qname |-> m.qname, count |-> m.count, asked |-> m.asked,
              answers |-> m.answers, ends |-> m.ends, owner |-> m.owner]
      /\ m.qname \in Texts /\ m.count \in Nat /\ m.asked \in Nat
  BY DEF Messages
<1>8. Append(m.ends, Len(bytes)) \in Seq(Nat) /\ Append(m.answers, answer) \in Seq(AnswerRecords)
  BY <1>6, <1>7
<1>9. n = [bytes |-> bytes, qname |-> m.qname, count |-> m.count, asked |-> m.asked,
           answers |-> Append(m.answers, answer), ends |-> Append(m.ends, Len(bytes)), owner |-> place]
  BY <1>5, <1>7
<1>b. bytes \in Texts /\ place \in [at : Nat, name : Texts]
  BY <1>4, <1>6
<1>10. n \in Messages
  BY <1>b, <1>7, <1>8, <1>9 DEF Messages
<1>11. /\ n.bytes = bytes /\ n.ends = Append(m.ends, Len(bytes)) /\ n.answers = Append(m.answers, answer)
       /\ n.owner = place /\ n.qname = m.qname /\ n.count = m.count /\ n.asked = m.asked
  BY <1>9
<1>12. Len(n.bytes) = Len(m.bytes) + Len(owned.bytes) + 10 + Len(data.bytes)
  BY <1>4, <1>11
<1> QED
  BY <1>10, <1>11, <1>12 DEF Extended, n, bytes, answer, place

(* Where the parts of the record are. *)
LEMMA RecordLies ==
  ASSUME NEW m \in Messages, NEW owned \in Writtens, NEW data \in DataRecords, NEW p \in Buffers,
         Lies(WithAnswer(m, owned, data).bytes, p, 0)
  PROVE  /\ Lies(m.bytes, p, 0) /\ Lies(owned.bytes, p, Len(m.bytes))
         /\ Lies(Fixed(data), p, Len(m.bytes) + Len(owned.bytes))
         /\ Lies(data.bytes, p, Len(m.bytes) + Len(owned.bytes) + 10)
<1> DEFINE front == m.bytes \o owned.bytes
           most == front \o Fixed(data)
<1>a. /\ m.bytes \in Texts /\ owned.bytes \in Texts /\ data.bytes \in Texts /\ p \in Texts
  BY DEF Messages, Writtens, DataRecords, Texts, Buffers
<1>1. /\ m.bytes \in Texts /\ owned.bytes \in Texts /\ data.bytes \in Texts /\ p \in Texts
      /\ Fixed(data) \in Texts /\ Len(Fixed(data)) = 10
      /\ Len(m.bytes) \in Nat /\ Len(owned.bytes) \in Nat
  BY <1>a, FixedIs, ConcatIs
<1>2. front \in Texts /\ Len(front) = Len(m.bytes) + Len(owned.bytes)
  BY <1>1, ConcatIs
<1>3. Lies(most \o data.bytes, p, 0)
  BY WithAnswerIs DEF Extended
<1> HIDE DEF front
<1>4. most \in Texts /\ Len(most) = Len(front) + 10
  <2>1. most \in Texts /\ Len(most) = Len(front) + Len(Fixed(data))
    BY <1>1, <1>2, ConcatIs
  <2> QED
    BY <1>1, <2>1
<1> HIDE DEF most
<1>5. Lies(most, p, 0) /\ Lies(data.bytes, p, 0 + Len(most))
  BY <1>1, <1>3, <1>4, LiesApart
<1>6. Lies(front, p, 0) /\ Lies(Fixed(data), p, 0 + Len(front))
  BY <1>1, <1>2, <1>5, LiesApart DEF most
<1>7. Lies(m.bytes, p, 0) /\ Lies(owned.bytes, p, 0 + Len(m.bytes))
  BY <1>1, <1>6, LiesApart DEF front
<1>8. /\ 0 + Len(m.bytes) = Len(m.bytes) /\ 0 + Len(front) = Len(m.bytes) + Len(owned.bytes)
      /\ 0 + Len(most) = Len(m.bytes) + Len(owned.bytes) + 10
  BY <1>1, <1>2, <1>4
<1> QED
  BY <1>5, <1>6, <1>7, <1>8

LEMMA FixedIsRead ==
  ASSUME NEW data \in DataRecords, NEW p \in Buffers, NEW a \in Nat, Lies(Fixed(data), p, a),
         a + 10 <= Len(p)
  PROVE  Word(p, a) = data.type /\ Word(p, a + 8) = Len(data.bytes)
<1>1. /\ Len(Fixed(data)) = 10 /\ Fixed(data)[1] = 0 /\ Fixed(data)[2] = data.type
      /\ Fixed(data)[9] = 0 /\ Fixed(data)[10] = Len(data.bytes)
  BY FixedIs
<1>a. data.type \in Nat /\ Len(data.bytes) \in Nat /\ Len(p) \in Nat
  BY DEF DataRecords, Texts, Buffers
<1>2. ASSUME NEW i \in {1, 2, 9, 10} PROVE At(p, a + i - 1) = Fixed(data)[i]
  <2>1. i \in 1 .. Len(Fixed(data)) /\ a + i <= Len(p)
    BY <1>1, <1>a
  <2> QED
    BY <2>1 DEF Lies
<1>3. a + 1 - 1 = a /\ a + 2 - 1 = a + 1 /\ a + 9 - 1 = a + 8 /\ a + 10 - 1 = a + 8 + 1
  OBVIOUS
<1>4. At(p, a) = 0 /\ At(p, a + 1) = data.type
  <2>1. At(p, a + 1 - 1) = 0 /\ At(p, a + 2 - 1) = data.type
    BY <1>1, <1>2
  <2> QED
    BY <1>3, <2>1
<1>5. At(p, a + 8) = 0 /\ At(p, a + 8 + 1) = Len(data.bytes)
  <2>1. At(p, a + 9 - 1) = 0 /\ At(p, a + 10 - 1) = Len(data.bytes)
    BY <1>1, <1>2
  <2> QED
    BY <1>3, <2>1
<1> QED
  BY <1>a, <1>4, <1>5 DEF Word

(* The data of a record that is whole says what it says. *)
LEMMA DataIsRead ==
  ASSUME NEW m \in Messages, OwnerPlaced(m), NamesKept(m), NEW data \in Data(m), NEW p \in Buffers,
         Lies(m.bytes, p, 0), NEW a \in Nat, a >= Len(m.bytes), Lies(data.bytes, p, a),
         a + Len(data.bytes) <= Len(p)
  PROVE  dns_format_rdata(p, data.type, a, Len(data.bytes)) = data.says
<1>1. p \in Texts
  BY DEF Buffers, Texts
<1>2. CASE data.type = A /\ data.bytes = << 1, 2, 3, 4 >> /\ data.says = << 1, 2, 3, 4 >>
  <2> DEFINE text == << 1, 2, 3, 4 >>
  <2>1. text \in Texts /\ Len(text) = 4
    BY DEF Texts
  <2>2. data.bytes = text /\ data.says = text
    BY <1>2
  <2> HIDE DEF text
  <2>3. a + 4 <= Len(p)
    BY <2>1, <2>2
  <2>4. /\ Slice(p, a, 4) \in Texts /\ Len(Slice(p, a, 4)) = 4
        /\ \A i \in 1 .. 4 : Slice(p, a, 4)[i] = At(p, a + i - 1)
    BY <1>1, <2>3, SliceIs
  <2>5. ASSUME NEW i \in 1 .. 4 PROVE Slice(p, a, 4)[i] = text[i]
    <3>1. a + i <= Len(p) /\ i \in 1 .. Len(data.bytes)
      <4> DEFINE y == Len(p)
      <4>1. i \in Nat /\ i <= 4 /\ y \in Nat /\ a + 4 <= y
        BY <1>1, <2>3, AtIs
      <4> HIDE DEF y
      <4>2. a + i <= y
        BY <4>1
      <4> QED
        BY <2>1, <2>2, <4>2 DEF y
    <3>2. At(p, a + i - 1) = data.bytes[i]
      BY <3>1 DEF Lies
    <3> QED
      BY <2>2, <2>4, <3>2
  <2>6. Slice(p, a, 4) = text
    BY <2>1, <2>4, <2>5, SeqEqual DEF Texts
  <2>7. Len(data.bytes) = 4
    BY <2>1, <2>2
  <2> QED
    BY <1>2, <2>2, <2>6, <2>7 DEF dns_format_rdata, A, CNAME
<1>3. CASE data.type = TXT /\ data.says = << >>
  BY <1>3 DEF dns_format_rdata, A, CNAME, TXT
<1>4. ASSUME data.type = CNAME, NEW name \in NamesIn(m), data.bytes = name.bytes, data.says = name.says
      PROVE  dns_format_rdata(p, data.type, a, Len(data.bytes)) = data.says
  <2>1. 16 \in 1 .. 16
    OBVIOUS
  <2>2. /\ Len(name.bytes) \in Nat /\ Len(name.bytes) >= 1 /\ a + Len(name.bytes) <= Len(p)
        /\ a + Len(name.bytes) <= Len(p) =>
              NamesFrom(p)[16][a] = Parsed(name.says, a + Len(name.bytes))
    BY <1>4, <2>1, NextNameIsRead
  <2>3. dns_parse_name(p, a).name = data.says
    BY <1>4, <2>2 DEF dns_parse_name, Parsed
  <2>4. a < Len(p)
    <3> DEFINE x == Len(name.bytes)
               y == Len(p)
    <3>1. x \in Nat /\ x >= 1 /\ a + x <= y /\ y \in Nat
      BY <1>1, <2>2, AtIs
    <3> HIDE DEF x, y
    <3>2. a < y
      BY <3>1
    <3> QED
      BY <3>2 DEF y
  <2> QED
    BY <1>4, <2>3, <2>4 DEF dns_format_rdata, A, CNAME
<1> QED
  BY <1>2, <1>3, <1>4, DataIs

(* A turn of the loop over the answers takes the next record if it is      *)
(* whole, and ends the loop if it is not.                                  *)
Turn(going, pos, answers) == [going |-> going, pos |-> pos, answers |-> answers]

LEMMA TurnIs ==
  ASSUME NEW going, NEW pos, NEW answers
  PROVE  /\ Turn(going, pos, answers).going = going /\ Turn(going, pos, answers).pos = pos
         /\ Turn(going, pos, answers).answers = answers
         /\ Stopped(Turn(going, pos, answers)) = Turn(FALSE, pos, answers)
<1>1. /\ Turn(going, pos, answers).going = going /\ Turn(going, pos, answers).pos = pos
      /\ Turn(going, pos, answers).answers = answers
  BY DEF Turn
<1>2. Stopped(Turn(going, pos, answers)) = Turn(FALSE, pos, answers)
  BY DEF Turn, Stopped
<1> QED
  BY <1>1, <1>2

RecordRead(m, owned, data, p, answers) ==
  LET total == Len(WithAnswer(m, owned, data).bytes) IN
  ReadAnswer(p, Turn(TRUE, Len(m.bytes), answers)) =
    IF total <= Len(p)
    THEN Turn(TRUE, total, Append(answers, Answer(owned.says, data.type, data.says)))
    ELSE Turn(FALSE, Len(m.bytes), answers)

LEMMA RecordIsRead ==
  ASSUME NEW m \in Messages, OwnerPlaced(m), NamesKept(m), NEW owned \in NamesIn(m),
         NEW data \in Data(m), NEW p \in Buffers, Lies(WithAnswer(m, owned, data).bytes, p, 0),
         NEW answers
  PROVE  RecordRead(m, owned, data, p, answers)
<1> DEFINE n == WithAnswer(m, owned, data)
           read == Turn(TRUE, Len(m.bytes), answers)
           start == Len(m.bytes)
           o == Len(owned.bytes)
           d == Len(data.bytes)
           size == Len(p)
           total == Len(n.bytes)
           name == dns_parse_name(p, start)
           end == name.pos + 10 + Word(p, name.pos + 8)
           IsRead == ReadAnswer(p, read) =
                       IF total <= size
                       THEN Turn(TRUE, total, Append(answers, Answer(owned.says, data.type, data.says)))
                       ELSE Turn(FALSE, start, answers)
<1> SUFFICES IsRead
  BY DEF RecordRead
<1>1. /\ owned \in Writtens /\ data \in DataRecords
  BY EndsOfAre, NamesSaySomething, DataIs
<1>2. /\ Lies(m.bytes, p, 0) /\ Lies(owned.bytes, p, start)
      /\ Lies(Fixed(data), p, start + o) /\ Lies(data.bytes, p, start + o + 10)
  BY <1>1, RecordLies
<1>3. start \in Nat /\ o \in Nat /\ d \in Nat /\ size \in Nat /\ size <= 128 /\ total = start + o + 10 + d
  <2>1. start \in Nat /\ o \in Nat /\ d \in Nat /\ size \in Nat /\ size <= 128
    BY <1>1 DEF Messages, Writtens, DataRecords, Buffers, Texts
  <2>2. total = start + o + 10 + d
    BY <1>1, WithAnswerIs DEF Extended
  <2> QED
    BY <2>1, <2>2
<1>4. /\ o >= 1
      /\ start + o <= size => name = Parsed(owned.says, start + o)
      /\ start + o > size => GivesUp(p, name)
  <2>1. 16 \in 1 .. 16 /\ start >= start
    BY <1>3
  <2> QED
    BY <1>2, <1>3, <2>1, NextNameIsRead DEF dns_parse_name
<1>5. /\ read.going = TRUE /\ read.pos = start /\ read.answers = answers
      /\ Stopped(read) = Turn(FALSE, start, answers)
  BY DEF Turn, Stopped
<1> HIDE DEF read
<1>6. /\ start + 10 > size => ReadAnswer(p, read) = Stopped(read)
      /\ start + 10 <= size /\ (name.pos + 10 > size \/ end > size) => ReadAnswer(p, read) = Stopped(read)
      /\ start + 10 <= size /\ ~ (name.pos + 10 > size \/ end > size) =>
           ReadAnswer(p, read) = ReadTo(read, end, RecordAt(p, name))
  <2>1. ~ (start + 10 > size) <=> start + 10 <= size
    BY <1>3
  <2> QED
    BY <1>5, <2>1 DEF ReadAnswer
<1> HIDE DEF start, o, d, size, total, name, end, IsRead
<1>7. CASE start + 10 > size
  <2>1. ~ (total <= size)
    BY <1>3, <1>7
  <2> QED
    BY <1>5, <1>6, <1>7, <2>1 DEF IsRead
<1>8. CASE start + 10 <= size /\ start + o > size
  <2>1. name.pos \in Nat /\ (name.pos + 10 <= size => Word(p, name.pos + 8) > 128)
    BY <1>4, <1>8 DEF GivesUp, size
  <2>2. name.pos + 10 > size \/ end > size
    <3>1. CASE name.pos + 10 <= size
      <4>1. Word(p, name.pos + 8) > 128 /\ Word(p, name.pos + 8) \in Int
        <5>1. p \in Texts /\ size \in Nat /\ name.pos + 8 \in Nat /\ name.pos + 8 < size
              /\ name.pos + 8 + 1 \in Nat /\ name.pos + 8 + 1 < size
          BY <1>3, <2>1, <3>1 DEF Buffers, Texts
        <5>2. At(p, name.pos + 8) \in Nat /\ At(p, name.pos + 8 + 1) \in Nat
          BY <5>1, AtIs DEF size
        <5> QED
          BY <2>1, <3>1, <5>2 DEF Word
      <4> QED
        BY <1>3, <2>1, <4>1 DEF end
    <3>2. CASE ~ (name.pos + 10 <= size)
      BY <1>3, <2>1, <3>2
    <3> QED
      BY <3>1, <3>2
  <2>3. ~ (total <= size)
    BY <1>3, <1>8
  <2> QED
    BY <1>5, <1>6, <1>8, <2>2, <2>3 DEF IsRead
<1>9. CASE start + 10 <= size /\ start + o <= size
  <2>1. name.pos = start + o /\ name.name = owned.says
    BY <1>4, <1>9 DEF Parsed
  <2>2. CASE start + o + 10 > size
    <3>1. ~ (total <= size)
      BY <1>3, <2>2
    <3> QED
      BY <1>5, <1>6, <1>9, <2>1, <2>2, <3>1 DEF IsRead
  <2>3. CASE start + o + 10 <= size
    <3>1. Word(p, start + o) = data.type /\ Word(p, start + o + 8) = d
      <4>1. start + o \in Nat
        BY <1>3
      <4> QED
        BY <1>1, <1>2, <2>3, <4>1, FixedIsRead DEF size, start, o, d
    <3>2. end = total
      BY <1>3, <2>1, <3>1 DEF end
    <3>3. CASE total > size
      <4>1. ~ (total <= size)
        BY <1>3, <3>3
      <4> QED
        BY <1>5, <1>6, <1>9, <3>2, <3>3, <4>1 DEF IsRead
    <3>4. CASE total <= size
      <4>1. dns_format_rdata(p, data.type, start + o + 10, d) = data.says
        <5>1. start + o + 10 \in Nat /\ start + o + 10 >= start /\ start + o + 10 + d <= size
          BY <1>3, <3>4
        <5> QED
          BY <1>2, <5>1, DataIsRead DEF size, start, o, d
      <4>2. RecordAt(p, name) = Answer(owned.says, data.type, data.says)
        BY <2>1, <3>1, <4>1 DEF RecordAt
      <4>3. ~ (name.pos + 10 > size \/ end > size)
        BY <1>3, <2>1, <2>3, <3>2, <3>4
      <4>4. ReadAnswer(p, read) = ReadTo(read, total, Answer(owned.says, data.type, data.says))
        BY <1>6, <1>9, <3>2, <4>2, <4>3
      <4> QED
        BY <1>5, <3>4, <4>4 DEF IsRead, ReadTo, Turn
    <3> QED
      BY <1>3, <3>3, <3>4
  <2> QED
    BY <1>3, <2>2, <2>3
<1> QED
  BY <1>3, <1>7, <1>8, <1>9
-----------------------------------------------------------------------------
(* What holds of every message, and is read of it wherever it is cut. *)
End(m, k) == IF k = 0 THEN m.asked ELSE m.ends[k]

Measured(m) ==
  /\ m \in Messages /\ Len(m.answers) = Len(m.ends) /\ Len(m.ends) <= m.count
  /\ m.asked >= 19 /\ Len(m.bytes) = End(m, Len(m.ends))
  /\ \A k \in 1 .. Len(m.ends) : m.asked <= m.ends[k] /\ m.ends[k] <= Len(m.bytes)
  /\ \A j, k \in 1 .. Len(m.ends) : j <= k => m.ends[j] <= m.ends[k]

HeaderKept(m, flags) ==
  /\ Len(m.bytes) >= 12 /\ m.bytes[3] = flags /\ m.bytes[4] = 0 /\ m.bytes[11] = 0
  /\ m.bytes[5] = 0 /\ m.bytes[6] = 1 /\ m.bytes[7] = 0 /\ m.bytes[8] = m.count

QuestionRead(m, p) ==
  /\ Len(p) >= m.asked => /\ dns_parse_name(p, 12) = Parsed(m.qname, m.asked - 4)
                          /\ Word(p, m.asked - 4) = A
  /\ Len(p) < m.asked => dns_parse_name(p, 12).name = << >> \/ dns_parse_name(p, 12).pos + 4 > Len(p)

QuestionKept(m) ==
  /\ m.qname # << >>
  /\ \A p \in Buffers : Lies(m.bytes, p, 0) => QuestionRead(m, p)

TurnRead(m, p, k, answers) ==
  ReadAnswer(p, Turn(TRUE, End(m, k - 1), answers)) =
    IF m.ends[k] <= Len(p) THEN Turn(TRUE, m.ends[k], Append(answers, m.answers[k]))
    ELSE Turn(FALSE, End(m, k - 1), answers)

TurnsKept(m) ==
  \A p \in Buffers : Lies(m.bytes, p, 0) =>
    \A k \in 1 .. Len(m.ends), answers \in Seq(AnswerRecords) : TurnRead(m, p, k, answers)

Kept(m, flags) ==
  /\ Measured(m) /\ HeaderKept(m, flags) /\ OwnerPlaced(m)
  /\ NamesKept(m) /\ QuestionKept(m) /\ TurnsKept(m)

LEMMA HeaderIs ==
  ASSUME NEW flags \in Nat, NEW count \in Nat
  PROVE  /\ Header(flags, count) \in Texts /\ Len(Header(flags, count)) = 12
         /\ Header(flags, count)[3] = flags /\ Header(flags, count)[4] = 0
         /\ Header(flags, count)[5] = 0 /\ Header(flags, count)[6] = 1
         /\ Header(flags, count)[7] = 0 /\ Header(flags, count)[8] = count
         /\ Header(flags, count)[11] = 0
BY DEF Header, Texts

Tail4 == << 0, A, 0, 1 >>

Asks(m, flags, count, name) ==
  /\ m \in Messages /\ m.bytes = (Header(flags, count) \o name.bytes) \o Tail4
  /\ m.asked = Len(m.bytes) /\ Len(m.bytes) = 16 + Len(name.bytes) /\ m.qname = name.says
  /\ m.count = count /\ m.ends = << >> /\ m.answers = << >>
  /\ m.owner = [at |-> 12, name |-> name.says]

LEMMA QuestionIs ==
  ASSUME NEW flags \in Nat, NEW count \in Nat, NEW name \in Writtens
  PROVE  Asks(Question(flags, count, name), flags, count, name)
<1> DEFINE bytes == (Header(flags, count) \o name.bytes) \o Tail4
<1>1. /\ Header(flags, count) \in Texts /\ Len(Header(flags, count)) = 12
      /\ name.bytes \in Texts /\ name.says \in Texts /\ Len(name.bytes) \in Nat
  BY HeaderIs, ConcatIs DEF Writtens
<1>2. Tail4 \in Texts /\ Len(Tail4) = 4
  BY DEF Tail4, Texts, A
<1>b. /\ Header(flags, count) \o name.bytes \in Texts
      /\ Len(Header(flags, count) \o name.bytes) = Len(Header(flags, count)) + Len(name.bytes)
  BY <1>1, ConcatIs
<1>3. /\ Header(flags, count) \o name.bytes \in Texts
      /\ Len(Header(flags, count) \o name.bytes) = 12 + Len(name.bytes)
  BY <1>1, <1>b
<1>a. bytes \in Texts /\ Len(bytes) = Len(Header(flags, count) \o name.bytes) + Len(Tail4)
  BY <1>2, <1>3, ConcatIs
<1>4. bytes \in Texts /\ Len(bytes) = 16 + Len(name.bytes) /\ Len(bytes) \in Nat
  BY <1>1, <1>2, <1>3, <1>a
<1>5. Question(flags, count, name)
        = [bytes |-> bytes, qname |-> name.says, count |-> count, asked |-> Len(bytes),
           answers |-> << >>, ends |-> << >>, owner |-> [at |-> 12, name |-> name.says]]
  BY DEF Question, Tail4
<1> HIDE DEF bytes
<1>6. << >> \in Seq(AnswerRecords) /\ << >> \in Seq(Nat)
  OBVIOUS
<1>7. Question(flags, count, name) \in Messages
  BY <1>1, <1>4, <1>5, <1>6 DEF Messages
<1> QED
  BY <1>4, <1>5, <1>7 DEF Asks, bytes

(* The question is read as soon as it is whole. *)
LEMMA QuestionIsRead ==
  ASSUME NEW flags \in Nat, NEW count \in Nat, NEW name \in Spelled({NameEnd}), NEW p \in Buffers,
         Lies(Question(flags, count, name).bytes, p, 0), NEW left \in 0 .. 16
  PROVE  /\ 12 + Len(name.bytes) <= Len(p) =>
              NamesFrom(p)[left][12] = Parsed(name.says, 12 + Len(name.bytes))
         /\ 12 + Len(name.bytes) > Len(p) => GivesUp(p, NamesFrom(p)[left][12])
         /\ 16 + Len(name.bytes) <= Len(p) => Word(p, 12 + Len(name.bytes)) = A
<1> DEFINE tails == TailsOf(p, left)
           front == Header(flags, count) \o name.bytes
           l == Len(name.bytes)
<1>1. /\ {NameEnd} \in SUBSET Writtens /\ AreEnds({NameEnd}) /\ \A e \in {NameEnd} : Len(e.bytes) >= 1
  BY NameEndIs DEF AreEnds
<1>2. name \in Writtens
  BY <1>1, NamesSaySomething
<1>3. /\ Header(flags, count) \in Texts /\ Len(Header(flags, count)) = 12 /\ p \in Texts
      /\ name.bytes \in Texts /\ l \in Nat /\ Tail4 \in Texts /\ Len(Tail4) = 4 /\ Tail4[1] = 0 /\ Tail4[2] = A
  BY <1>2, HeaderIs, ConcatIs DEF Writtens, Buffers, Texts, Tail4, A
<1>a. front \in Texts /\ Len(front) = Len(Header(flags, count)) + l
  BY <1>3, ConcatIs
<1>4. front \in Texts /\ Len(front) = 12 + l
  BY <1>3, <1>a
<1>5. Lies(front \o Tail4, p, 0)
  BY <1>2, QuestionIs DEF Asks
<1> HIDE DEF front
<1>6. Lies(front, p, 0) /\ Lies(Tail4, p, 0 + Len(front))
  BY <1>3, <1>4, <1>5, LiesApart
<1>7. Lies(name.bytes, p, 0 + Len(Header(flags, count)))
  BY <1>3, <1>6, LiesApart DEF front
<1>8. Lies(name.bytes, p, 12) /\ Lies(Tail4, p, 12 + l)
  <2>1. 0 + Len(Header(flags, count)) = 12 /\ 0 + Len(front) = 12 + l
    BY <1>3, <1>4
  <2> QED
    BY <1>6, <1>7, <2>1
<1>9. tails \in Tails /\ NamesFrom(p)[left] = LabelsFrom(p, tails)
  BY <1>3, NamesAre
<1> HIDE DEF tails
<1>10. ReadsAt({NameEnd}, p, tails, name, 12)
  <2>1. 12 \in Nat
    OBVIOUS
  <2> QED
    BY <1>1, <1>8, <1>9, <2>1, NameIsRead
<1>11. Resolved({NameEnd}, tails)
  BY DEF Resolved
<1>12. ASSUME 16 + l <= Len(p) PROVE Word(p, 12 + l) = A
  <2> DEFINE size == Len(p)
             a == 12 + l
  <2>1. a \in Nat /\ size \in Nat /\ a + 1 <= size /\ a + 2 <= size
    BY <1>3, <1>12, AtIs
  <2>2. 1 \in 1 .. Len(Tail4) /\ 2 \in 1 .. Len(Tail4)
    BY <1>3
  <2> HIDE DEF a
  <2>3. At(p, a + 1 - 1) = 0 /\ At(p, a + 2 - 1) = A
    <3>1. Lies(Tail4, p, a)
      BY <1>8 DEF a
    <3> QED
      BY <1>3, <2>1, <2>2, <3>1 DEF Lies
  <2>4. a + 1 - 1 = a /\ a + 2 - 1 = a + 1
    BY <2>1
  <2>5. Word(p, a) = A
    BY <2>3, <2>4 DEF Word, A
  <2> QED
    BY <2>5 DEF a
<1> QED
  BY <1>9, <1>10, <1>11, <1>12 DEF ReadsAt

LEMMA QuestionKeeps ==
  ASSUME NEW flags \in Nat, NEW count \in Nat, NEW name \in Spelled({NameEnd}) \ {NameEnd}
  PROVE  Kept(Question(flags, count, name), flags)
<1> DEFINE m == Question(flags, count, name)
           l == Len(name.bytes)
<1>1. name \in Writtens /\ name.says # << >> /\ l >= 3
  <2>1. {NameEnd} \in SUBSET Writtens /\ \A e \in {NameEnd} : Len(e.bytes) >= 1
    BY NameEndIs
  <2> QED
    BY <2>1, NamesSaySomething
<1>2. /\ m \in Messages /\ m.bytes = (Header(flags, count) \o name.bytes) \o Tail4
      /\ m.asked = Len(m.bytes) /\ Len(m.bytes) = 16 + l /\ m.qname = name.says /\ m.count = count
      /\ m.ends = << >> /\ m.answers = << >> /\ m.owner = [at |-> 12, name |-> name.says]
  <2>1. Asks(m, flags, count, name)
    BY <1>1, QuestionIs
  <2> HIDE DEF m
  <2> QED
    BY <2>1 DEF Asks
<1>3. l \in Nat
  BY <1>1 DEF Writtens, Texts
<1>4. \A p \in Buffers, left \in 0 .. 16 : Lies(m.bytes, p, 0) =>
        /\ 12 + l <= Len(p) => NamesFrom(p)[left][12] = Parsed(name.says, 12 + l)
        /\ 12 + l > Len(p) => GivesUp(p, NamesFrom(p)[left][12])
        /\ 16 + l <= Len(p) => Word(p, 12 + l) = A
  BY QuestionIsRead
<1> HIDE DEF m, l
<1>5. Measured(m)
  <2>1. Len(m.ends) = 0 /\ Len(m.answers) = 0
    BY <1>2
  <2> QED
    BY <1>1, <1>2, <1>3, <2>1 DEF Measured, End
<1>6. HeaderKept(m, flags)
  <2> DEFINE head == Header(flags, count)
             tail == Tail4
             bytes == name.bytes
  <2>a. bytes \in Texts /\ tail \in Texts
    BY <1>1 DEF Writtens, Tail4, Texts, A
  <2>1. /\ head \in Texts /\ Len(head) = 12 /\ bytes \in Texts /\ tail \in Texts
        /\ head[3] = flags /\ head[4] = 0 /\ head[5] = 0 /\ head[6] = 1 /\ head[7] = 0
        /\ head[8] = count /\ head[11] = 0
    BY <2>a, HeaderIs
  <2> HIDE DEF head, tail
  <2>b. /\ head \o bytes \in Texts /\ Len(head \o bytes) = Len(head) + l
        /\ \A i \in 1 .. Len(head) : (head \o bytes)[i] = head[i]
    BY <2>1, ConcatIs DEF l
  <2>2. head \o bytes \in Texts /\ Len(head \o bytes) = 12 + l /\ \A i \in 1 .. 12 : (head \o bytes)[i] = head[i]
    BY <1>3, <2>1, <2>b
  <2>3. \A i \in 1 .. Len(head \o bytes) : ((head \o bytes) \o tail)[i] = (head \o bytes)[i]
    BY <2>1, <2>2, ConcatIs
  <2>4. \A i \in 1 .. 12 : i \in 1 .. Len(head \o bytes)
    BY <1>3, <2>2
  <2>5. \A i \in 1 .. 12 : m.bytes[i] = head[i]
    BY <1>2, <2>2, <2>3, <2>4 DEF head, tail
  <2>6. Len(m.bytes) >= 12
    BY <1>2, <1>3
  <2>7. /\ 3 \in 1 .. 12 /\ 4 \in 1 .. 12 /\ 5 \in 1 .. 12 /\ 6 \in 1 .. 12 /\ 7 \in 1 .. 12
        /\ 8 \in 1 .. 12 /\ 11 \in 1 .. 12
    OBVIOUS
  <2> QED
    BY <1>2, <2>1, <2>5, <2>6, <2>7 DEF HeaderKept
<1>7. OwnerPlaced(m)
  BY <1>1, <1>2, <1>3 DEF OwnerPlaced
<1>8. NamesKept(m)
  <2>1. ASSUME NEW p \in Buffers, Lies(m.bytes, p, 0), Len(m.bytes) <= Len(p), NEW left \in 0 .. 16
        PROVE  NamesFrom(p)[left][12].name = name.says
    <3>1. 12 + l <= Len(p)
      BY <1>2, <1>3, <2>1, AtIs DEF Buffers, Texts
    <3>2. NamesFrom(p)[left][12] = Parsed(name.says, 12 + l)
      BY <1>4, <2>1, <3>1
    <3> QED
      BY <3>2 DEF Parsed
  <2>2. m.owner.at = 12 /\ m.owner.name = name.says /\ m.qname = name.says
    BY <1>2
  <2>3. ASSUME NEW p \in Buffers, Lies(m.bytes, p, 0), Len(m.bytes) <= Len(p) PROVE Reachable(m, p)
    BY <2>1, <2>2, <2>3 DEF Reachable
  <2> QED
    BY <2>3 DEF NamesKept
<1>9. QuestionKept(m)
  <2>1. ASSUME NEW p \in Buffers, Lies(m.bytes, p, 0) PROVE QuestionRead(m, p)
    <3> DEFINE size == Len(p)
               parsed == dns_parse_name(p, 12)
    <3>1. size \in Nat /\ m.asked = 16 + l /\ m.asked - 4 = 12 + l
      BY <1>2, <1>3, AtIs DEF Buffers, Texts
    <3>2. 16 \in 0 .. 16
      OBVIOUS
    <3>3. /\ 12 + l <= size => parsed = Parsed(name.says, 12 + l)
          /\ 12 + l > size => GivesUp(p, parsed)
          /\ 16 + l <= size => Word(p, 12 + l) = A
      BY <1>4, <2>1, <3>2 DEF dns_parse_name
    <3> HIDE DEF size, parsed
    <3>4. CASE 16 + l <= size
      <4>1. 12 + l <= size /\ size >= m.asked /\ ~ (size < m.asked)
        BY <1>3, <3>1, <3>4
      <4> QED
        BY <1>2, <3>1, <3>3, <3>4, <4>1 DEF QuestionRead, size, parsed
    <3>5. CASE 12 + l <= size /\ ~ (16 + l <= size)
      <4>1. 12 + l + 4 > size /\ ~ (size >= m.asked)
        BY <1>3, <3>1, <3>5
      <4>2. parsed.pos = 12 + l
        BY <3>3, <3>5 DEF Parsed
      <4> QED
        BY <4>1, <4>2 DEF QuestionRead, size, parsed
    <3>6. CASE ~ (12 + l <= size)
      <4>1. 12 + l > size /\ ~ (size >= m.asked)
        BY <1>3, <3>1, <3>6
      <4> QED
        BY <3>3, <4>1 DEF QuestionRead, GivesUp, size, parsed
    <3> QED
      BY <3>4, <3>5, <3>6
  <2> QED
    BY <1>1, <1>2, <2>1 DEF QuestionKept
<1>10. TurnsKept(m)
  <2>1. 1 .. Len(m.ends) = {}
    BY <1>2
  <2> QED
    BY <2>1 DEF TurnsKept
<1>11. Kept(m, flags)
  BY <1>5, <1>6, <1>7, <1>8, <1>9, <1>10 DEF Kept
<1> QED
  BY <1>11 DEF m

(* One more answer keeps all that. *)
LEMMA AnswerKeeps ==
  ASSUME NEW m, NEW flags, Kept(m, flags), Len(m.answers) < m.count,
         NEW owned \in NamesIn(m), NEW data \in Data(m)
  PROVE  Kept(WithAnswer(m, owned, data), flags)
<1> DEFINE n == WithAnswer(m, owned, data)
           L == Len(m.ends)
           start == Len(m.bytes)
           total == Len(n.bytes)
           answer == Answer(owned.says, data.type, data.says)
<1>1. /\ m \in Messages /\ Measured(m) /\ HeaderKept(m, flags) /\ OwnerPlaced(m)
      /\ NamesKept(m) /\ QuestionKept(m) /\ TurnsKept(m)
  BY DEF Kept, Measured
<1>2. owned \in Writtens /\ data \in DataRecords /\ Len(owned.bytes) >= 1
  BY <1>1, EndsOfAre, NamesSaySomething, DataIs
<1>3. Extended(n, m, owned, data)
  BY <1>1, <1>2, WithAnswerIs
<1>4. /\ n \in Messages /\ n.bytes = ((m.bytes \o owned.bytes) \o Fixed(data)) \o data.bytes
      /\ total = start + Len(owned.bytes) + 10 + Len(data.bytes)
      /\ n.ends = Append(m.ends, total) /\ n.answers = Append(m.answers, answer)
      /\ n.owner = [at |-> start, name |-> owned.says]
      /\ n.qname = m.qname /\ n.count = m.count /\ n.asked = m.asked
  <2> HIDE DEF n
  <2> QED
    BY <1>3 DEF Extended
<1>5. \A p \in Buffers : Lies(n.bytes, p, 0) =>
        /\ Lies(m.bytes, p, 0) /\ Lies(owned.bytes, p, start)
  BY <1>1, <1>2, RecordLies
<1>6. \A p \in Buffers, answers \in Seq(AnswerRecords) : Lies(n.bytes, p, 0) =>
        RecordRead(m, owned, data, p, answers)
  BY <1>1, RecordIsRead
<1>7. /\ m.ends \in Seq(Nat) /\ m.answers \in Seq(AnswerRecords) /\ L \in Nat /\ start \in Nat
      /\ answer \in AnswerRecords /\ m.asked \in Nat /\ m.count \in Nat
      /\ Len(owned.bytes) \in Nat /\ Len(data.bytes) \in Nat
  <2>1. m.ends \in Seq(Nat) /\ m.answers \in Seq(AnswerRecords) /\ m.asked \in Nat /\ m.count \in Nat /\ m.bytes \in Texts
    BY <1>1 DEF Messages
  <2>2. answer \in AnswerRecords
    BY <1>2 DEF Answer, AnswerRecords, Writtens, DataRecords
  <2>3. Len(owned.bytes) \in Nat /\ Len(data.bytes) \in Nat
    BY <1>2 DEF Writtens, DataRecords, Texts
  <2> QED
    BY <2>1, <2>2, <2>3 DEF Texts
<1>8. total \in Nat /\ total >= start + 11
  <2> DEFINE o == Len(owned.bytes)
             d == Len(data.bytes)
  <2>1. o \in Nat /\ d \in Nat /\ o >= 1 /\ total = start + o + 10 + d
    BY <1>2, <1>4, <1>7
  <2> HIDE DEF o, d, n, start, total
  <2> QED
    BY <1>7, <2>1 DEF start
<1>9. /\ Len(n.ends) = L + 1 /\ n.ends[L + 1] = total /\ \A k \in 1 .. L : n.ends[k] = m.ends[k]
      /\ Len(n.answers) = L + 1 /\ n.answers[L + 1] = answer /\ \A k \in 1 .. L : n.answers[k] = m.answers[k]
  <2>1. Len(m.answers) = L
    BY <1>1 DEF Measured
  <2> HIDE DEF n, total, answer
  <2>2. /\ Len(n.ends) = L + 1 /\ n.ends[L + 1] = total /\ \A k \in 1 .. L : n.ends[k] = m.ends[k]
    <3>1. /\ Len(Append(m.ends, total)) = Len(m.ends) + 1
          /\ Append(m.ends, total)[Len(m.ends) + 1] = total
          /\ \A k \in 1 .. Len(m.ends) : Append(m.ends, total)[k] = m.ends[k]
      BY <1>7, <1>8, AppendProperties
    <3> QED
      BY <1>4, <3>1
  <2>3. /\ Len(n.answers) = Len(m.answers) + 1 /\ n.answers[Len(m.answers) + 1] = answer
        /\ \A k \in 1 .. Len(m.answers) : n.answers[k] = m.answers[k]
    BY <1>4, <1>7, AppendProperties
  <2> QED
    BY <2>1, <2>2, <2>3
<1> HIDE DEF n, total, start, answer, L
<1>10. \A k \in 1 .. L + 1 : k \in 1 .. L \/ k = L + 1
  BY <1>7
<1>11. Measured(n)
  <2>1. /\ start = End(m, L) /\ m.asked >= 19 /\ L <= m.count /\ Len(m.answers) = L
        /\ \A k \in 1 .. L : m.asked <= m.ends[k] /\ m.ends[k] <= start
        /\ \A j, k \in 1 .. L : j <= k => m.ends[j] <= m.ends[k]
        /\ \A k \in 1 .. L : m.ends[k] \in Nat
    BY <1>1, <1>7 DEF Measured, L, start
  <2>2. m.asked <= start
    <3>1. CASE L = 0
      BY <1>7, <2>1, <3>1 DEF End
    <3>2. CASE L # 0
      <4>1. L \in 1 .. L
        BY <1>7, <3>2
      <4> QED
        BY <1>7, <2>1, <4>1
    <3> QED
      BY <3>1, <3>2
  <2>3. Len(n.bytes) = End(n, Len(n.ends))
    <3>1. L + 1 # 0
      BY <1>7
    <3> QED
      BY <1>9, <3>1 DEF End, total
  <2>4. ASSUME NEW k \in 1 .. L + 1 PROVE n.asked <= n.ends[k] /\ n.ends[k] <= total
    <3>1. CASE k \in 1 .. L
      <4>1. m.asked <= m.ends[k] /\ m.ends[k] <= start /\ m.ends[k] \in Nat
        BY <2>1, <3>1
      <4>2. n.ends[k] = m.ends[k]
        BY <1>9, <3>1
      <4>3. m.ends[k] <= total
        BY <1>7, <1>8, <4>1
      <4> QED
        BY <1>4, <4>1, <4>2, <4>3
    <3>2. CASE k = L + 1
      BY <1>4, <1>7, <1>8, <1>9, <2>2, <3>2
    <3> QED
      BY <1>10, <3>1, <3>2
  <2>5. ASSUME NEW j \in 1 .. L + 1, NEW k \in 1 .. L + 1, j <= k PROVE n.ends[j] <= n.ends[k]
    <3>1. CASE k = L + 1
      BY <1>9, <2>4, <3>1
    <3>2. CASE k \in 1 .. L
      <4>1. j \in 1 .. L
        BY <1>7, <2>5, <3>2
      <4> QED
        BY <1>9, <2>1, <2>5, <3>2, <4>1
    <3> QED
      BY <1>10, <3>1, <3>2
  <2>6. L + 1 <= n.count
    BY <1>4, <1>7, <2>1
  <2>7. n.asked >= 19
    BY <1>4, <2>1
  <2> QED
    BY <1>4, <1>9, <2>3, <2>4, <2>5, <2>6, <2>7 DEF Measured, total
<1>12. HeaderKept(n, flags)
  <2> DEFINE one == m.bytes
             two == one \o owned.bytes
             three == two \o Fixed(data)
  <2>1. one \in Texts /\ owned.bytes \in Texts /\ Fixed(data) \in Texts /\ data.bytes \in Texts
    BY <1>1, <1>2, FixedIs DEF Messages, Writtens, DataRecords
  <2> HIDE DEF one
  <2>2. two \in Texts /\ Len(two) = Len(one) + Len(owned.bytes) /\ \A i \in 1 .. Len(one) : two[i] = one[i]
    BY <2>1, ConcatIs
  <2> HIDE DEF two
  <2>3. three \in Texts /\ Len(three) = Len(two) + Len(Fixed(data)) /\ \A i \in 1 .. Len(two) : three[i] = two[i]
    BY <2>1, <2>2, ConcatIs
  <2> HIDE DEF three
  <2>4. \A i \in 1 .. Len(three) : (three \o data.bytes)[i] = three[i]
    BY <2>1, <2>3, ConcatIs
  <2>5. n.bytes = three \o data.bytes
    BY <1>4 DEF one, two, three
  <2>6. /\ Len(one) >= 12 /\ one[3] = flags /\ one[4] = 0 /\ one[11] = 0
        /\ one[5] = 0 /\ one[6] = 1 /\ one[7] = 0 /\ one[8] = n.count /\ Len(one) = start
    BY <1>1, <1>4 DEF HeaderKept, one, start
  <2>7. ASSUME NEW i \in 1 .. 12 PROVE n.bytes[i] = one[i]
    <3>1. i \in 1 .. Len(one)
      BY <1>7, <2>6
    <3>2. i \in 1 .. Len(two)
      <4>1. Len(one) \in Nat /\ Len(owned.bytes) \in Nat
        BY <2>1, ConcatIs
      <4> QED
        BY <2>2, <3>1, <4>1
    <3>3. i \in 1 .. Len(three)
      <4>1. Len(two) \in Nat /\ Len(Fixed(data)) \in Nat
        BY <2>1, <2>2, ConcatIs
      <4> QED
        BY <2>3, <3>2, <4>1
    <3> QED
      BY <2>2, <2>3, <2>4, <2>5, <3>1, <3>2, <3>3
  <2>8. Len(n.bytes) >= 12
    BY <1>7, <1>8, <2>6 DEF total
  <2>9. /\ 3 \in 1 .. 12 /\ 4 \in 1 .. 12 /\ 5 \in 1 .. 12 /\ 6 \in 1 .. 12 /\ 7 \in 1 .. 12
        /\ 8 \in 1 .. 12 /\ 11 \in 1 .. 12
    OBVIOUS
  <2> QED
    BY <2>6, <2>7, <2>8, <2>9 DEF HeaderKept
<1>13. start >= 19
  <2>1. m.asked >= 19 /\ (L = 0 => start = m.asked) /\ (L # 0 => L \in 1 .. L)
        /\ \A k \in 1 .. L : m.asked <= m.ends[k] /\ m.ends[k] <= start /\ m.ends[k] \in Nat
    BY <1>1, <1>7 DEF Measured, End, L, start
  <2> QED
    BY <1>7, <2>1
<1>14. n.owner.at = start /\ n.owner.name = owned.says
  BY <1>4
<1>15. OwnerPlaced(n)
  BY <1>7, <1>8, <1>13, <1>14 DEF OwnerPlaced, total
<1>16. NamesKept(n)
  <2>1. ASSUME NEW p \in Buffers, Lies(n.bytes, p, 0), total <= Len(p), NEW left \in 0 .. 16
        PROVE  /\ NamesFrom(p)[left][12].name = n.qname
               /\ 11 * left + 12 >= start => NamesFrom(p)[left][start].name = owned.says
    <3>1. Lies(m.bytes, p, 0) /\ Lies(owned.bytes, p, start)
      BY <1>5, <2>1
    <3>2. Len(p) \in Nat /\ start + Len(owned.bytes) <= Len(p) /\ start <= Len(p)
      <4> DEFINE size == Len(p)
                 o == Len(owned.bytes)
                 d == Len(data.bytes)
      <4>1. size \in Nat /\ o \in Nat /\ d \in Nat /\ total = start + o + 10 + d /\ total <= size
        BY <1>4, <1>7, <2>1, AtIs DEF Buffers, Texts
      <4> HIDE DEF size, o, d
      <4>2. start + o <= size /\ start <= size
        BY <1>7, <4>1
      <4> QED
        BY <4>1, <4>2 DEF size, o
    <3>3. Reachable(m, p)
      BY <1>1, <3>1, <3>2 DEF NamesKept, start
    <3>4. ASSUME 11 * left + 12 >= start PROVE NamesFrom(p)[left][start].name = owned.says
      <4>1. left \in 1 .. 16 /\ 11 * (left - 1) + 12 >= m.owner.at
        <5>1. m.owner.at \in Nat /\ (m.owner.at = 12 \/ start >= m.owner.at + 11)
          BY <1>1 DEF OwnerPlaced, Messages, start
        <5>2. left \in 1 .. 16
          BY <1>7, <1>13, <3>4
        <5>3. start \in Nat /\ 11 * left + 12 >= start
          BY <1>7, <3>4
        <5> DEFINE at == m.owner.at
        <5>4. at \in Nat /\ (at = 12 \/ start >= at + 11)
          BY <5>1
        <5> HIDE DEF at
        <5>5. 11 * (left - 1) = 11 * left - 11
          BY <5>2
        <5>6. CASE at = 12
          <6>1. 11 * (left - 1) + 12 >= at
            BY <5>2, <5>6
          <6> QED
            BY <5>2, <6>1 DEF at
        <5>7. CASE start >= at + 11
          <6>1. 11 * (left - 1) + 12 >= at
            BY <5>2, <5>3, <5>4, <5>5, <5>7
          <6> QED
            BY <5>2, <6>1 DEF at
        <5> QED
          BY <5>4, <5>6, <5>7
      <4>2. start >= start /\ start = Len(m.bytes)
        BY <1>7 DEF start
      <4>3. start + Len(owned.bytes) <= Len(p) =>
              NamesFrom(p)[left][start] = Parsed(owned.says, start + Len(owned.bytes))
        BY <1>1, <1>7, <3>1, <4>1, <4>2, NextNameIsRead
      <4> QED
        BY <3>2, <4>3 DEF Parsed
    <3> QED
      BY <1>4, <3>3, <3>4 DEF Reachable
  <2>2. ASSUME NEW p \in Buffers, Lies(n.bytes, p, 0), total <= Len(p) PROVE Reachable(n, p)
    BY <1>14, <2>1, <2>2 DEF Reachable
  <2> QED
    BY <2>2 DEF NamesKept, total
<1>17. QuestionKept(n)
  <2>1. ASSUME NEW p \in Buffers, Lies(n.bytes, p, 0) PROVE QuestionRead(n, p)
    <3>1. QuestionRead(m, p)
      BY <1>1, <1>5, <2>1 DEF QuestionKept
    <3> QED
      BY <1>4, <3>1 DEF QuestionRead
  <2> QED
    BY <1>1, <1>4, <2>1 DEF QuestionKept
<1>18. TurnsKept(n)
  <2>1. ASSUME NEW p \in Buffers, Lies(n.bytes, p, 0), NEW k \in 1 .. L + 1,
               NEW answers \in Seq(AnswerRecords)
        PROVE  TurnRead(n, p, k, answers)
    <3>1. CASE k \in 1 .. L
      <4>1. TurnRead(m, p, k, answers)
        BY <1>1, <1>5, <2>1, <3>1 DEF TurnsKept, L
      <4>2. End(n, k - 1) = End(m, k - 1)
        <5>1. CASE k - 1 = 0
          BY <1>4, <5>1 DEF End
        <5>2. CASE k - 1 # 0
          <6>1. k - 1 \in 1 .. L
            BY <1>7, <3>1, <5>2
          <6> QED
            BY <1>9, <5>2, <6>1 DEF End
        <5> QED
          BY <5>1, <5>2
      <4> QED
        BY <1>9, <3>1, <4>1, <4>2 DEF TurnRead
    <3>2. CASE k = L + 1
      <4>1. End(n, k - 1) = start
        <5>1. k - 1 = L /\ start = End(m, L)
          BY <1>1, <1>7, <3>2 DEF Measured, start, L
        <5>2. CASE L = 0
          BY <1>4, <5>1, <5>2 DEF End
        <5>3. CASE L # 0
          <6>1. L \in 1 .. L
            BY <1>7, <5>3
          <6> QED
            BY <1>9, <5>1, <5>3, <6>1 DEF End
        <5> QED
          BY <5>2, <5>3
      <4> QED
        <5>1. ReadAnswer(p, Turn(TRUE, start, answers)) =
                IF total <= Len(p) THEN Turn(TRUE, total, Append(answers, answer))
                ELSE Turn(FALSE, start, answers)
          BY <1>6, <2>1 DEF RecordRead, n, total, start, answer
        <5> QED
          BY <1>9, <3>2, <4>1, <5>1 DEF TurnRead
    <3> QED
      BY <1>10, <3>1, <3>2
  <2> QED
    BY <1>9, <2>1 DEF TurnsKept
<1>19. Kept(n, flags)
  BY <1>11, <1>12, <1>15, <1>16, <1>17, <1>18 DEF Kept
<1> QED
  BY <1>19 DEF n

(* The answers that are whole are the first ones, so many. *)
LEMMA WholeOnesAreFirst ==
  ASSUME NEW ends \in Seq(Nat), NEW size \in Nat,
         \A j, k \in 1 .. Len(ends) : j <= k => ends[j] <= ends[k]
  PROVE  \E w \in 0 .. Len(ends) :
           /\ Cardinality({ i \in DOMAIN ends : ends[i] <= size }) = w
           /\ \A i \in 1 .. Len(ends) : ends[i] <= size <=> i <= w
<1> DEFINE L == Len(ends)
           First(w, n) == \A i \in 1 .. n : ends[i] <= size <=> i <= w
           S == { n \in Nat : n <= L => \E w \in 0 .. n : First(w, n) }
<1>1. L \in Nat /\ DOMAIN ends = 1 .. L /\ \A i \in 1 .. L : ends[i] \in Nat
  OBVIOUS
<1>2. 0 \in S
  OBVIOUS
<1>3. ASSUME NEW n \in Nat, n \in S PROVE n + 1 \in S
  <2>1. CASE n + 1 <= L
    <3>1. PICK w \in 0 .. n : First(w, n)
      BY <1>1, <1>3, <2>1
    <3>2. CASE ends[n + 1] <= size
      <4>1. ASSUME NEW i \in 1 .. n + 1 PROVE ends[i] <= size <=> i <= n + 1
        <5>1. i \in 1 .. L /\ n + 1 \in 1 .. L /\ i <= n + 1
          BY <1>1, <2>1
        <5>2. ends[i] <= ends[n + 1] /\ ends[i] \in Nat /\ ends[n + 1] \in Nat
          BY <1>1, <5>1
        <5> QED
          BY <3>2, <5>1, <5>2
      <4>2. First(n + 1, n + 1) /\ n + 1 \in 0 .. n + 1
        BY <4>1
      <4> HIDE DEF First
      <4> QED
        BY <4>2
    <3>3. CASE ~ (ends[n + 1] <= size)
      <4>1. First(w, n + 1) /\ w \in 0 .. n + 1
        BY <3>1, <3>3
      <4> HIDE DEF First
      <4> QED
        BY <4>1
    <3> QED
      BY <3>2, <3>3
  <2> HIDE DEF First, L
  <2> QED
    BY <2>1
<1>4. L \in S
  <2> HIDE DEF S
  <2> QED
    BY <1>1, <1>2, <1>3, Induction
<1>5. PICK w \in 0 .. L : First(w, L)
  <2> HIDE DEF First, L
  <2> QED
    BY <1>1, <1>4
<1>6. { i \in DOMAIN ends : ends[i] <= size } = 1 .. w
  BY <1>1, <1>5
<1>7. Cardinality(1 .. w) = w
  <2>1. 1 \in Int /\ w \in Int /\ (1 > w => w = 0) /\ w - 1 + 1 = w
    BY <1>1
  <2> QED
    BY <2>1, FS_Interval
<1> QED
  BY <1>5, <1>6, <1>7

(* The answers that are read of a message that was cut. *)
LEMMA AnswersAreRead ==
  ASSUME NEW m, NEW flags, Kept(m, flags), Len(m.ends) = m.count, NEW p \in Buffers,
         Lies(m.bytes, p, 0), NEW w \in 0 .. Len(m.ends),
         \A i \in 1 .. Len(m.ends) : m.ends[i] <= Len(p) <=> i <= w
  PROVE  Answers(p, m.asked, m.count) = SubSeq(m.answers, 1, w)
<1> DEFINE n == m.count
           upto(k) == SubSeq(m.answers, 1, k)
           Reached(k) == IF k <= w THEN Turn(TRUE, End(m, k), upto(k)) ELSE Turn(FALSE, End(m, w), upto(w))
           Step(g, k) == IF k = 0 THEN [going |-> TRUE, pos |-> m.asked, answers |-> << >>]
                         ELSE ReadAnswer(p, g[k - 1])
           T == CHOOSE g : g = [k \in 0 .. n |-> Step(g, k)]
           f == [k \in 0 .. n |-> Reached(k)]
<1>1. /\ n \in Nat /\ n = Len(m.ends) /\ Len(m.answers) = n /\ m.answers \in Seq(AnswerRecords)
      /\ w \in Nat /\ w <= n
  BY DEF Kept, Measured, Messages
<1>2. ASSUME NEW k \in 0 .. n PROVE upto(k) \in Seq(AnswerRecords) /\ Len(upto(k)) = k
                                    /\ \A i \in 1 .. k : upto(k)[i] = m.answers[i]
  BY <1>1
<1>3. upto(0) = << >>
  BY <1>1
<1>4. ASSUME NEW k \in 1 .. n PROVE upto(k) = Append(upto(k - 1), m.answers[k])
  BY <1>1
<1>5. ASSUME NEW k \in 1 .. n
      PROVE  TurnRead(m, p, k, upto(k - 1))
  <2>1. k - 1 \in 0 .. n /\ k \in 1 .. Len(m.ends)
    BY <1>1
  <2>2. upto(k - 1) \in Seq(AnswerRecords)
    BY <1>2, <2>1
  <2> HIDE DEF upto
  <2> QED
    BY <2>1, <2>2 DEF Kept, TurnsKept
<1> HIDE DEF upto
<1>6. ASSUME NEW k \in 1 .. n PROVE ReadAnswer(p, Reached(k - 1)) = Reached(k)
  <2>0. k - 1 \in Nat /\ k \in Nat /\ k # 0 /\ k \in 1 .. Len(m.ends)
    BY <1>1
  <2>1. CASE k <= w
    <3>1. k - 1 <= w /\ m.ends[k] <= Len(p)
      BY <1>1, <2>0, <2>1
    <3>2. End(m, k) = m.ends[k]
      BY <2>0 DEF End
    <3> QED
      BY <1>4, <1>5, <2>1, <3>1, <3>2 DEF TurnRead
  <2>2. CASE k - 1 = w
    <3>1. ~ (k <= w) /\ ~ (m.ends[k] <= Len(p)) /\ k - 1 <= w
      BY <1>1, <2>0, <2>2
    <3> QED
      BY <1>5, <2>2, <3>1 DEF TurnRead
  <2>3. CASE ~ (k - 1 <= w)
    <3>1. ~ (k <= w)
      BY <1>1, <2>0, <2>3
    <3>2. ReadAnswer(p, Turn(FALSE, End(m, w), upto(w))) = Turn(FALSE, End(m, w), upto(w))
      BY DEF ReadAnswer, Turn, Stopped
    <3> QED
      BY <2>3, <3>1, <3>2
  <2>4. k <= w \/ k - 1 = w \/ ~ (k - 1 <= w)
    BY <1>1, <2>0
  <2> QED
    BY <2>1, <2>2, <2>3, <2>4
<1>7. Reached(0) = [going |-> TRUE, pos |-> m.asked, answers |-> << >>]
  <2>1. 0 <= w /\ 0 = 0
    BY <1>1
  <2>2. Reached(0) = Turn(TRUE, End(m, 0), upto(0))
    BY <2>1
  <2> QED
    BY <1>3, <2>2 DEF Turn, End
<1> HIDE DEF Reached
<1>8. f = [k \in 0 .. n |-> Step(f, k)]
  <2>1. ASSUME NEW k \in 0 .. n PROVE f[k] = Step(f, k)
    <3>1. CASE k = 0
      BY <1>7, <3>1
    <3>2. CASE k # 0
      <4>1. k \in 1 .. n /\ k - 1 \in 0 .. n
        BY <1>1, <3>2
      <4>2. f[k - 1] = Reached(k - 1) /\ f[k] = Reached(k)
        BY <4>1
      <4> HIDE DEF f
      <4> QED
        BY <1>6, <3>2, <4>1, <4>2
    <3> QED
      BY <3>1, <3>2
  <2> HIDE DEF Step
  <2> QED
    BY <2>1
<1>9. Answers(p, m.asked, n) = T[n].answers
  BY DEF Answers
<1>10. T = [k \in 0 .. n |-> Step(T, k)]
  <2> HIDE DEF Step, f
  <2> QED
    BY <1>8
<1> HIDE DEF T
<1>11. \A k \in 0 .. n : T[k] = Step(T, k)
  <2> HIDE DEF Step
  <2> QED
    BY <1>10
<1> DEFINE S == { k \in Nat : k <= n => T[k] = Reached(k) }
<1>12. 0 \in S
  <2>1. T[0] = Step(T, 0)
    <3>1. 0 \in 0 .. n
      BY <1>1
    <3> HIDE DEF Step
    <3> QED
      BY <1>11, <3>1
  <2> QED
    BY <1>7, <2>1
<1>13. ASSUME NEW k \in Nat, k \in S PROVE k + 1 \in S
  <2>1. CASE k + 1 <= n
    <3>1. k + 1 \in 1 .. n /\ k + 1 \in 0 .. n /\ k + 1 # 0 /\ k + 1 - 1 = k /\ T[k] = Reached(k)
      BY <1>1, <1>13, <2>1
    <3>2. T[k + 1] = ReadAnswer(p, T[k + 1 - 1])
      BY <1>11, <3>1
    <3> QED
      BY <1>6, <3>1, <3>2
  <2> QED
    BY <2>1
<1>14. n \in S
  <2> HIDE DEF S
  <2> QED
    BY <1>1, <1>12, <1>13, Induction
<1>15. Reached(n).answers = upto(w)
  BY <1>1 DEF Reached, Turn
<1> QED
  BY <1>1, <1>9, <1>14, <1>15 DEF upto

(* What was captured of a message lies in the buffer, and in the buffer of *)
(* one that is framed it lies two bytes further on.                        *)
LEMMA CutLies ==
  ASSUME NEW s \in Texts, NEW size \in Nat, size <= Len(s), size <= 128
  PROVE  /\ SubSeq(s, 1, size) \in Buffers /\ Len(SubSeq(s, 1, size)) = size
         /\ Lies(s, SubSeq(s, 1, size), 0)
         /\ \A i \in 1 .. size : At(SubSeq(s, 1, size), i - 1) = s[i]
<1> DEFINE p == SubSeq(s, 1, size)
<1>1. p \in Texts /\ Len(p) = size /\ \A i \in 1 .. size : p[i] = s[i]
  BY DEF Texts
<1> HIDE DEF p
<1>2. p \in Buffers
  BY <1>1 DEF Buffers, Texts
<1>3. ASSUME NEW i \in 1 .. size PROVE At(p, i - 1) = s[i]
  <2>1. i - 1 \in Nat /\ i - 1 < Len(p) /\ i - 1 + 1 = i
    BY <1>1
  <2> QED
    BY <1>1, <2>1, AtIs
<1>4. Lies(s, p, 0)
  <2>1. ASSUME NEW i \in 1 .. Len(s), 0 + i <= Len(p) PROVE At(p, 0 + i - 1) = s[i]
    <3>1. i \in 1 .. size /\ 0 + i - 1 = i - 1
      BY <1>1, <2>1
    <3> QED
      BY <1>3, <3>1
  <2> QED
    BY <2>1 DEF Lies
<1> QED
  BY <1>1, <1>2, <1>3, <1>4 DEF p

Decoded(m, is, size, whole) ==
  IF size < m.asked THEN Nothing
  ELSE IF is = "query" THEN [kind |-> "dns-query", qname |-> m.qname, qtype |-> A]
  ELSE [kind |-> "dns-answer", qname |-> m.qname, qtype |-> A, answers |-> SubSeq(m.answers, 1, whole)]

Flags(is) == IF is = "query" THEN 1 ELSE 129

(* A datagram is decoded to what is whole in it. *)
LEMMA DatagramIsDecoded ==
  ASSUME NEW m, NEW is \in {"query", "answer"}, Kept(m, Flags(is)), Len(m.ends) = m.count,
         NEW size \in Nat, size <= Len(m.bytes), size <= 128,
         NEW call \in {"send", "recv"}, NEW transport, transport # "tcp"
  PROVE  try_decode_dns(DnsFlow(call, transport), SubSeq(m.bytes, 1, size))
           = Decoded(m, is, size, Cardinality({ i \in DOMAIN m.ends : m.ends[i] <= size }))
<1> DEFINE p == SubSeq(m.bytes, 1, size)
           flow == DnsFlow(call, transport)
           whole == Cardinality({ i \in DOMAIN m.ends : m.ends[i] <= size })
           question == dns_parse_name(p, 12)
           Wanted == try_decode_dns(flow, p) = Decoded(m, is, size, whole)
<1> SUFFICES Wanted
  OBVIOUS
<1>1. m \in Messages /\ m.bytes \in Texts /\ m.ends \in Seq(Nat) /\ Len(m.bytes) \in Nat
  BY DEF Kept, Measured, Messages, Texts
<1>2. /\ p \in Buffers /\ Len(p) = size /\ Lies(m.bytes, p, 0)
      /\ \A i \in 1 .. size : At(p, i - 1) = m.bytes[i]
  BY <1>1, CutLies
<1>3. PICK w \in 0 .. Len(m.ends) : whole = w /\ \A i \in 1 .. Len(m.ends) : m.ends[i] <= size <=> i <= w
  BY <1>1, WholeOnesAreFirst DEF Kept, Measured
<1> HIDE DEF p, whole, question
<1>4. QuestionRead(m, p) /\ m.qname # << >> /\ m.asked >= 19 /\ m.asked \in Nat
  BY <1>1, <1>2 DEF Kept, QuestionKept, Measured, Messages
<1>5. /\ flow.call \in {"send", "recv"} /\ flow.transport # "tcp" /\ flow.remote = 53
  BY DEF DnsFlow
<1> HIDE DEF flow
<1>6. CASE size < 12
  <2>1. size < m.asked
    BY <1>4, <1>6
  <2> QED
    BY <1>2, <1>6, <2>1 DEF try_decode_dns, Decoded
<1>7. CASE size >= 12
  <2>0. ~ (size < 12)
    BY <1>7
  <2>1. At(p, 2) = Flags(is) /\ Word(p, 4) = 1 /\ Word(p, 6) = m.count
    <3>1. At(p, 3 - 1) = m.bytes[3] /\ At(p, 5 - 1) = m.bytes[5] /\ At(p, 6 - 1) = m.bytes[6]
          /\ At(p, 7 - 1) = m.bytes[7] /\ At(p, 8 - 1) = m.bytes[8]
      <4>1. 3 \in 1 .. size /\ 5 \in 1 .. size /\ 6 \in 1 .. size /\ 7 \in 1 .. size /\ 8 \in 1 .. size
        BY <1>7
      <4> QED
        BY <1>2, <4>1
    <3>2. At(p, 2) = Flags(is) /\ At(p, 4) = 0 /\ At(p, 4 + 1) = 1 /\ At(p, 6) = 0 /\ At(p, 6 + 1) = m.count
      BY <3>1 DEF Kept, HeaderKept
    <3>3. m.count \in Nat
      BY <1>1 DEF Messages
    <3> QED
      BY <3>2, <3>3 DEF Word
  <2>2. try_decode_dns(flow, p) =
          IF question.name = << >> \/ question.pos + 4 > Len(p) THEN Nothing
          ELSE IF At(p, 2) < 128
          THEN [kind |-> "dns-query", qname |-> question.name, qtype |-> Word(p, question.pos)]
          ELSE [kind |-> "dns-answer", qname |-> question.name, qtype |-> Word(p, question.pos),
                answers |-> Answers(p, question.pos + 4, Word(p, 6))]
    <3>1. Word(p, 4) >= 1
      BY <2>1
    <3> QED
      BY <1>2, <1>5, <2>0, <3>1 DEF try_decode_dns, question
  <2>3. CASE size < m.asked
    <3>1. question.name = << >> \/ question.pos + 4 > Len(p)
      BY <1>2, <1>4, <2>3 DEF QuestionRead, question
    <3> QED
      BY <2>2, <2>3, <3>1 DEF Decoded
  <2>4. CASE size >= m.asked
    <3>1. /\ question = Parsed(m.qname, m.asked - 4) /\ Word(p, m.asked - 4) = A
          /\ ~ (size < m.asked)
      BY <1>2, <1>4, <2>4 DEF QuestionRead, question
    <3>2. /\ question.name = m.qname /\ question.pos = m.asked - 4
          /\ m.asked - 4 + 4 = m.asked /\ ~ (m.asked > Len(p))
      BY <1>2, <1>4, <2>4, <3>1 DEF Parsed
    <3>3. CASE is = "query"
      <4>1. At(p, 2) < 128
        BY <2>1, <3>3 DEF Flags
      <4> QED
        BY <1>4, <2>2, <3>1, <3>2, <3>3, <4>1 DEF Decoded
    <3>4. CASE is = "answer"
      <4>1. ~ (At(p, 2) < 128) /\ is # "query"
        BY <2>1, <3>4 DEF Flags
      <4>2. Answers(p, m.asked, m.count) = SubSeq(m.answers, 1, w)
        BY <1>2, <1>3, AnswersAreRead
      <4>3. Answers(p, question.pos + 4, Word(p, 6)) = SubSeq(m.answers, 1, whole)
        BY <1>3, <2>1, <3>2, <4>2
      <4> QED
        BY <1>4, <2>2, <3>1, <3>2, <4>1, <4>3 DEF Decoded
    <3> QED
      BY <3>3, <3>4
  <2> QED
    BY <1>4, <2>3, <2>4
<1> QED
  BY <1>6, <1>7

(* A message framed for TCP has no name where the decoder looks for the    *)
(* question.                                                               *)
LEMMA FramedIsNot ==
  ASSUME NEW m, NEW flags \in {1, 129}, Kept(m, flags), NEW size \in Nat, NEW hi \in Nat, NEW lo \in Nat,
         size <= Len(<< hi, lo >> \o m.bytes), size <= 128, NEW call, NEW transport
  PROVE  try_decode_dns(DnsFlow(call, transport), SubSeq(<< hi, lo >> \o m.bytes, 1, size)) = Nothing
<1> DEFINE s == << hi, lo >> \o m.bytes
           p == SubSeq(s, 1, size)
           flow == DnsFlow(call, transport)
           length == << hi, lo >>
<1>1. m.bytes \in Texts /\ length \in Texts /\ Len(length) = 2 /\ Len(m.bytes) \in Nat
  BY DEF Kept, Measured, Messages, Texts
<1>2. s \in Texts /\ Len(s) = 2 + Len(m.bytes)
      /\ \A i \in 1 .. Len(m.bytes) : s[2 + i] = m.bytes[i]
  <2> DEFINE body == m.bytes
  <2>a. length \in Texts /\ body \in Texts
    BY <1>1
  <2> HIDE DEF length, body
  <2>1. /\ length \o body \in Texts /\ Len(length \o body) = Len(length) + Len(body)
        /\ \A i \in 1 .. Len(body) : (length \o body)[Len(length) + i] = body[i]
    BY <2>a, ConcatIs
  <2> QED
    BY <1>1, <2>1 DEF length, body
<1>a. size <= Len(s)
  OBVIOUS
<1> HIDE DEF s, length
<1>3. /\ p \in Buffers /\ Len(p) = size /\ \A i \in 1 .. size : At(p, i - 1) = s[i]
  BY <1>2, <1>a, CutLies
<1>4. /\ Len(m.bytes) >= 12 /\ m.bytes[3] = flags /\ m.bytes[4] = 0 /\ m.bytes[11] = 0
  BY DEF Kept, HeaderKept
<1> HIDE DEF p, flow
<1>5. CASE size < 12
  BY <1>3, <1>5 DEF try_decode_dns, s, p, flow
<1>6. CASE size >= 12
  <2>1. Word(p, 4) >= 1
    <3>1. /\ 5 \in 1 .. size /\ 6 \in 1 .. size /\ 3 \in 1 .. Len(m.bytes) /\ 4 \in 1 .. Len(m.bytes)
          /\ 2 + 3 = 5 /\ 2 + 4 = 6
      BY <1>1, <1>4, <1>6
    <3>2. At(p, 5 - 1) = s[5] /\ At(p, 6 - 1) = s[6] /\ s[2 + 3] = m.bytes[3] /\ s[2 + 4] = m.bytes[4]
      BY <1>2, <1>3, <3>1
    <3>3. At(p, 4) = flags /\ At(p, 4 + 1) = 0
      BY <1>4, <3>1, <3>2
    <3> QED
      BY <3>3 DEF Word
  <2>2. At(p, 12) = 0 \/ At(p, 12) = -1
    <3>1. CASE size >= 13
      <4>1. 13 \in 1 .. size /\ 11 \in 1 .. Len(m.bytes) /\ 2 + 11 = 13
        BY <1>1, <1>4, <3>1
      <4>2. At(p, 13 - 1) = s[13] /\ s[2 + 11] = m.bytes[11]
        BY <1>2, <1>3, <4>1
      <4>3. At(p, 12) = 0
        BY <1>4, <4>1, <4>2
      <4> QED
        BY <4>3
    <3>2. CASE size < 13
      <4>1. 12 >= Len(p) /\ p \in Texts /\ 12 \in Nat
        BY <1>3, <3>2 DEF Buffers, Texts
      <4> QED
        BY <4>1, AtIs
    <3> QED
      BY <3>1, <3>2
  <2>3. dns_parse_name(p, 12).name = << >>
    <3>1. p \in Texts /\ 16 \in 0 .. 16 /\ 12 \in Nat
      BY <1>3 DEF Buffers, Texts
    <3>2. TailsOf(p, 16) \in Tails /\ NamesFrom(p)[16] = LabelsFrom(p, TailsOf(p, 16))
      BY <1>3, <3>1, NamesAre
    <3>3. NamesFrom(p)[16][12] = LabelAt(p, TailsOf(p, 16), LabelsFrom(p, TailsOf(p, 16)), 12)
      BY <3>1, <3>2, LabelsAre
    <3>4. NamesFrom(p)[16][12].name = << >>
      <4> DEFINE tails == TailsOf(p, 16)
                 labels == LabelsFrom(p, tails)
      <4> HIDE DEF tails, labels
      <4>1. NamesFrom(p)[16][12] = LabelAt(p, tails, labels, 12)
        BY <3>3 DEF tails, labels
      <4>2. CASE At(p, 12) = 0
        BY <3>1, <4>1, <4>2, NameEndsAt DEF Parsed
      <4>3. CASE At(p, 12) = -1
        BY <3>1, <4>1, <4>3, NoNameAt
      <4> QED
        BY <2>2, <4>2, <4>3
    <3> QED
      BY <3>4 DEF dns_parse_name
  <2> QED
    BY <2>1, <2>3 DEF try_decode_dns, s, p, flow
<1> QED
  BY <1>5, <1>6
-----------------------------------------------------------------------------
(* The DNS messages that are sent, and how far they were captured. *)
Flows == { DnsFlow(call, transport) : call \in {"send", "recv"}, transport \in {"udp", "unknown", "tcp"} }
Packets == [is : {"query", "answer"}, framed : BOOLEAN, flow : Flows, says : Messages]

DnsInv ==
  IsDns =>
    /\ packet \in Packets
    /\ Kept(packet.says, Flags(packet.is))
    /\ packet.is = "query" => packet.says.count = 0
    /\ captured \in Nat /\ captured <= PrefixLen /\ captured <= Len(Payload)
    /\ Incomplete => captured = 0

LEMMA TwoBytes ==
  ASSUME NEW n \in Nat
  PROVE  n \div 256 \in Nat /\ n % 256 \in Nat /\ << n \div 256, n % 256 >> \in Texts
<1>1. n \div 256 \in Nat /\ n % 256 \in Nat
  OBVIOUS
<1> QED
  BY <1>1 DEF Texts

LEMMA LenOfPayload ==
  ASSUME NEW m \in Messages, NEW framed \in BOOLEAN
  PROVE  Len(IF framed THEN << Len(m.bytes) \div 256, Len(m.bytes) % 256 >> \o m.bytes
             ELSE m.bytes) \in Nat
<1>1. m.bytes \in Texts /\ Len(m.bytes) \in Nat
  BY DEF Messages, Texts
<1>3. << Len(m.bytes) \div 256, Len(m.bytes) % 256 >> \in Texts
  BY <1>1, TwoBytes
<1> QED
  BY <1>1, <1>3, ConcatIs

LEMMA PayloadIs ==
  ASSUME packet \in Packets
  PROVE  /\ IsDns /\ Len(Payload) \in Nat
         /\ Payload = IF packet.framed
                      THEN << Len(packet.says.bytes) \div 256, Len(packet.says.bytes) % 256 >>
                             \o packet.says.bytes
                      ELSE packet.says.bytes
<1>1. packet.framed \in BOOLEAN /\ packet.says \in Messages /\ IsDns
  BY DEF Packets, IsDns
<1>2. Payload = IF packet.framed
                THEN << Len(packet.says.bytes) \div 256, Len(packet.says.bytes) % 256 >>
                       \o packet.says.bytes
                ELSE packet.says.bytes
  BY <1>1 DEF Payload
<1> QED
  BY <1>1, <1>2, LenOfPayload

LEMMA NextPayloadIs == packet' \in Packets => Len(Payload') \in Nat
<1> SUFFICES ASSUME packet' \in Packets PROVE Len(Payload') \in Nat
  OBVIOUS
<1>1. packet'.framed \in BOOLEAN /\ packet'.says \in Messages /\ IsDns'
  BY DEF Packets, IsDns
<1>2. Payload' = IF packet'.framed
                 THEN << Len(packet'.says.bytes) \div 256, Len(packet'.says.bytes) % 256 >>
                        \o packet'.says.bytes
                 ELSE packet'.says.bytes
  BY <1>1 DEF Payload
<1> QED
  BY <1>1, <1>2, LenOfPayload

LEMMA DnsStarts == DecoderInit => DnsInv
<1> SUFFICES ASSUME DecoderInit, IsDns
             PROVE  /\ packet \in Packets
                    /\ Kept(packet.says, Flags(packet.is))
                    /\ packet.is = "query" => packet.says.count = 0
                    /\ captured \in Nat /\ captured <= PrefixLen /\ captured <= Len(Payload)
  BY DEF DnsInv, DecoderInit
<1>1. packet \in DnsPackets /\ captured = 0
  <2>1. \A http \in HttpPackets : http.is \in {"request", "response"}
    BY DEF HttpPackets
  <2>2. packet \notin HttpPackets
    BY <2>1 DEF IsDns
  <2> QED
    BY <2>2 DEF DecoderInit
<1>2. PICK is \in {"query", "answer"}, framed \in BOOLEAN, call \in {"send", "recv"},
           transport \in {"udp", "unknown", "tcp"}, count \in 0 .. MaxAnswers,
           name \in Spelled({NameEnd}) \ {NameEnd} :
        /\ packet = [is |-> is, framed |-> framed, flow |-> DnsFlow(call, transport),
                     says |-> Question(Flags(is), count, name)]
        /\ is = "query" => count = 0
  <2>0. 0 \in 0 .. MaxAnswers
    BY DecoderAssumption
  <2>1. CASE packet.is = "query"
    <3>1. PICK name \in Spelled({NameEnd}) \ {NameEnd}, framed \in BOOLEAN,
               transport \in {"udp", "unknown", "tcp"} :
            packet = [is |-> "query", framed |-> framed, flow |-> DnsFlow("send", transport),
                      says |-> Question(1, 0, name)]
      BY <1>1, <2>1 DEF DnsPackets
    <3> WITNESS "query" \in {"query", "answer"}, framed \in BOOLEAN, "send" \in {"send", "recv"},
                transport \in {"udp", "unknown", "tcp"}, 0 \in 0 .. MaxAnswers,
                name \in Spelled({NameEnd}) \ {NameEnd}
    <3> QED
      BY <3>1 DEF Flags
  <2>2. CASE packet.is = "answer"
    <3>1. PICK name \in Spelled({NameEnd}) \ {NameEnd}, framed \in BOOLEAN,
               transport \in {"udp", "unknown", "tcp"}, count \in 0 .. MaxAnswers :
            packet = [is |-> "answer", framed |-> framed, flow |-> DnsFlow("recv", transport),
                      says |-> Question(129, count, name)]
      BY <1>1, <2>2 DEF DnsPackets
    <3> WITNESS "answer" \in {"query", "answer"}, framed \in BOOLEAN, "recv" \in {"send", "recv"},
                transport \in {"udp", "unknown", "tcp"}, count \in 0 .. MaxAnswers,
                name \in Spelled({NameEnd}) \ {NameEnd}
    <3> QED
      BY <3>1 DEF Flags
  <2> QED
    BY <2>1, <2>2 DEF IsDns
<1>3. count \in Nat /\ Flags(is) \in Nat
  BY DecoderAssumption DEF Flags
<1>4. Kept(Question(Flags(is), count, name), Flags(is))
  BY <1>3, QuestionKeeps
<1>5. /\ packet.is = is /\ packet.says = Question(Flags(is), count, name) /\ packet.framed = framed
      /\ packet.flow = DnsFlow(call, transport)
  BY <1>2
<1>6. packet.says \in Messages /\ packet.says.count = count
  <2>1. {NameEnd} \in SUBSET Writtens /\ \A e \in {NameEnd} : Len(e.bytes) >= 1
    BY NameEndIs
  <2>2. name \in Writtens
    BY <2>1, NamesSaySomething
  <2>3. Asks(packet.says, Flags(is), count, name)
    BY <1>3, <1>5, <2>2, QuestionIs
  <2> QED
    BY <2>3 DEF Asks
<1>7. packet \in Packets
  <2>1. DnsFlow(call, transport) \in Flows
    BY DEF Flows
  <2> QED
    BY <1>2, <1>5, <1>6, <2>1 DEF Packets
<1>8. Len(Payload) \in Nat
  BY <1>7, PayloadIs
<1>9. captured \in Nat /\ captured <= PrefixLen /\ captured <= Len(Payload)
  BY <1>1, <1>8, DecoderAssumption
<1> QED
  BY <1>2, <1>4, <1>5, <1>6, <1>7, <1>9

LEMMA DnsKept == DnsInv /\ [DecoderNext]_decoderVars => DnsInv'
<1> SUFFICES ASSUME DnsInv, [DecoderNext]_decoderVars PROVE DnsInv'
  OBVIOUS
<1>1. CASE AddAnswer
  <2>0. IsDns /\ packet.is = "answer"
    BY <1>1 DEF AddAnswer, Incomplete, IsDns
  <2>1. /\ packet \in Packets /\ Kept(packet.says, Flags(packet.is)) /\ captured = 0 /\ captured' = 0
        /\ Len(packet.says.answers) < packet.says.count /\ packet.says \in Messages
    BY <1>1, <2>0 DEF DnsInv, AddAnswer, Incomplete, Packets
  <2>2. PICK owned \in NamesIn(packet.says), data \in Data(packet.says) :
          packet' = [packet EXCEPT !.says = WithAnswer(@, owned, data)]
    BY <1>1 DEF AddAnswer
  <2> DEFINE n == WithAnswer(packet.says, owned, data)
  <2>3. Kept(n, Flags(packet.is))
    BY <2>1, AnswerKeeps
  <2>4. n \in Messages
    BY <2>3 DEF Kept, Measured
  <2>5. packet' = [packet EXCEPT !.says = n]
    BY <2>2
  <2> HIDE DEF n
  <2>6. packet' \in Packets /\ packet'.is = packet.is /\ packet'.says = n
    BY <2>1, <2>4, <2>5 DEF Packets
  <2>7. Len(Payload') \in Nat
    BY <2>6, NextPayloadIs
  <2>8. captured' \in Nat /\ captured' <= PrefixLen /\ captured' <= Len(Payload')
    <3>1. PrefixLen \in Nat
      BY DecoderAssumption
    <3>2. captured' = 0
      BY <2>1
    <3> DEFINE size == Len(Payload')
    <3>3. size \in Nat
      BY <2>7
    <3> HIDE DEF size
    <3>4. 0 <= PrefixLen /\ 0 <= size
      BY <3>1, <3>3
    <3> QED
      BY <3>2, <3>4 DEF size
  <2> QED
    BY <2>0, <2>1, <2>3, <2>6, <2>8 DEF DnsInv
<1>2. CASE CaptureMore
  <2>1. packet' = packet /\ ~ Incomplete /\ captured < Len(Payload) /\ captured' = captured + 1
        /\ (IsDns => captured < PrefixLen)
    BY <1>2 DEF CaptureMore
  <2>2. IsDns' = IsDns /\ Payload' = Payload /\ Incomplete' = Incomplete
    BY <2>1 DEF IsDns, Payload, Incomplete
  <2>3. CASE IsDns
    <3>1. captured \in Nat /\ PrefixLen \in Nat /\ Len(Payload) \in Nat
      <4>1. packet \in Packets /\ captured \in Nat
        BY <2>3 DEF DnsInv
      <4>2. Len(Payload) \in Nat
        BY <4>1, PayloadIs
      <4>3. PrefixLen \in Nat
        BY DecoderAssumption
      <4> QED
        BY <4>1, <4>2, <4>3
    <3>2. captured' \in Nat /\ captured' <= PrefixLen /\ captured' <= Len(Payload)
      BY <2>1, <2>3, <3>1
    <3> QED
      BY <2>1, <2>2, <2>3, <3>2 DEF DnsInv
  <2> QED
    BY <2>2, <2>3 DEF DnsInv
<1>3. CASE UNCHANGED decoderVars
  BY <1>3 DEF decoderVars, DnsInv, IsDns, Payload, Incomplete
<1> QED
  BY <1>1, <1>2, <1>3 DEF DecoderNext

LEMMA DnsDecodes == DnsInv => DnsEventIsWhatWasCaptured
<1> SUFFICES ASSUME DnsInv, IsDns
             PROVE  Synthetic =
                      IF packet.framed \/ packet.flow.transport = "tcp" \/ captured < packet.says.asked
                      THEN Nothing
                      ELSE IF packet.is = "query"
                      THEN [kind |-> "dns-query", qname |-> packet.says.qname, qtype |-> A]
                      ELSE [kind |-> "dns-answer", qname |-> packet.says.qname, qtype |-> A,
                            answers |-> SubSeq(packet.says.answers, 1, WholeAnswers)]
  BY DEF DnsEventIsWhatWasCaptured
<1> DEFINE m == packet.says
           p == SubSeq(Payload, 1, captured)
           decoded == try_decode_dns(packet.flow, p)
           Wanted == IF packet.framed \/ packet.flow.transport = "tcp" THEN Nothing
                     ELSE Decoded(m, packet.is, captured, WholeAnswers)
<1>1. /\ packet \in Packets /\ Kept(m, Flags(packet.is)) /\ (packet.is = "query" => m.count = 0)
      /\ captured \in Nat /\ captured <= 128 /\ captured <= Len(Payload)
      /\ packet.is \in {"query", "answer"} /\ m \in Messages
  <2>1. captured <= PrefixLen /\ captured \in Nat /\ PrefixLen \in Nat /\ PrefixLen <= 128
    BY DecoderAssumption DEF DnsInv
  <2> QED
    BY <2>1 DEF DnsInv, Packets
<1>2. PICK call \in {"send", "recv"}, transport \in {"udp", "unknown", "tcp"} :
        packet.flow = DnsFlow(call, transport)
  BY <1>1 DEF Packets, Flows
<1>3. packet.flow.transport = transport /\ packet.flow.remote = 53
  BY <1>2 DEF DnsFlow
<1>4. Synthetic = decoded
  BY <1>3 DEF Synthetic, Synthesized, try_decode_http
<1>5. decoded = Wanted
  <2>1. CASE packet.framed
    <3> DEFINE hi == Len(m.bytes) \div 256
               lo == Len(m.bytes) % 256
    <3>1. hi \in Nat /\ lo \in Nat
      <4>1. Len(m.bytes) \in Nat
        BY <1>1 DEF Messages, Texts
      <4> QED
        BY <4>1, TwoBytes
    <3>2. Payload = << hi, lo >> \o m.bytes
      BY <2>1 DEF Payload
    <3>3. Flags(packet.is) \in {1, 129}
      BY DEF Flags
    <3> HIDE DEF hi, lo
    <3>4. decoded = Nothing
      BY <1>1, <1>2, <3>1, <3>2, <3>3, FramedIsNot
    <3> QED
      BY <2>1, <3>4
  <2>2. CASE ~ packet.framed /\ transport = "tcp"
    <3>1. decoded = Nothing
      BY <1>3, <2>2 DEF try_decode_dns
    <3> QED
      BY <1>3, <2>2, <3>1
  <2>3. CASE ~ packet.framed /\ transport # "tcp"
    <3>1. Payload = m.bytes /\ captured <= Len(m.bytes)
      BY <1>1, <2>3 DEF Payload
    <3>2. /\ m.asked \in Nat /\ m.asked >= 19 /\ Len(m.answers) = Len(m.ends) /\ Len(m.ends) <= m.count
          /\ Len(m.ends) \in Nat /\ m.count \in Nat
      BY <1>1 DEF Kept, Measured, Messages
    <3>3. CASE Len(m.ends) = m.count
      <4>1. decoded = Decoded(m, packet.is, captured,
                              Cardinality({ i \in DOMAIN m.ends : m.ends[i] <= captured }))
        BY <1>1, <1>2, <2>3, <3>1, <3>3, DatagramIsDecoded
      <4> QED
        BY <1>3, <2>3, <4>1 DEF WholeAnswers
    <3>4. CASE Len(m.ends) # m.count
      <4>1. Incomplete
        BY <1>1, <3>2, <3>4 DEF Incomplete
      <4>2. captured = 0
        BY <4>1 DEF DnsInv
      <4>3. Len(p) = 0
        BY <4>2
      <4>4. decoded = Nothing
        <5> HIDE DEF p
        <5>1. Len(p) < 12
          BY <4>3
        <5> QED
          BY <5>1 DEF try_decode_dns
      <4> QED
        BY <1>3, <2>3, <3>2, <4>2, <4>4 DEF Decoded
    <3> QED
      BY <3>3, <3>4
  <2> QED
    BY <2>1, <2>2, <2>3
<1> QED
  BY <1>4, <1>5 DEF Decoded

THEOREM DnsIsDecoded == DecoderSpec => []DnsEventIsWhatWasCaptured
<1> QED
  BY DnsStarts, DnsKept, DnsDecodes, PTL DEF DecoderSpec

-----------------------------------------------------------------------------
(* The decoder of HTTP, over tokens.                                       *)
Streams == Seq(Tokens)

(* A piece of a message is in a stream after so many tokens, or what of it *)
(* was captured is.                                                        *)
Stands(s, t, k) == \A i \in 1 .. Len(s) : k + i <= Len(t) => t[k + i] = s[i]

(* The tokens are told apart. *)
LEMMA SpellingsAre ==
  /\ DOMAIN HostSpellings = 1 .. 3
  /\ Range(HostSpellings) = {"crlf Host: ", "crlf host: ", "crlf HOST: "}
  /\ \A i, j \in 1 .. 3 : HostSpellings[i] = HostSpellings[j] => i = j
<1>1. /\ Len(HostSpellings) = 3 /\ HostSpellings[1] = "crlf Host: "
      /\ HostSpellings[2] = "crlf host: " /\ HostSpellings[3] = "crlf HOST: "
      /\ HostSpellings \in Seq({"crlf Host: ", "crlf host: ", "crlf HOST: "})
  BY DEF HostSpellings
<1>2. DOMAIN HostSpellings = 1 .. 3
  BY DEF HostSpellings
<1> HIDE DEF HostSpellings
<1>3. Range(HostSpellings) = { HostSpellings[i] : i \in 1 .. 3 }
  BY <1>2 DEF Range
<1>4. \A i \in 1 .. 3 : i = 1 \/ i = 2 \/ i = 3
  OBVIOUS
<1>5. Range(HostSpellings) = {"crlf Host: ", "crlf host: ", "crlf HOST: "}
  <2>1. { HostSpellings[i] : i \in 1 .. 3 } = {HostSpellings[1], HostSpellings[2], HostSpellings[3]}
    BY <1>4
  <2> QED
    BY <1>1, <1>3, <2>1
<1>6. \A i, j \in 1 .. 3 : HostSpellings[i] = HostSpellings[j] => i = j
  BY <1>1, <1>4
<1> QED
  BY <1>2, <1>5, <1>6

LEMMA VersionIs ==
  /\ Len(Version) = 3 /\ Version[1] = "HTTP/" /\ Version[2] = "1." /\ Version[3] = "1"
  /\ Range(Version) = {"HTTP/", "1.", "1"}
<1>1. /\ Len(Version) = 3 /\ Version[1] = "HTTP/" /\ Version[2] = "1." /\ Version[3] = "1"
      /\ Version \in Seq({"HTTP/", "1.", "1"})
  BY DEF Version
<1> HIDE DEF Version
<1>2. DOMAIN Version = 1 .. 3
  BY <1>1
<1>3. Range(Version) = { Version[i] : i \in 1 .. 3 }
  BY <1>2 DEF Range
<1> QED
  BY <1>1, <1>3

LEMMA TokensAre ==
  /\ LineEnds = {"crlf", "crlf hOST: ", "crlf Host: ", "crlf host: ", "crlf HOST: "}
  /\ Tokens = Methods \union {" ", "200", "HTTP/", "1.", "1"} \union LineEnds \union Letters
  /\ Letters \cap (Methods \union {" ", "200", "HTTP/", "1.", "1"} \union LineEnds) = {}
  /\ Version \in Streams
<1>1. LineEnds = {"crlf", "crlf hOST: ", "crlf Host: ", "crlf host: ", "crlf HOST: "}
  BY SpellingsAre DEF LineEnds, LineEnd, OtherSpelling
<1>2. Tokens = Methods \union {" ", "200", "HTTP/", "1.", "1"} \union LineEnds \union Letters
  BY VersionIs DEF Tokens, Space
<1>3. Letters \cap (Methods \union {" ", "200", "HTTP/", "1.", "1"} \union LineEnds) = {}
  BY VersionIs, HttpAssumption DEF Space
<1>4. Version \in Streams
  <2>1. "HTTP/" \in Tokens /\ "1." \in Tokens /\ "1" \in Tokens
    BY <1>2
  <2> QED
    BY <2>1 DEF Version, Streams
<1> QED
  BY <1>1, <1>2, <1>3, <1>4

LEMMA JoinedTokens ==
  ASSUME NEW s \in Streams, NEW t \in Streams
  PROVE  /\ s \o t \in Streams /\ Len(s \o t) = Len(s) + Len(t) /\ Len(s) \in Nat /\ Len(t) \in Nat
         /\ \A i \in 1 .. Len(s) : (s \o t)[i] = s[i]
         /\ \A i \in 1 .. Len(t) : (s \o t)[Len(s) + i] = t[i]
BY DEF Streams

LEMMA StandsApart ==
  ASSUME NEW s \in Streams, NEW t \in Streams, NEW p \in Streams, NEW k \in Nat, Stands(s \o t, p, k)
  PROVE  Stands(s, p, k) /\ Stands(t, p, k + Len(s))
<1>1. /\ Len(s \o t) = Len(s) + Len(t) /\ Len(s) \in Nat /\ Len(t) \in Nat /\ Len(p) \in Nat
      /\ \A i \in 1 .. Len(s) : (s \o t)[i] = s[i]
      /\ \A i \in 1 .. Len(t) : (s \o t)[Len(s) + i] = t[i]
  BY JoinedTokens DEF Streams
<1>2. Stands(s, p, k)
  BY <1>1 DEF Stands
<1>3. ASSUME NEW i \in 1 .. Len(t), k + Len(s) + i <= Len(p)
      PROVE  p[k + Len(s) + i] = t[i]
  <2>1. Len(s) + i \in 1 .. Len(s \o t) /\ k + (Len(s) + i) <= Len(p)
    BY <1>1, <1>3
  <2>2. p[k + (Len(s) + i)] = (s \o t)[Len(s) + i]
    BY <2>1 DEF Stands
  <2>3. k + (Len(s) + i) = k + Len(s) + i
    BY <1>1
  <2> QED
    BY <1>1, <2>2, <2>3
<1> QED
  BY <1>2, <1>3 DEF Stands

(* What find returns. *)
LEMMA FindIs ==
  ASSUME NEW t, NEW tokens, NEW from \in Nat, Len(t) \in Nat, NEW i \in from .. Len(t),
         t[i] \in tokens, \A j \in from .. i - 1 : t[j] \notin tokens
  PROVE  find(t, tokens, from) = i
<1> DEFINE at == { j \in from .. Len(t) : t[j] \in tokens }
<1>1. i \in at /\ \A j \in at : i <= j
  OBVIOUS
<1>2. \A k \in at : (\A j \in at : k <= j) => k = i
  BY <1>1
<1>3. (CHOOSE k \in at : \A j \in at : k <= j) = i
  <2> HIDE DEF at
  <2> QED
    BY <1>1, <1>2
<1> QED
  BY <1>1, <1>3 DEF find

LEMMA FindNone ==
  ASSUME NEW t, NEW tokens, NEW from, \A j \in from .. Len(t) : t[j] \notin tokens
  PROVE  find(t, tokens, from) = 0
BY DEF find

LEMMA FindCases ==
  ASSUME NEW t, NEW tokens, NEW from \in Nat \ {0}, Len(t) \in Nat
  PROVE  LET f == find(t, tokens, from) IN
         \/ f = 0 /\ \A j \in from .. Len(t) : t[j] \notin tokens
         \/ f \in from .. Len(t) /\ t[f] \in tokens /\ \A j \in from .. f - 1 : t[j] \notin tokens
<1> DEFINE at == { j \in from .. Len(t) : t[j] \in tokens }
<1>1. CASE at = {}
  BY <1>1 DEF find
<1>2. CASE at # {}
  <2>1. PICK f \in at : \A j \in at : f <= j
    <3> DEFINE R == OpToRel(<, Nat)
    <3>1. IsWellFoundedOn(R, Nat)
      BY NatLessThanWellFounded
    <3>2. at \subseteq Nat
      OBVIOUS
    <3> HIDE DEF R, at
    <3>3. PICK n \in at : \A m \in at : ~ (<< m, n >> \in R)
      BY <1>2, <3>1, <3>2, WFMin
    <3>4. ASSUME NEW m \in at PROVE n <= m
      <4>1. m \in Nat /\ n \in Nat
        BY <3>2
      <4>2. m < n => << m, n >> \in R
        BY <4>1 DEF R, OpToRel
      <4> QED
        BY <3>3, <4>1, <4>2
    <3> QED
      BY <3>4
  <2>2. f \in from .. Len(t) /\ t[f] \in tokens /\ \A j \in from .. f - 1 : t[j] \notin tokens
    BY <2>1
  <2>3. find(t, tokens, from) = f
    <3> HIDE DEF at
    <3> QED
      BY <2>2, FindIs
  <2> QED
    BY <2>2, <2>3
<1> QED
  BY <1>1, <1>2

(* A sequence up to the end of its line. *)
LineRead(t, from, last) ==
  /\ last \in from - 1 .. Len(t)
  /\ UntilLineEnd(t, from) = SubSeq(t, from, last)
  /\ \A j \in from .. last : t[j] \notin LineEnds
  /\ last < Len(t) => t[last + 1] \in LineEnds

LEMMA UntilIs ==
  ASSUME NEW t \in Streams, NEW from \in Nat \ {0}, from <= Len(t) + 1
  PROVE  \E last : LineRead(t, from, last)
<1> DEFINE f == find(t, LineEnds, from)
<1>1. Len(t) \in Nat
  BY DEF Streams
<1>2. \/ f = 0 /\ \A j \in from .. Len(t) : t[j] \notin LineEnds
      \/ f \in from .. Len(t) /\ t[f] \in LineEnds /\ \A j \in from .. f - 1 : t[j] \notin LineEnds
  BY <1>1, FindCases
<1>3. UntilLineEnd(t, from) = SubSeq(t, from, IF f = 0 THEN Len(t) ELSE f - 1)
  BY DEF UntilLineEnd
<1> HIDE DEF f
<1>4. CASE f = 0
  <2>1. Len(t) \in from - 1 .. Len(t)
    BY <1>1
  <2>2. LineRead(t, from, Len(t))
    BY <1>1, <1>2, <1>3, <1>4, <2>1 DEF LineRead
  <2> QED
    BY <2>2
<1>5. CASE f # 0
  <2>1. f - 1 \in from - 1 .. Len(t) /\ f - 1 + 1 = f
    BY <1>1, <1>2, <1>5
  <2>2. LineRead(t, from, f - 1)
    BY <1>2, <1>3, <1>5, <2>1 DEF LineRead
  <2> QED
    BY <2>2
<1> QED
  BY <1>4, <1>5

LEMMA PartIs ==
  ASSUME NEW t \in Streams, NEW from \in Nat \ {0}, NEW last \in from - 1 .. Len(t)
  PROVE  /\ SubSeq(t, from, last) \in Streams /\ Len(SubSeq(t, from, last)) = last - from + 1
         /\ \A i \in 1 .. last - from + 1 : SubSeq(t, from, last)[i] = t[from + i - 1]
<1>1. Len(t) \in Nat /\ \A i \in 1 .. Len(t) : t[i] \in Tokens
  BY DEF Streams
<1>2. from \in Int /\ last \in Int
  BY <1>1
<1>3. \A i \in from .. last : t[i] \in Tokens
  BY <1>1
<1>4. /\ SubSeq(t, from, last) \in Seq(Tokens)
      /\ Len(SubSeq(t, from, last)) = IF from <= last THEN last - from + 1 ELSE 0
      /\ \A i \in 1 .. last - from + 1 : SubSeq(t, from, last)[i] = t[from + i - 1]
  BY <1>2, <1>3, SubSeqProperties
<1> QED
  BY <1>1, <1>4 DEF Streams

LEMMA PrefixIs ==
  ASSUME NEW s \in Streams, NEW t \in Streams, Len(s) <= Len(t), \A i \in 1 .. Len(s) : s[i] = t[i]
  PROVE  IsPrefix(s, t)
<1>1. Len(s) \in Nat /\ Len(t) \in Nat
  BY DEF Streams
<1> DEFINE a == SubSeq(s, 1, Len(s))
           b == SubSeq(t, 1, Len(s))
<1>2. /\ a \in Streams /\ Len(a) = Len(s) - 1 + 1 /\ \A i \in 1 .. Len(s) - 1 + 1 : a[i] = s[1 + i - 1]
      /\ b \in Streams /\ Len(b) = Len(s) - 1 + 1 /\ \A i \in 1 .. Len(s) - 1 + 1 : b[i] = t[1 + i - 1]
  <2>1. 1 \in Nat \ {0} /\ Len(s) \in 1 - 1 .. Len(s) /\ Len(s) \in 1 - 1 .. Len(t)
    BY <1>1
  <2> QED
    BY <2>1, PartIs
<1>3. Len(s) - 1 + 1 = Len(s) /\ \A i \in 1 .. Len(s) : 1 + i - 1 = i
  BY <1>1
<1>4. Len(a) = Len(b) /\ \A i \in 1 .. Len(a) : a[i] = b[i]
  BY <1>2, <1>3
<1>5. a = b
  <2> HIDE DEF a, b
  <2> QED
    BY <1>2, <1>4, SeqEqual DEF Streams
<1> QED
  BY <1>5 DEF IsPrefix

(* A piece without ends of lines, before one, is read as far as it was     *)
(* captured.                                                               *)
LEMMA LineIsRead ==
  ASSUME NEW s \in Streams, NEW t \in Streams, NEW k \in Nat, Stands(s, t, k), k <= Len(t),
         \A i \in 1 .. Len(s) : s[i] \notin LineEnds,
         k + Len(s) + 1 <= Len(t) => t[k + Len(s) + 1] \in LineEnds
  PROVE  LET read == UntilLineEnd(t, k + 1) IN
         /\ IsPrefix(read, s)
         /\ k + Len(s) <= Len(t) => read = s
         /\ k < Len(t) /\ s # << >> => read # << >> /\ read[1] = s[1]
<1> DEFINE l == Len(s)
           size == Len(t)
           m == IF size < k + l THEN size ELSE k + l
           read == SubSeq(t, k + 1, m)
<1>1. l \in Nat /\ size \in Nat
  BY DEF Streams
<1>2. PICK last : LineRead(t, k + 1, last)
  <2>1. k + 1 \in Nat \ {0} /\ k + 1 <= Len(t) + 1
    BY <1>1
  <2> QED
    BY <2>1, UntilIs
<1>21. /\ last \in k + 1 - 1 .. Len(t)
       /\ UntilLineEnd(t, k + 1) = SubSeq(t, k + 1, last)
       /\ \A j \in k + 1 .. last : t[j] \notin LineEnds
       /\ last < Len(t) => t[last + 1] \in LineEnds
  BY <1>2 DEF LineRead
<1>3. \A i \in 1 .. l : k + i <= size => t[k + i] = s[i] /\ s[i] \notin LineEnds
  BY DEF Stands
<1>4. k + l + 1 <= size => t[k + l + 1] \in LineEnds
  OBVIOUS
<1>5. last = m
  <2>1. last \in Nat /\ k <= last /\ last <= size /\ k <= size
    BY <1>1, <1>21
  <2>2. ASSUME last < m PROVE FALSE
    <3>1. last + 1 - k \in 1 .. l /\ k + (last + 1 - k) <= size /\ k + (last + 1 - k) = last + 1
      BY <1>1, <2>1, <2>2
    <3>2. t[last + 1] \notin LineEnds
      BY <1>3, <3>1
    <3>3. last < size
      BY <1>1, <2>1, <2>2
    <3> QED
      BY <1>21, <3>2, <3>3
  <2>3. ASSUME m < last PROVE FALSE
    <3>1. k + l + 1 <= size /\ k + l + 1 \in k + 1 .. last
      BY <1>1, <2>1, <2>3
    <3> QED
      BY <1>21, <1>4, <3>1
  <2> QED
    BY <1>1, <2>1, <2>2, <2>3
<1>6. UntilLineEnd(t, k + 1) = read
  BY <1>21, <1>5
<1>7. m \in k + 1 - 1 .. Len(t) /\ k + 1 \in Nat \ {0} /\ m - (k + 1) + 1 = m - k /\ m - k <= l
  BY <1>1
<1>8. /\ read \in Streams /\ Len(read) = m - k
      /\ \A i \in 1 .. m - k : read[i] = t[k + 1 + i - 1]
  <2> HIDE DEF m
  <2> QED
    BY <1>7, PartIs
<1>9. \A i \in 1 .. m - k : read[i] = s[i]
  <2>1. ASSUME NEW i \in 1 .. m - k PROVE read[i] = s[i]
    <3>1. i \in 1 .. l /\ k + i <= size /\ k + 1 + i - 1 = k + i
      BY <1>1
    <3>2. read[i] = t[k + 1 + i - 1]
      BY <1>8
    <3> QED
      BY <1>3, <3>1, <3>2
  <2> QED
    BY <2>1
<1>10. IsPrefix(read, s)
  <2> HIDE DEF read, m
  <2> QED
    BY <1>7, <1>8, <1>9, PrefixIs
<1>11. k + l <= size => read = s
  <2> SUFFICES ASSUME k + l <= size PROVE read = s
    OBVIOUS
  <2>1. m - k = l
    BY <1>1
  <2> HIDE DEF read, m
  <2> QED
    BY <1>8, <1>9, <2>1, SeqEqual DEF Streams
<1>12. k < size /\ s # << >> => read # << >> /\ read[1] = s[1]
  <2> SUFFICES ASSUME k < size, s # << >> PROVE read # << >> /\ read[1] = s[1]
    OBVIOUS
  <2>1. l # 0
    BY DEF Streams
  <2>2. 1 \in 1 .. m - k /\ m - k # 0
    BY <1>1, <2>1
  <2> HIDE DEF read, m
  <2> QED
    BY <1>8, <1>9, <2>2
<1> HIDE DEF read
<1> QED
  BY <1>6, <1>10, <1>11, <1>12

(* What is read of a piece in a stream is what would be read of the piece, *)
(* as far as it was captured.                                              *)
LEMMA RestIsRead ==
  ASSUME NEW s \in Streams, NEW t \in Streams, NEW k \in Nat, Stands(s, t, k),
         Len(t) <= k + Len(s), NEW j \in 1 .. Len(s), k + j <= Len(t)
  PROVE  IsPrefix(UntilLineEnd(t, k + j + 1), UntilLineEnd(s, j + 1))
<1> DEFINE l == Len(s)
           size == Len(t)
<1>1. l \in Nat /\ size \in Nat /\ j \in Nat /\ 1 <= j /\ j <= l /\ k + j <= size /\ size <= k + l
  BY DEF Streams
<1>a. PICK lt : LineRead(t, k + j + 1, lt)
  <2>1. k + j + 1 \in Nat \ {0} /\ k + j + 1 <= Len(t) + 1
    BY <1>1
  <2> QED
    BY <2>1, UntilIs
<1>b. PICK ls : LineRead(s, j + 1, ls)
  <2>1. j + 1 \in Nat \ {0} /\ j + 1 <= Len(s) + 1
    BY <1>1
  <2> QED
    BY <2>1, UntilIs
<1>2. /\ lt \in k + j + 1 - 1 .. Len(t)
      /\ UntilLineEnd(t, k + j + 1) = SubSeq(t, k + j + 1, lt)
      /\ \A i \in k + j + 1 .. lt : t[i] \notin LineEnds
  BY <1>a DEF LineRead
<1>3. /\ ls \in j + 1 - 1 .. Len(s)
      /\ UntilLineEnd(s, j + 1) = SubSeq(s, j + 1, ls)
      /\ ls < Len(s) => s[ls + 1] \in LineEnds
  BY <1>b DEF LineRead
<1>4. lt \in Nat /\ ls \in Nat /\ k + j <= lt /\ lt <= size /\ j <= ls /\ ls <= l
  BY <1>1, <1>2, <1>3
<1>5. \A i \in 1 .. l : k + i <= size => t[k + i] = s[i]
  BY DEF Stands
<1>6. lt <= k + ls
  <2> SUFFICES ASSUME k + ls < lt PROVE FALSE
    BY <1>1, <1>4
  <2>1. ls < l /\ ls + 1 \in 1 .. l /\ k + (ls + 1) <= size /\ k + (ls + 1) \in k + j + 1 .. lt
    BY <1>1, <1>4
  <2>2. t[k + (ls + 1)] = s[ls + 1]
    BY <1>5, <2>1
  <2> QED
    BY <1>2, <1>3, <2>1, <2>2
<1> DEFINE a == SubSeq(t, k + j + 1, lt)
           b == SubSeq(s, j + 1, ls)
<1>7. /\ a \in Streams /\ Len(a) = lt - (k + j + 1) + 1
      /\ \A i \in 1 .. lt - (k + j + 1) + 1 : a[i] = t[k + j + 1 + i - 1]
  <2>1. k + j + 1 \in Nat \ {0} /\ lt \in k + j + 1 - 1 .. Len(t)
    BY <1>1, <1>2
  <2> QED
    BY <2>1, PartIs
<1>8. /\ b \in Streams /\ Len(b) = ls - (j + 1) + 1
      /\ \A i \in 1 .. ls - (j + 1) + 1 : b[i] = s[j + 1 + i - 1]
  <2>1. j + 1 \in Nat \ {0} /\ ls \in j + 1 - 1 .. Len(s)
    BY <1>1, <1>3
  <2> QED
    BY <2>1, PartIs
<1> HIDE DEF a, b
<1>9. Len(a) <= Len(b)
  BY <1>1, <1>4, <1>6, <1>7, <1>8
<1>10. ASSUME NEW i \in 1 .. Len(a) PROVE a[i] = b[i]
  <2>1. /\ i \in 1 .. lt - (k + j + 1) + 1 /\ i \in 1 .. ls - (j + 1) + 1
        /\ j + i \in 1 .. l /\ k + (j + i) <= size
        /\ k + j + 1 + i - 1 = k + (j + i) /\ j + 1 + i - 1 = j + i
    <3>1. Len(a) = lt - (k + j + 1) + 1 /\ Len(b) = ls - (j + 1) + 1
      BY <1>7, <1>8
    <3> QED
      BY <1>1, <1>4, <1>6, <1>9, <3>1
  <2>2. a[i] = t[k + (j + i)] /\ b[i] = s[j + i]
    BY <1>7, <1>8, <2>1
  <2> QED
    BY <1>5, <2>1, <2>2
<1>11. IsPrefix(a, b)
  BY <1>7, <1>8, <1>9, <1>10, PrefixIs
<1> QED
  BY <1>2, <1>3, <1>11 DEF a, b

-----------------------------------------------------------------------------
(* Where the parts of a request are: the line of its host, the line's end. *)
HostAt(r) == Len(r.path) + Len(r.before) + 6
EndAt(r) == HostAt(r) + Len(HostField(r.spelled, r.host))

(* A request that was cut, part by part. *)
Asked(r, t) ==
  /\ Stands(<< r.method >>, t, 0) /\ Stands(r.path, t, 1) /\ Stands(<< Space >>, t, 1 + Len(r.path))
  /\ Stands(Version, t, 2 + Len(r.path)) /\ Stands(r.before, t, 5 + Len(r.path))
  /\ Stands(HostField(r.spelled, r.host), t, HostAt(r) - 1)
  /\ Stands(<< LineEnd >>, t, EndAt(r) - 1) /\ Stands(r.rest, t, EndAt(r))

LEMMA RequestsAre ==
  ASSUME NEW r \in Requests
  PROVE  /\ r.method \in Methods /\ r.path \in Seq(Letters) \ {<< >>} /\ r.path \in Streams
         /\ r.before \in Streams /\ (\A i \in 1 .. Len(r.before) : r.before[i] \notin Range(HostSpellings))
         /\ r.before # << >> => r.before[1] \in LineEnds
         /\ r.spelled \in Range(HostSpellings) \union {OtherSpelling, NoHost}
         /\ r.host \in Seq(Letters) /\ r.host \in Streams /\ r.rest \in Streams
         /\ HostField(r.spelled, r.host) \in Streams /\ Letters \subseteq Tokens
<1>1. Letters \subseteq Tokens
  BY DEF Tokens
<1>2. /\ r.method \in Methods /\ r.path \in Paths /\ r.before \in HeaderFields /\ r.host \in HostNames
      /\ r.spelled \in Range(HostSpellings) \union {OtherSpelling, NoHost} /\ r.rest \in Rests
  BY DEF Requests
<1>3. /\ r.path \in Seq(Letters) \ {<< >>} /\ r.host \in Seq(Letters) /\ r.rest \in Streams
      /\ r.before \in Seq(Tokens \ Range(HostSpellings))
      /\ r.before # << >> => r.before[1] \in LineEnds
  BY <1>2, HttpAssumption DEF Streams
<1>4. /\ r.path \in Streams /\ r.host \in Streams /\ r.before \in Streams
      /\ \A i \in 1 .. Len(r.before) : r.before[i] \notin Range(HostSpellings)
  BY <1>1, <1>3 DEF Streams
<1>5. HostField(r.spelled, r.host) \in Streams
  <2>1. << >> \in Streams
    BY DEF Streams
  <2>2. r.spelled # NoHost => r.spelled \in Tokens
    BY <1>2, TokensAre, SpellingsAre DEF OtherSpelling
  <2>3. r.spelled # NoHost => << r.spelled >> \in Streams
    BY <2>2 DEF Streams
  <2> QED
    BY <1>4, <2>1, <2>3, JoinedTokens DEF HostField
<1> QED
  BY <1>1, <1>2, <1>3, <1>4, <1>5

LEMMA RequestIs ==
  ASSUME NEW r \in Requests
  PROVE  /\ RequestText(r) \in Streams /\ Len(RequestText(r)) = EndAt(r) + Len(r.rest)
         /\ HostAt(r) \in Nat /\ EndAt(r) \in Nat
         /\ \A t \in Streams : Stands(RequestText(r), t, 0) => Asked(r, t)
<1> DEFINE s1 == << r.method >>
           s2 == << Space >>
           s3 == HostField(r.spelled, r.host)
           s4 == << LineEnd >>
           f1 == s1 \o r.path
           f2 == f1 \o s2
           f3 == f2 \o Version
           f4 == f3 \o r.before
           f5 == f4 \o s3
           f6 == f5 \o s4
           f7 == f6 \o r.rest
           n == Len(r.path)
           b == Len(r.before)
           l == Len(s3)
<1>1. /\ s1 \in Streams /\ Len(s1) = 1 /\ s2 \in Streams /\ Len(s2) = 1 /\ s4 \in Streams /\ Len(s4) = 1
      /\ s3 \in Streams /\ r.path \in Streams /\ r.before \in Streams /\ r.rest \in Streams
      /\ Version \in Streams /\ Len(Version) = 3
  <2>1. r.method \in Tokens /\ Space \in Tokens /\ LineEnd \in Tokens
    BY RequestsAre, TokensAre DEF Methods, Space, LineEnd
  <2>2. s1 \in Streams /\ s2 \in Streams /\ s4 \in Streams
    BY <2>1 DEF Streams
  <2> QED
    BY <2>2, RequestsAre, TokensAre, VersionIs
<1>2. RequestText(r) = f7
  BY DEF RequestText
<1>3. n \in Nat /\ b \in Nat /\ l \in Nat /\ Len(r.rest) \in Nat
  BY <1>1 DEF Streams
<1>4. HostAt(r) = n + b + 6 /\ EndAt(r) = n + b + 6 + l
  BY DEF HostAt, EndAt
<1> HIDE DEF s1, s2, s3, s4
<1>5. f1 \in Streams /\ Len(f1) = 1 + n
  <2>1. f1 \in Streams /\ Len(f1) = Len(s1) + n
    BY <1>1, JoinedTokens
  <2> QED
    BY <1>1, <2>1
<1> HIDE DEF f1
<1>6. f2 \in Streams /\ Len(f2) = 2 + n
  <2>1. f2 \in Streams /\ Len(f2) = Len(f1) + Len(s2)
    BY <1>1, <1>5, JoinedTokens
  <2> QED
    BY <1>1, <1>3, <1>5, <2>1
<1> HIDE DEF f2
<1>7. f3 \in Streams /\ Len(f3) = 5 + n
  <2>1. f3 \in Streams /\ Len(f3) = Len(f2) + Len(Version)
    BY <1>1, <1>6, JoinedTokens
  <2> QED
    BY <1>1, <1>3, <1>6, <2>1
<1> HIDE DEF f3
<1>8. f4 \in Streams /\ Len(f4) = HostAt(r) - 1
  <2>1. f4 \in Streams /\ Len(f4) = Len(f3) + b
    BY <1>1, <1>7, JoinedTokens
  <2>2. 5 + n + b = n + b + 6 - 1
    <3> HIDE DEF n, b
    <3> QED
      BY <1>3
  <2> HIDE DEF n, b, l, f4, f5
  <2> QED
    BY <1>3, <1>4, <1>7, <2>1, <2>2
<1> HIDE DEF f4
<1>9. f5 \in Streams /\ Len(f5) = EndAt(r) - 1
  <2>1. f5 \in Streams /\ Len(f5) = Len(f4) + l
    BY <1>1, <1>8, JoinedTokens
  <2>2. n + b + 6 - 1 + l = n + b + 6 + l - 1
    <3> HIDE DEF n, b, l
    <3> QED
      BY <1>3
  <2> HIDE DEF n, b, l, f4, f5
  <2> QED
    BY <1>3, <1>4, <1>8, <2>1, <2>2
<1> HIDE DEF f5
<1>10. f6 \in Streams /\ Len(f6) = EndAt(r)
  <2>1. f6 \in Streams /\ Len(f6) = Len(f5) + Len(s4)
    BY <1>1, <1>9, JoinedTokens
  <2> QED
    BY <1>1, <1>3, <1>4, <1>9, <2>1
<1> HIDE DEF f6
<1>11. f7 \in Streams /\ Len(f7) = EndAt(r) + Len(r.rest)
  <2>1. f7 \in Streams /\ Len(f7) = Len(f6) + Len(r.rest)
    BY <1>1, <1>10, JoinedTokens
  <2> QED
    BY <1>10, <2>1
<1>12. ASSUME NEW t \in Streams, Stands(f7, t, 0) PROVE Asked(r, t)
  <2>0. 0 \in Nat /\ 0 + Len(f6) = EndAt(r) /\ 0 + Len(f5) = EndAt(r) - 1 /\ 0 + Len(f4) = HostAt(r) - 1
        /\ 0 + Len(f3) = 5 + n /\ 0 + Len(f2) = 2 + n /\ 0 + Len(f1) = 1 + n /\ 0 + Len(s1) = 1
    BY <1>1, <1>3, <1>4, <1>5, <1>6, <1>7, <1>8, <1>9, <1>10
  <2>1. Stands(f6, t, 0) /\ Stands(r.rest, t, 0 + Len(f6))
    BY <1>1, <1>10, <1>12, <2>0, StandsApart
  <2>2. Stands(f5, t, 0) /\ Stands(s4, t, 0 + Len(f5))
    BY <1>1, <1>9, <2>0, <2>1, StandsApart DEF f6
  <2>3. Stands(f4, t, 0) /\ Stands(s3, t, 0 + Len(f4))
    BY <1>1, <1>8, <2>0, <2>2, StandsApart DEF f5
  <2>4. Stands(f3, t, 0) /\ Stands(r.before, t, 0 + Len(f3))
    BY <1>1, <1>7, <2>0, <2>3, StandsApart DEF f4
  <2>5. Stands(f2, t, 0) /\ Stands(Version, t, 0 + Len(f2))
    BY <1>1, <1>6, <2>0, <2>4, StandsApart DEF f3
  <2>6. Stands(f1, t, 0) /\ Stands(s2, t, 0 + Len(f1))
    BY <1>1, <1>5, <2>0, <2>5, StandsApart DEF f2
  <2>7. Stands(s1, t, 0) /\ Stands(r.path, t, 0 + Len(s1))
    BY <1>1, <2>0, <2>6, StandsApart DEF f1
  <2> QED
    BY <2>0, <2>1, <2>2, <2>3, <2>4, <2>5, <2>6, <2>7 DEF Asked, s1, s2, s3, s4
<1>13. HostAt(r) \in Nat /\ EndAt(r) \in Nat
  <2> HIDE DEF n, b, l
  <2> QED
    BY <1>3, <1>4
<1> QED
  BY <1>2, <1>11, <1>12, <1>13

(* A message of which so much was captured. *)
LEMMA CutStands ==
  ASSUME NEW s \in Streams, NEW size \in Nat, size <= Len(s)
  PROVE  LET t == SubSeq(s, 1, size) IN
         t \in Streams /\ Len(t) = size /\ Stands(s, t, 0) /\ \A i \in 1 .. size : t[i] = s[i]
<1> DEFINE t == SubSeq(s, 1, size)
<1>1. t \in Streams /\ Len(t) = size - 1 + 1 /\ \A i \in 1 .. size - 1 + 1 : t[i] = s[1 + i - 1]
  <2>1. 1 \in Nat \ {0} /\ size \in 1 - 1 .. Len(s)
    BY DEF Streams
  <2> QED
    BY <2>1, PartIs
<1>2. size - 1 + 1 = size /\ \A i \in 1 .. size : 1 + i - 1 = i
  OBVIOUS
<1> HIDE DEF t
<1>3. t \in Streams /\ Len(t) = size /\ \A i \in 1 .. size : t[i] = s[i]
  BY <1>1, <1>2
<1>4. Stands(s, t, 0)
  BY <1>3 DEF Stands, Streams
<1> QED
  BY <1>3, <1>4 DEF t

LEMMA FieldIs ==
  ASSUME NEW r \in Requests
  PROVE  /\ r.spelled = NoHost => Len(HostField(r.spelled, r.host)) = 0
         /\ r.spelled # NoHost =>
              /\ Len(HostField(r.spelled, r.host)) = 1 + Len(r.host)
              /\ HostField(r.spelled, r.host)[1] = r.spelled
              /\ \A i \in 1 .. Len(r.host) : HostField(r.spelled, r.host)[1 + i] = r.host[i]
<1>1. r.host \in Streams /\ r.spelled \in Range(HostSpellings) \union {OtherSpelling, NoHost}
  BY RequestsAre
<1>2. CASE r.spelled = NoHost
  BY <1>2 DEF HostField
<1>3. CASE r.spelled # NoHost
  <2>1. r.spelled \in Tokens
    BY <1>1, <1>3, TokensAre, SpellingsAre DEF OtherSpelling
  <2>2. << r.spelled >> \in Streams /\ Len(<< r.spelled >>) = 1 /\ << r.spelled >>[1] = r.spelled
    BY <2>1 DEF Streams
  <2>3. HostField(r.spelled, r.host) = << r.spelled >> \o r.host
    BY <1>3 DEF HostField
  <2> DEFINE one == << r.spelled >>
  <2> HIDE DEF one
  <2>4. one \in Streams /\ Len(one) = 1 /\ one[1] = r.spelled /\ HostField(r.spelled, r.host) = one \o r.host
    BY <2>2, <2>3 DEF one
  <2>5. /\ Len(one \o r.host) = Len(one) + Len(r.host)
        /\ \A i \in 1 .. Len(one) : (one \o r.host)[i] = one[i]
        /\ \A i \in 1 .. Len(r.host) : (one \o r.host)[Len(one) + i] = r.host[i]
    BY <1>1, <2>4, JoinedTokens
  <2>6. 1 \in 1 .. Len(one)
    BY <2>4
  <2> QED
    BY <1>3, <2>4, <2>5, <2>6
<1> QED
  BY <1>2, <1>3

(* A spelling that is looked for is that of the header, or further on. *)
LEMMA SpellingsStand ==
  ASSUME NEW r \in Requests, NEW t \in Streams, Asked(r, t), Len(t) <= EndAt(r) + Len(r.rest),
         NEW i \in 1 .. Len(t), t[i] \in Range(HostSpellings)
  PROVE  \/ i = HostAt(r) /\ r.spelled \in Range(HostSpellings) /\ t[i] = r.spelled
         \/ i > EndAt(r) /\ i - EndAt(r) \in 1 .. Len(r.rest) /\ t[i] = r.rest[i - EndAt(r)]
<1> DEFINE n == Len(r.path)
           b == Len(r.before)
           h == HostAt(r)
           e == EndAt(r)
           w == Len(r.rest)
           size == Len(t)
           field == HostField(r.spelled, r.host)
           l == Len(field)
<1>1. n \in Nat /\ b \in Nat /\ l \in Nat /\ w \in Nat /\ size \in Nat /\ h = n + b + 6 /\ e = h + l
  BY RequestsAre DEF Streams, HostAt, EndAt
<1>2. i \in Nat /\ 1 <= i /\ i <= size /\ size <= e + w
  <2>1. size <= e + w
    OBVIOUS
  <2>2. size \in Nat /\ i \in 1 .. size
    BY <1>1
  <2> HIDE DEF size, e, w
  <2>3. i \in Nat /\ 1 <= i /\ i <= size
    BY <2>2
  <2> QED
    BY <2>1, <2>3
<1>3. /\ Stands(<< r.method >>, t, 0) /\ Stands(r.path, t, 1) /\ Stands(<< Space >>, t, 1 + n)
      /\ Stands(Version, t, 2 + n) /\ Stands(r.before, t, 5 + n) /\ Stands(field, t, h - 1)
      /\ Stands(<< LineEnd >>, t, e - 1) /\ Stands(r.rest, t, e)
  BY DEF Asked
<1>4. ASSUME NEW s, NEW k \in Nat, Stands(s, t, k), k < i, i <= k + Len(s), Len(s) \in Nat
      PROVE  i - k \in 1 .. Len(s) /\ t[i] = s[i - k]
  <2>1. i - k \in 1 .. Len(s) /\ k + (i - k) = i
    BY <1>2, <1>4
  <2> QED
    BY <1>2, <1>4, <2>1 DEF Stands
<1> HIDE DEF n, b, h, e, w, size, field, l
<1>5. \/ i = 1
      \/ 1 < i /\ i <= 1 + n
      \/ i = 2 + n
      \/ 2 + n < i /\ i <= 5 + n
      \/ 5 + n < i /\ i <= 5 + n + b
      \/ h - 1 < i /\ i <= h - 1 + l
      \/ i = e
      \/ e < i /\ i <= e + w
  BY <1>1, <1>2
<1>6. /\ t[i] \notin Methods /\ t[i] \notin Letters /\ t[i] # Space /\ t[i] # LineEnd
      /\ t[i] \notin {"HTTP/", "1.", "1"}
  BY SpellingsAre, TokensAre DEF Methods, Space, LineEnd
<1>7. i # 1
  <2>1. i = 1 => t[i] = << r.method >>[i - 0]
    BY <1>3, <1>4
  <2> QED
    BY <1>6, <2>1, RequestsAre
<1>8. ~ (1 < i /\ i <= 1 + n)
  <2>1. ASSUME 1 < i, i <= 1 + n PROVE FALSE
    <3>1. i - 1 \in 1 .. Len(r.path) /\ t[i] = r.path[i - 1]
      BY <1>1, <1>3, <1>4, <2>1 DEF n
    <3>2. r.path[i - 1] \in Letters
      BY <3>1, RequestsAre
    <3> QED
      BY <1>6, <3>1, <3>2
  <2> QED
    BY <2>1
<1>9. i # 2 + n
  <2>1. ASSUME i = 2 + n PROVE FALSE
    <3>1. i - (1 + n) = 1 /\ 1 + n \in Nat /\ 1 + n < i /\ i <= 1 + n + 1
      BY <1>1, <2>1
    <3>2. Len(<< Space >>) = 1 /\ << Space >>[1] = Space
      OBVIOUS
    <3>3. t[i] = << Space >>[i - (1 + n)]
      BY <1>3, <1>4, <3>1, <3>2
    <3> QED
      BY <1>6, <3>1, <3>2, <3>3
  <2> QED
    BY <2>1
<1>10. ~ (2 + n < i /\ i <= 5 + n)
  <2>1. ASSUME 2 + n < i, i <= 5 + n PROVE FALSE
    <3>1. 2 + n \in Nat /\ i <= 2 + n + Len(Version) /\ Len(Version) \in Nat
      BY <1>1, <2>1, VersionIs
    <3>2. i - (2 + n) \in 1 .. Len(Version) /\ t[i] = Version[i - (2 + n)]
      BY <1>3, <1>4, <2>1, <3>1
    <3>3. \A j \in 1 .. Len(Version) : j = 1 \/ j = 2 \/ j = 3
      BY VersionIs
    <3> QED
      BY <1>6, <3>2, <3>3, VersionIs
  <2> QED
    BY <2>1
<1>11. ~ (5 + n < i /\ i <= 5 + n + b)
  <2>1. ASSUME 5 + n < i, i <= 5 + n + b PROVE FALSE
    <3>0. 5 + n \in Nat /\ i <= 5 + n + b /\ b \in Nat
      BY <1>1, <2>1
    <3>1. 5 + n \in Nat /\ i <= 5 + n + Len(r.before) /\ Len(r.before) \in Nat
      BY <3>0 DEF b
    <3>2. i - (5 + n) \in 1 .. Len(r.before) /\ t[i] = r.before[i - (5 + n)]
      BY <1>3, <1>4, <2>1, <3>1
    <3> QED
      BY <3>2, RequestsAre
  <2> QED
    BY <2>1
<1>12. i # e
  <2>1. ASSUME i = e PROVE FALSE
    <3>1. i - (e - 1) = 1 /\ e - 1 \in Nat /\ e - 1 < i /\ i <= e - 1 + 1
      BY <1>1, <2>1
    <3>2. Len(<< LineEnd >>) = 1 /\ << LineEnd >>[1] = LineEnd
      OBVIOUS
    <3>3. t[i] = << LineEnd >>[i - (e - 1)]
      BY <1>3, <1>4, <3>1, <3>2
    <3> QED
      BY <1>6, <3>1, <3>2, <3>3
  <2> QED
    BY <2>1
<1>13. CASE h - 1 < i /\ i <= h - 1 + l
  <2>1. h - 1 \in Nat
    BY <1>1
  <2>2. i - (h - 1) \in 1 .. Len(field) /\ t[i] = field[i - (h - 1)]
    BY <1>1, <1>3, <1>4, <1>13, <2>1 DEF l
  <2>3. r.spelled # NoHost
    <3>1. l # 0
      BY <1>1, <1>2, <1>13
    <3> QED
      BY <3>1, FieldIs DEF l, field
  <2>4. Len(field) = 1 + Len(r.host) /\ field[1] = r.spelled /\ \A j \in 1 .. Len(r.host) : field[1 + j] = r.host[j]
    BY <2>3, FieldIs DEF field
  <2>5. i = h
    <3>1. ASSUME i # h PROVE FALSE
      <4>1. i - h \in 1 .. Len(r.host) /\ 1 + (i - h) = i - (h - 1)
        <5>1. Len(r.host) \in Nat
          BY RequestsAre DEF Streams
        <5> QED
          BY <1>1, <1>2, <1>13, <2>2, <2>4, <3>1, <5>1
      <4>2. t[i] = r.host[i - h]
        BY <2>2, <2>4, <4>1
      <4>3. r.host[i - h] \in Letters
        BY <4>1, RequestsAre
      <4> QED
        BY <1>6, <4>2, <4>3
    <3> QED
      BY <3>1
  <2>6. i - (h - 1) = 1
    BY <1>1, <2>5
  <2>7. t[i] = r.spelled
    BY <2>2, <2>4, <2>6
  <2> QED
    BY <2>5, <2>7 DEF h
<1>14. CASE e < i /\ i <= e + w
  <2>1. e \in Nat
    BY <1>1
  <2>2. i - e \in 1 .. Len(r.rest) /\ t[i] = r.rest[i - e]
    BY <1>1, <1>3, <1>4, <1>14, <2>1 DEF w
  <2> QED
    BY <1>1, <1>2, <1>14, <2>2 DEF e
<1> QED
  BY <1>5, <1>7, <1>8, <1>9, <1>10, <1>11, <1>12, <1>13, <1>14

LEMMA PlacesAre ==
  ASSUME NEW r \in Requests
  PROVE  /\ HostAt(r) \in Nat /\ EndAt(r) \in Nat /\ Len(r.host) \in Nat /\ Len(r.rest) \in Nat
         /\ 1 <= HostAt(r) /\ HostAt(r) <= EndAt(r)
         /\ r.spelled # NoHost => EndAt(r) = HostAt(r) + 1 + Len(r.host)
<1> DEFINE n == Len(r.path)
           b == Len(r.before)
           k == Len(r.host)
           l == Len(HostField(r.spelled, r.host))
           h == HostAt(r)
           e == EndAt(r)
<1>1. n \in Nat /\ b \in Nat /\ k \in Nat /\ l \in Nat /\ Len(r.rest) \in Nat
  BY RequestsAre DEF Streams
<1>2. h = n + b + 6 /\ e = h + l
  BY DEF HostAt, EndAt
<1>3. r.spelled # NoHost => l = 1 + k
  BY FieldIs
<1> HIDE DEF n, b, k, l, h, e
<1>4. h \in Nat /\ e \in Nat /\ 1 <= h /\ h <= e
  BY <1>1, <1>2
<1>5. r.spelled # NoHost => e = h + 1 + k
  BY <1>1, <1>2, <1>3
<1> QED
  BY <1>1, <1>4, <1>5 DEF k, h, e

(* The host is the header's, as far as it was captured, or what follows a  *)
(* spelling that is looked for earlier.                                    *)
LEMMA HostIsRead ==
  ASSUME NEW r \in Requests, NEW t \in Streams, Asked(r, t), Len(t) <= EndAt(r) + Len(r.rest)
  PROVE  LET host == IF r.spelled \in Range(HostSpellings) THEN r.host ELSE << >> IN
         /\ \/ IsPrefix(Host(t), host)
            \/ \E i \in DOMAIN r.rest : /\ r.rest[i] \in LookedForBefore(r.spelled)
                                        /\ IsPrefix(Host(t), UntilLineEnd(r.rest, i + 1))
         /\ Len(t) = EndAt(r) + Len(r.rest) /\ Range(r.rest) \cap LookedForBefore(r.spelled) = {} =>
              Host(t) = host
<1> DEFINE h == HostAt(r)
           e == EndAt(r)
           w == Len(r.rest)
           size == Len(t)
           host == IF r.spelled \in Range(HostSpellings) THEN r.host ELSE << >>
           spelled == { s \in DOMAIN HostSpellings : find(t, {HostSpellings[s]}, 1) # 0 }
           first(s) == find(t, {HostSpellings[s]}, 1)
<1>1. /\ h \in Nat /\ e \in Nat /\ w \in Nat /\ size \in Nat /\ size <= e + w /\ 1 <= h /\ h <= e
      /\ r.spelled # NoHost => e = h + 1 + Len(r.host)
  BY PlacesAre DEF Streams
<1>2. DOMAIN HostSpellings = 1 .. 3 /\ \A i, j \in 1 .. 3 : HostSpellings[i] = HostSpellings[j] => i = j
  BY SpellingsAre
<1>3. ASSUME NEW s \in 1 .. 3
      PROVE  \/ first(s) = 0 /\ \A j \in 1 .. size : t[j] # HostSpellings[s]
             \/ first(s) \in 1 .. size /\ t[first(s)] = HostSpellings[s]
                /\ \A j \in 1 .. first(s) - 1 : t[j] # HostSpellings[s]
  <2>1. 1 \in Nat \ {0} /\ Len(t) \in Nat
    BY <1>1
  <2> QED
    BY <2>1, FindCases
<1>4. ASSUME NEW s \in 1 .. 3, first(s) # 0
      PROVE  \/ first(s) = h /\ r.spelled = HostSpellings[s]
             \/ first(s) > e /\ first(s) - e \in 1 .. w /\ r.rest[first(s) - e] = HostSpellings[s]
  <2>1. HostSpellings[s] \in Range(HostSpellings)
    BY <1>2 DEF Range
  <2>2. first(s) \in 1 .. Len(t) /\ t[first(s)] = HostSpellings[s]
    BY <1>3, <1>4
  <2> HIDE DEF first
  <2> QED
    BY <2>1, <2>2, SpellingsStand
<1>5. CASE spelled = {}
  <2>1. Host(t) = << >>
    BY <1>5 DEF Host
  <2>2. host \in Streams /\ << >> \in Streams /\ Len(<< >>) = 0 /\ Len(host) \in Nat
    BY RequestsAre DEF Streams
  <2>3. IsPrefix(<< >>, host)
    <3> HIDE DEF host
    <3> QED
      BY <2>2, PrefixIs
  <2>4. ASSUME size = e + w, r.spelled \in Range(HostSpellings) PROVE FALSE
    <3>1. PICK s \in 1 .. 3 : r.spelled = HostSpellings[s]
      BY <1>2, <2>4 DEF Range
    <3>2. r.spelled # NoHost
      BY <2>4, SpellingsAre DEF NoHost
    <3>3. t[h] = r.spelled /\ h \in 1 .. size
      <4>1. Stands(HostField(r.spelled, r.host), t, h - 1)
        BY DEF Asked
      <4>2. 1 \in 1 .. Len(HostField(r.spelled, r.host)) /\ HostField(r.spelled, r.host)[1] = r.spelled
        <5>1. Len(r.host) \in Nat
          BY RequestsAre DEF Streams
        <5> QED
          BY <3>2, <5>1, FieldIs
      <4>3. h - 1 + 1 = h /\ h \in 1 .. size
        <5>1. h <= e
          BY <1>1
        <5> HIDE DEF h, e, w, size
        <5> QED
          BY <1>1, <2>4, <5>1
      <4>4. h - 1 + 1 <= Len(t)
        BY <4>3
      <4> QED
        BY <4>1, <4>2, <4>3, <4>4 DEF Stands
    <3> HIDE DEF first, h, size
    <3>4. first(s) # 0
      BY <1>3, <3>1, <3>3
    <3> QED
      BY <1>2, <1>5, <3>4 DEF first
  <2> QED
    BY <2>1, <2>3, <2>4
<1>6. CASE spelled # {}
  <2>1. PICK s \in 1 .. 3 : /\ Host(t) = UntilLineEnd(t, 1 + first(s)) /\ first(s) # 0
                            /\ \A other \in 1 .. 3 : first(other) # 0 => s <= other
    <3>1. \E s \in spelled : \A other \in spelled : s <= other
      <4>1. spelled \subseteq 1 .. 3
        BY <1>2
      <4> HIDE DEF spelled
      <4>2. \A s \in spelled : s = 1 \/ s = 2 \/ s = 3
        BY <4>1
      <4> QED
        BY <1>6, <4>2
    <3> DEFINE s == CHOOSE s \in spelled : \A other \in spelled : s <= other
    <3>2. s \in spelled /\ \A other \in spelled : s <= other
      <4> HIDE DEF spelled
      <4> QED
        BY <3>1
    <3>3. Host(t) = UntilLineEnd(t, 1 + first(s))
      BY <1>6 DEF Host
    <3> HIDE DEF s
    <3> QED
      BY <1>2, <3>2, <3>3
  <2>2. first(s) \in 1 .. size /\ t[first(s)] = HostSpellings[s]
        /\ \A j \in 1 .. first(s) - 1 : t[j] # HostSpellings[s]
    BY <1>3, <2>1
  <2>3. CASE first(s) = h /\ r.spelled = HostSpellings[s]
    <3>1. r.spelled \in Range(HostSpellings) /\ r.spelled # NoHost
      <4>1. r.spelled \in Range(HostSpellings)
        BY <1>2, <2>3 DEF Range
      <4> QED
        BY <4>1, SpellingsAre DEF NoHost
    <3>2. host = r.host
      BY <3>1
    <3>3. e = h + Len(r.host) + 1 /\ Len(r.host) \in Nat
      <4> DEFINE k == Len(r.host)
      <4>1. h \in Nat /\ k \in Nat /\ e = h + 1 + k
        BY <3>1, PlacesAre
      <4> HIDE DEF h, e, k
      <4>2. e = h + k + 1
        BY <4>1
      <4> QED
        BY <4>1, <4>2 DEF k
    <3>4. Stands(r.host, t, h)
      <4>1. ASSUME NEW i \in 1 .. Len(r.host), h + i <= Len(t) PROVE t[h + i] = r.host[i]
        <5>1. Stands(HostField(r.spelled, r.host), t, h - 1)
          BY DEF Asked
        <5>2. 1 + i \in 1 .. Len(HostField(r.spelled, r.host)) /\ HostField(r.spelled, r.host)[1 + i] = r.host[i]
          BY <3>1, <3>3, FieldIs
        <5>3. h - 1 + (1 + i) = h + i
          <6> HIDE DEF h
          <6> QED
            BY <1>1
        <5>4. h - 1 + (1 + i) <= Len(t)
          BY <4>1, <5>3
        <5>5. t[h - 1 + (1 + i)] = HostField(r.spelled, r.host)[1 + i]
          BY <5>1, <5>2, <5>4 DEF Stands
        <5> QED
          BY <5>2, <5>3, <5>5
      <4> QED
        BY <4>1 DEF Stands
    <3>5. h <= Len(t) /\ 1 + first(s) = h + 1
      <4> HIDE DEF h, first
      <4> QED
        BY <1>1, <2>2, <2>3
    <3>6. \A i \in 1 .. Len(r.host) : r.host[i] \notin LineEnds
      <4>1. \A i \in 1 .. Len(r.host) : r.host[i] \in Letters
        BY RequestsAre
      <4>2. \A x \in Letters : x \notin LineEnds
        BY TokensAre
      <4> QED
        BY <4>1, <4>2
    <3>7. h + Len(r.host) + 1 <= Len(t) => t[h + Len(r.host) + 1] \in LineEnds
      <4>1. Stands(<< LineEnd >>, t, e - 1) /\ Len(<< LineEnd >>) = 1 /\ << LineEnd >>[1] = LineEnd
        BY DEF Asked
      <4>2. e - 1 + 1 = e /\ 1 \in 1 .. 1
        <5> HIDE DEF e
        <5> QED
          BY <1>1
      <4>3. e <= Len(t) => t[e] = LineEnd
        BY <4>1, <4>2 DEF Stands
      <4> QED
        BY <3>3, <4>3, TokensAre DEF LineEnd
    <3>8. /\ IsPrefix(UntilLineEnd(t, h + 1), r.host)
          /\ h + Len(r.host) <= Len(t) => UntilLineEnd(t, h + 1) = r.host
      <4>1. r.host \in Streams /\ h \in Nat
        BY <1>1, RequestsAre
      <4> HIDE DEF h
      <4> QED
        BY <3>4, <3>5, <3>6, <3>7, <4>1, LineIsRead
    <3>9. Len(t) = e + w => h + Len(r.host) <= Len(t)
      <4> HIDE DEF h, e, w
      <4> QED
        BY <1>1, <3>3
    <3> QED
      BY <2>1, <3>2, <3>5, <3>8, <3>9
  <2>4. CASE first(s) > e /\ first(s) - e \in 1 .. w /\ r.rest[first(s) - e] = HostSpellings[s]
    <3> DEFINE j == first(s) - e
    <3>1. j \in 1 .. Len(r.rest) /\ e + j <= Len(t) /\ e + j = first(s) /\ r.rest[j] = HostSpellings[s]
      <4>1. first(s) \in Nat /\ first(s) <= size
        BY <1>1, <2>2
      <4> HIDE DEF first, e
      <4> QED
        BY <1>1, <2>4, <4>1
    <3>2. HostSpellings[s] \in LookedForBefore(r.spelled)
      <4>1. ASSUME NEW o \in 1 .. 3, HostSpellings[o] = r.spelled PROVE s < o
        <5>1. r.spelled # NoHost
          <6>1. r.spelled \in Range(HostSpellings)
            BY <1>2, <4>1 DEF Range
          <6> QED
            BY <6>1, SpellingsAre DEF NoHost
        <5>2. h \in 1 .. size /\ h \in 1 .. first(s) - 1
          <6>1. first(s) \in Nat /\ first(s) <= size /\ h <= e
            BY <1>1, <2>2
          <6> HIDE DEF first, e, h
          <6> QED
            BY <1>1, <2>4, <6>1
        <5>3. t[h] = r.spelled
          <6>1. Stands(HostField(r.spelled, r.host), t, h - 1)
            BY DEF Asked
          <6>2. 1 \in 1 .. Len(HostField(r.spelled, r.host)) /\ HostField(r.spelled, r.host)[1] = r.spelled
            <7>1. Len(r.host) \in Nat
              BY RequestsAre DEF Streams
            <7> QED
              BY <5>1, <7>1, FieldIs
          <6>3. h - 1 + 1 = h /\ h <= Len(t)
            <7> HIDE DEF h
            <7> QED
              BY <1>1, <5>2
          <6> QED
            BY <6>1, <6>2, <6>3 DEF Stands
        <5>4. first(o) # 0
          <6>1. t[h] = HostSpellings[o]
            BY <4>1, <5>3
          <6> HIDE DEF first, h, size
          <6> QED
            BY <1>3, <5>2, <6>1
        <5>5. s <= o
          BY <2>1, <5>4
        <5>6. s # o
          BY <2>2, <4>1, <5>2, <5>3
        <5> QED
          BY <5>5, <5>6
      <4> QED
        BY <4>1 DEF LookedForBefore
    <3>3. IsPrefix(UntilLineEnd(t, e + j + 1), UntilLineEnd(r.rest, j + 1))
      <4>1. r.rest \in Streams /\ e \in Nat /\ Stands(r.rest, t, e)
        BY <1>1, RequestsAre DEF Asked
      <4> HIDE DEF e, j
      <4>2. Len(t) <= e + Len(r.rest)
        BY DEF e
      <4> QED
        BY <3>1, <4>1, <4>2, RestIsRead
    <3>4. 1 + first(s) = e + j + 1
      <4>1. first(s) \in Nat
        BY <2>2
      <4> HIDE DEF first, e, j
      <4> QED
        BY <1>1, <3>1, <4>1
    <3>5. DOMAIN r.rest = 1 .. Len(r.rest)
      BY RequestsAre DEF Streams
    <3>6. r.rest[j] \in Range(r.rest)
      BY <3>1, <3>5 DEF Range
    <3> HIDE DEF j, first, e, h
    <3>7. j \in DOMAIN r.rest /\ r.rest[j] \in LookedForBefore(r.spelled)
          /\ IsPrefix(Host(t), UntilLineEnd(r.rest, j + 1))
      BY <2>1, <3>1, <3>2, <3>3, <3>4, <3>5
    <3> QED
      BY <3>6, <3>7
  <2> QED
    BY <1>4, <2>1, <2>3, <2>4
<1> QED
  BY <1>5, <1>6

(* The version is followed by the end of its line. *)
LEMMA VersionEnds ==
  ASSUME NEW r \in Requests, NEW t \in Streams, Asked(r, t), 6 + Len(r.path) <= Len(t)
  PROVE  t[6 + Len(r.path)] \in LineEnds
<1> DEFINE n == Len(r.path)
           b == Len(r.before)
           l == Len(HostField(r.spelled, r.host))
<1>1. n \in Nat /\ b \in Nat /\ l \in Nat /\ Len(t) \in Nat
  BY RequestsAre DEF Streams
<1>2. HostAt(r) = n + b + 6 /\ EndAt(r) = n + b + 6 + l
  BY DEF HostAt, EndAt
<1>3. CASE r.before # << >>
  <2>1. b # 0 /\ r.before[1] \in LineEnds
    BY <1>3, RequestsAre DEF Streams
  <2>2. 1 \in 1 .. b /\ 5 + n + 1 = 6 + n
    BY <1>1, <2>1
  <2>3. Stands(r.before, t, 5 + n)
    BY DEF Asked
  <2> QED
    BY <2>1, <2>2, <2>3 DEF Stands
<1>4. CASE r.before = << >> /\ r.spelled # NoHost
  <2>1. b = 0
    BY <1>4
  <2>2. HostAt(r) - 1 + 1 = 6 + n
    <3> HIDE DEF n, b
    <3> QED
      BY <1>1, <1>2, <2>1
  <2>3. 1 \in 1 .. l /\ HostField(r.spelled, r.host)[1] = r.spelled
    <3>1. Len(r.host) \in Nat
      BY RequestsAre DEF Streams
    <3> QED
      BY <1>4, <3>1, FieldIs
  <2>4. Stands(HostField(r.spelled, r.host), t, HostAt(r) - 1)
    BY DEF Asked
  <2>5. t[6 + n] = r.spelled
    BY <2>2, <2>3, <2>4 DEF Stands
  <2>6. r.spelled \in LineEnds
    BY <1>4, RequestsAre, SpellingsAre, TokensAre DEF OtherSpelling
  <2> QED
    BY <2>5, <2>6
<1>5. CASE r.before = << >> /\ r.spelled = NoHost
  <2>1. b = 0 /\ l = 0
    BY <1>5, FieldIs
  <2>2. EndAt(r) - 1 + 1 = 6 + n
    <3> HIDE DEF n, b, l
    <3> QED
      BY <1>1, <1>2, <2>1
  <2>3. Stands(<< LineEnd >>, t, EndAt(r) - 1) /\ 1 \in 1 .. Len(<< LineEnd >>) /\ << LineEnd >>[1] = LineEnd
    BY DEF Asked
  <2>4. t[6 + n] = LineEnd
    BY <2>2, <2>3 DEF Stands
  <2> QED
    BY <2>4, TokensAre DEF LineEnd
<1> QED
  BY <1>3, <1>4, <1>5

(* What is made of a request: nothing until its version begins. *)
LEMMA RequestIsRead ==
  ASSUME NEW r \in Requests, NEW t \in Streams, Asked(r, t), Len(t) <= EndAt(r) + Len(r.rest)
  PROVE  LET read == IF t[1] = "HTTP/" /\ t[2] = "1." THEN Response(t) ELSE Request(t) IN
         IF Len(t) < 1 + Len(r.path) + 2 THEN read = Nothing
         ELSE /\ read.kind = "http-request" /\ read.method = r.method /\ read.path = r.path
              /\ IsPrefix(read.version, Version) /\ read.host = Host(t)
<1> DEFINE n == Len(r.path)
           size == Len(t)
<1>1. size \in Nat /\ n \in Nat /\ 1 <= n
  BY RequestsAre DEF Streams
<1>2. /\ Stands(<< r.method >>, t, 0) /\ Stands(r.path, t, 1) /\ Stands(<< Space >>, t, 1 + n)
      /\ Stands(Version, t, 2 + n)
  BY DEF Asked
<1>3. 1 <= size => t[1] = r.method
  <2>1. 1 \in 1 .. Len(<< r.method >>) /\ 0 + 1 = 1 /\ << r.method >>[1] = r.method
    OBVIOUS
  <2> HIDE DEF size
  <2> QED
    BY <1>2, <2>1 DEF Stands, size
<1>4. 2 + n <= size => t[2 + n] = Space
  <2>1. 1 \in 1 .. Len(<< Space >>) /\ << Space >>[1] = Space
    OBVIOUS
  <2>2. 1 + n + 1 = 2 + n
    BY <1>1
  <2> QED
    BY <1>2, <2>1, <2>2 DEF Stands
<1>5. ASSUME NEW j \in 2 .. n + 1, j <= size PROVE t[j] # Space
  <2>1. j - 1 \in 1 .. n /\ 1 + (j - 1) = j
    BY <1>1
  <2>2. t[j] = r.path[j - 1]
    BY <1>2, <1>5, <2>1 DEF Stands
  <2>3. r.path[j - 1] \in Letters
    BY <2>1, RequestsAre
  <2>4. \A x \in Letters : x # Space
    BY TokensAre DEF Space
  <2> QED
    BY <2>2, <2>3, <2>4
<1>6. r.method \in Methods /\ r.method # "HTTP/" /\ r.method # Space
  BY RequestsAre DEF Methods, Space
<1>7. CASE size < 2 + n
  <2>1. \A j \in 2 .. Len(t) : t[j] \notin {Space}
    BY <1>1, <1>5, <1>7
  <2>2. find(t, {Space}, 2) = 0
    BY <2>1, FindNone
  <2>3. Request(t) = Nothing
    BY <2>2 DEF Request
  <2>4. t[1] = "HTTP/" => Response(t) = Nothing
    <3>1. CASE size = 0
      <4>1. find(t, {Space}, 1) = 0
        <5>1. \A j \in 1 .. Len(t) : t[j] \notin {Space}
          BY <3>1
        <5> QED
          BY <5>1, FindNone
      <4> QED
        BY <4>1 DEF Response
    <3>2. CASE size # 0
      <4>1. 1 <= size
        BY <1>1, <3>2
      <4> QED
        BY <1>3, <1>6, <4>1
    <3> QED
      BY <3>1, <3>2
  <2>5. size < 1 + n + 2
    BY <1>1, <1>7
  <2> QED
    BY <2>3, <2>4, <2>5
<1>8. CASE 2 + n <= size
  <2>1. find(t, {Space}, 2) = 2 + n
    <3>1. 2 \in Nat /\ Len(t) \in Nat /\ 2 + n \in 2 .. Len(t)
      BY <1>1, <1>8
    <3>2. \A j \in 2 .. 2 + n - 1 : t[j] \notin {Space}
      BY <1>1, <1>5, <1>8
    <3>3. t[2 + n] \in {Space}
      BY <1>4, <1>8
    <3> DEFINE at == 2 + n
    <3>4. 2 \in Nat /\ Len(t) \in Nat /\ at \in 2 .. Len(t)
      BY <3>1
    <3>5. t[at] \in {Space} /\ \A j \in 2 .. at - 1 : t[j] \notin {Space}
      BY <3>2, <3>3
    <3> HIDE DEF at
    <3>6. find(t, {Space}, 2) = at
      BY <3>4, <3>5, FindIs
    <3> QED
      BY <3>6 DEF at
  <2> DEFINE version == UntilLineEnd(t, 2 + n + 1)
  <2>2. /\ IsPrefix(version, Version)
        /\ 2 + n < Len(t) => version # << >> /\ version[1] = "HTTP/"
    <3>1. 2 + n \in Nat /\ 2 + n <= Len(t) /\ Version \in Streams /\ Version # << >>
      <4>1. Version \in Streams /\ Version # << >>
        BY TokensAre DEF Version
      <4>2. 2 + n \in Nat /\ 2 + n <= Len(t)
        BY <1>1, <1>8
      <4> QED
        BY <4>1, <4>2
    <3>2. \A i \in 1 .. Len(Version) : Version[i] \notin LineEnds
      <4>1. \A i \in 1 .. Len(Version) : i = 1 \/ i = 2 \/ i = 3
        BY VersionIs
      <4> QED
        BY <4>1, VersionIs, TokensAre
    <3>3. 2 + n + Len(Version) + 1 <= Len(t) => t[2 + n + Len(Version) + 1] \in LineEnds
      <4>1. Len(Version) = 3
        BY VersionIs
      <4>2. 6 + n <= size => t[6 + n] \in LineEnds
        BY VersionEnds
      <4>3. 2 + n + 3 + 1 = 6 + n
        BY <1>1
      <4> QED
        BY <4>1, <4>2, <4>3
    <3> HIDE DEF n
    <3> QED
      BY <1>2, <3>1, <3>2, <3>3, LineIsRead, VersionIs
  <2>3. t[1] = r.method /\ t[1] \in Methods /\ t[1] # "HTTP/" /\ 2 + n # 2 /\ 2 + n # 0
    BY <1>1, <1>3, <1>6, <1>8
  <2>4. Request(t) = IF version = << >> \/ version[1] # "HTTP/" THEN Nothing
                     ELSE [kind |-> "http-request", method |-> t[1], path |-> SubSeq(t, 2, 2 + n - 1),
                           version |-> version, host |-> Host(t)]
    <3> DEFINE at == 2 + n
    <3>1. /\ find(t, {Space}, 2) = at /\ at # 2 /\ at # 0 /\ t[1] \in Methods
          /\ version = UntilLineEnd(t, at + 1)
      BY <2>1, <2>3
    <3> HIDE DEF at, version
    <3>2. Request(t) = IF version = << >> \/ version[1] # "HTTP/" THEN Nothing
                       ELSE [kind |-> "http-request", method |-> t[1], path |-> SubSeq(t, 2, at - 1),
                             version |-> version, host |-> Host(t)]
      BY <3>1 DEF Request
    <3> QED
      BY <3>2 DEF at
  <2>5. SubSeq(t, 2, 2 + n - 1) = r.path
    <3> DEFINE path == SubSeq(t, 2, 2 + n - 1)
    <3>1. 2 \in Nat \ {0} /\ 2 + n - 1 \in 2 - 1 .. Len(t) /\ 2 + n - 1 - 2 + 1 = n
      BY <1>1, <1>8
    <3>2. path \in Streams /\ Len(path) = n /\ \A i \in 1 .. n : path[i] = t[2 + i - 1]
      BY <3>1, PartIs
    <3>3. \A i \in 1 .. n : t[2 + i - 1] = r.path[i]
      <4>1. ASSUME NEW i \in 1 .. n PROVE t[2 + i - 1] = r.path[i]
        <5>1. 2 + i - 1 = 1 + i /\ 1 + i <= Len(t)
          BY <1>1, <1>8
        <5> QED
          BY <1>2, <5>1 DEF Stands
      <4> QED
        BY <4>1
    <3>4. r.path \in Streams
      BY RequestsAre
    <3>5. \A i \in 1 .. Len(path) : path[i] = r.path[i]
      BY <3>2, <3>3
    <3> HIDE DEF path
    <3> QED
      BY <3>2, <3>4, <3>5, SeqEqual DEF path, Streams
  <2>6. CASE size = 2 + n
    <3>1. version = << >>
      <4>1. find(t, LineEnds, 2 + n + 1) = 0
        <5>1. \A j \in 2 + n + 1 .. Len(t) : t[j] \notin LineEnds
          BY <1>1, <2>6
        <5> QED
          BY <5>1, FindNone
      <4>2. version = SubSeq(t, 2 + n + 1, Len(t))
        BY <4>1 DEF UntilLineEnd
      <4>3. Len(t) < 2 + n + 1
        BY <1>1, <2>6
      <4>4. 2 + n + 1 \in Int /\ Len(t) \in Int
        BY <1>1
      <4>5. SubSeq(t, 2 + n + 1, Len(t)) = << >>
        <5> DEFINE from == 2 + n + 1
                   last == Len(t)
        <5>1. from \in Int /\ last \in Int /\ last < from
          BY <4>3, <4>4
        <5> HIDE DEF from, last
        <5>2. SubSeq(t, from, last) = << >>
          BY <5>1, SubSeqEmpty
        <5> QED
          BY <5>2 DEF from, last
      <4> QED
        BY <4>2, <4>5
    <3>2. size < 1 + n + 2
      BY <1>1, <2>6
    <3> QED
      BY <2>3, <2>4, <3>1, <3>2
  <2>7. CASE size # 2 + n
    <3>1. 2 + n < Len(t) /\ ~ size < 1 + n + 2
      BY <1>1, <1>8, <2>7
    <3> HIDE DEF version, n
    <3>2. Request(t) = [kind |-> "http-request", method |-> r.method, path |-> r.path,
                        version |-> version, host |-> Host(t)]
      BY <2>2, <2>3, <2>4, <2>5, <3>1
    <3> QED
      BY <2>2, <2>3, <3>1, <3>2 DEF n
  <2> QED
    BY <2>6, <2>7
<1> QED
  BY <1>1, <1>7, <1>8

-----------------------------------------------------------------------------
(* A response that was cut, part by part. *)
Answered(r, t) ==
  /\ Stands(Version, t, 0) /\ Stands(<< Space, "200", Space >>, t, 3) /\ Stands(r.phrase, t, 6)
  /\ Stands(<< LineEnd >>, t, 6 + Len(r.phrase))

LEMMA ResponseIs ==
  ASSUME NEW r \in Responses
  PROVE  /\ ResponseText(r) \in Streams /\ r.phrase \in Streams
         /\ \A i \in 1 .. Len(r.phrase) : r.phrase[i] \notin LineEnds
         /\ \A t \in Streams : Stands(ResponseText(r), t, 0) => Answered(r, t)
<1> DEFINE s1 == << Space, "200", Space >>
           s2 == << LineEnd >>
           f1 == Version \o s1
           f2 == f1 \o r.phrase
           f3 == f2 \o s2
           f4 == f3 \o r.rest
           k == Len(r.phrase)
<1>1. r.phrase \in Seq(Letters \union {Space}) /\ r.rest \in Streams
  BY HttpAssumption DEF Responses, Streams
<1>2. r.phrase \in Streams /\ \A i \in 1 .. Len(r.phrase) : r.phrase[i] \notin LineEnds
  <2>1. \A x \in Letters \union {Space} : x \in Tokens /\ x \notin LineEnds
    BY TokensAre DEF Space
  <2> QED
    BY <1>1, <2>1 DEF Streams
<1>3. /\ s1 \in Streams /\ Len(s1) = 3 /\ s2 \in Streams /\ Len(s2) = 1
      /\ Version \in Streams /\ Len(Version) = 3
  <2>1. Space \in Tokens /\ "200" \in Tokens /\ LineEnd \in Tokens
    BY TokensAre DEF Space, LineEnd
  <2>2. s1 \in Streams /\ s2 \in Streams
    BY <2>1 DEF Streams
  <2> QED
    BY <2>2, TokensAre, VersionIs
<1>4. k \in Nat
  BY <1>2 DEF Streams
<1>5. ResponseText(r) = f4
  BY DEF ResponseText
<1> HIDE DEF s1, s2
<1>6. f1 \in Streams /\ Len(f1) = 6
  <2>1. f1 \in Streams /\ Len(f1) = Len(Version) + Len(s1)
    BY <1>3, JoinedTokens
  <2> QED
    BY <1>3, <2>1
<1> HIDE DEF f1
<1>7. f2 \in Streams /\ Len(f2) = 6 + k
  <2>1. f2 \in Streams /\ Len(f2) = Len(f1) + k
    BY <1>2, <1>6, JoinedTokens
  <2> QED
    BY <1>6, <2>1
<1> HIDE DEF f2
<1>8. f3 \in Streams
  BY <1>3, <1>7, JoinedTokens
<1> HIDE DEF f3
<1>9. f4 \in Streams
  BY <1>1, <1>8, JoinedTokens
<1>10. ASSUME NEW t \in Streams, Stands(f4, t, 0) PROVE Answered(r, t)
  <2>0. 0 \in Nat /\ 0 + Len(f2) = 6 + k /\ 0 + Len(f1) = 6 /\ 0 + Len(Version) = 3
    BY <1>3, <1>4, <1>6, <1>7
  <2>1. Stands(f3, t, 0)
    BY <1>1, <1>8, <1>10, <2>0, StandsApart
  <2>2. Stands(f2, t, 0) /\ Stands(s2, t, 0 + Len(f2))
    BY <1>3, <1>7, <2>0, <2>1, StandsApart DEF f3
  <2>3. Stands(f1, t, 0) /\ Stands(r.phrase, t, 0 + Len(f1))
    BY <1>2, <1>6, <2>0, <2>2, StandsApart DEF f2
  <2>4. Stands(Version, t, 0) /\ Stands(s1, t, 0 + Len(Version))
    BY <1>3, <2>0, <2>3, StandsApart DEF f1
  <2> QED
    BY <2>0, <2>2, <2>3, <2>4 DEF Answered, s1, s2
<1> QED
  BY <1>2, <1>5, <1>9, <1>10

(* What is made of a response: nothing until its phrase begins. *)
LEMMA ResponseIsRead ==
  ASSUME NEW r \in Responses, NEW t \in Streams, Answered(r, t)
  PROVE  LET read == IF t[1] = "HTTP/" /\ t[2] = "1." THEN Response(t) ELSE Request(t) IN
         IF Len(t) < 6 THEN read = Nothing
         ELSE read.kind = "http-response" /\ read.version = Version /\ IsPrefix(read.reason, r.phrase)
<1> DEFINE size == Len(t)
<1>1. size \in Nat
  BY DEF Streams
<1>2. /\ 1 <= size => t[1] = "HTTP/"
      /\ 2 <= size => t[2] = "1."
      /\ 3 <= size => t[3] = "1"
  <2>1. Stands(Version, t, 0)
    BY DEF Answered
  <2>2. /\ 1 \in 1 .. Len(Version) /\ 2 \in 1 .. Len(Version) /\ 3 \in 1 .. Len(Version)
        /\ 0 + 1 = 1 /\ 0 + 2 = 2 /\ 0 + 3 = 3
    BY VersionIs
  <2>3. \A i \in 1 .. Len(Version) : 0 + i <= size => t[0 + i] = Version[i]
    BY <2>1 DEF Stands
  <2> HIDE DEF size
  <2>4. /\ 0 + 1 <= size => t[0 + 1] = Version[1]
        /\ 0 + 2 <= size => t[0 + 2] = Version[2]
        /\ 0 + 3 <= size => t[0 + 3] = Version[3]
    BY <2>2, <2>3
  <2> QED
    BY <2>2, <2>4, VersionIs
<1>3. /\ 4 <= size => t[4] = Space
      /\ 5 <= size => t[5] = "200"
      /\ 6 <= size => t[6] = Space
  <2> DEFINE s == << Space, "200", Space >>
  <2>1. \A i \in 1 .. Len(s) : 3 + i <= size => t[3 + i] = s[i]
    BY DEF Answered, Stands
  <2>2. Len(s) = 3 /\ s[1] = Space /\ s[2] = "200" /\ s[3] = Space
    OBVIOUS
  <2>3. 3 + 1 = 4 /\ 3 + 2 = 5 /\ 3 + 3 = 6 /\ 1 \in 1 .. 3 /\ 2 \in 1 .. 3 /\ 3 \in 1 .. 3
    OBVIOUS
  <2> HIDE DEF s, size
  <2>4. /\ 3 + 1 <= size => t[3 + 1] = s[1]
        /\ 3 + 2 <= size => t[3 + 2] = s[2]
        /\ 3 + 3 <= size => t[3 + 3] = s[3]
    BY <2>1, <2>2, <2>3
  <2> QED
    BY <2>2, <2>3, <2>4
<1>4. "HTTP/" # Space /\ "1." # Space /\ "1" # Space /\ "200" # Space /\ "HTTP/" \notin Methods
  BY DEF Space, Methods
<1>5. CASE size < 4
  <2>1. \A j \in 1 .. Len(t) : t[j] \notin {Space}
    <3>1. ASSUME NEW j \in 1 .. Len(t) PROVE t[j] # Space
      <4>1. /\ (j = 1 /\ 1 <= size) \/ (j = 2 /\ 2 <= size) \/ (j = 3 /\ 3 <= size)
        BY <1>1, <1>5
      <4> HIDE DEF size
      <4> QED
        BY <1>2, <1>4, <4>1
    <3> QED
      BY <3>1
  <2>2. find(t, {Space}, 1) = 0
    BY <2>1, FindNone
  <2>3. Response(t) = Nothing
    BY <2>2 DEF Response
  <2>4. find(t, {Space}, 2) = 0
    <3>1. \A j \in 2 .. Len(t) : t[j] \notin {Space}
      BY <1>1, <2>1
    <3> QED
      BY <3>1, FindNone
  <2>5. Request(t) = Nothing
    BY <2>4 DEF Request
  <2> QED
    BY <1>1, <1>5, <2>3, <2>5
<1>6. CASE 4 <= size
  <2>1. t[1] = "HTTP/" /\ t[2] = "1." /\ t[3] = "1" /\ t[4] = Space
    BY <1>1, <1>2, <1>3, <1>6
  <2>2. find(t, {Space}, 1) = 4
    <3>1. \A j \in 1 .. 3 : j = 1 \/ j = 2 \/ j = 3
      OBVIOUS
    <3>2. \A j \in 1 .. 4 - 1 : t[j] \notin {Space}
      BY <1>4, <2>1, <3>1
    <3>3. 1 \in Nat /\ Len(t) \in Nat /\ 4 \in 1 .. Len(t) /\ t[4] \in {Space}
      BY <1>1, <1>6, <2>1
    <3> QED
      BY <3>2, <3>3, FindIs
  <2> DEFINE second == find(t, {Space}, 4 + 1)
  <2>3. Response(t) = IF second # 6 \/ t[5] # "200" THEN Nothing
                      ELSE [kind |-> "http-response", version |-> SubSeq(t, 1, 3),
                            reason |-> UntilLineEnd(t, second + 1)]
    <3>1. 4 # 0 /\ 4 + 2 = 6 /\ 4 + 1 = 5 /\ 4 - 1 = 3
      OBVIOUS
    <3> QED
      BY <2>2, <3>1 DEF Response
  <2>4. CASE size < 6
    <3>1. \A j \in 4 + 1 .. Len(t) : t[j] \notin {Space}
      <4>1. \A j \in 4 + 1 .. Len(t) : j = 5 /\ 5 <= size
        BY <1>1, <2>4
      <4> HIDE DEF size
      <4> QED
        BY <1>3, <1>4, <4>1
    <3>2. second = 0
      BY <3>1, FindNone
    <3> HIDE DEF second
    <3>3. Response(t) = Nothing
      BY <2>3, <3>2
    <3> QED
      BY <2>1, <2>4, <3>3
  <2>5. CASE 6 <= size
    <3>1. t[5] = "200" /\ t[6] = Space
      BY <1>1, <1>3, <2>5
    <3>2. second = 6
      <4>1. \A j \in 4 + 1 .. 6 - 1 : t[j] \notin {Space}
        <5>1. \A j \in 4 + 1 .. 6 - 1 : j = 5
          OBVIOUS
        <5> QED
          BY <1>4, <3>1, <5>1
      <4>2. 4 + 1 \in Nat /\ Len(t) \in Nat /\ 6 \in 4 + 1 .. Len(t) /\ t[6] \in {Space}
        BY <1>1, <2>5, <3>1
      <4> QED
        BY <4>1, <4>2, FindIs
    <3>3. Response(t) = [kind |-> "http-response", version |-> SubSeq(t, 1, 3),
                         reason |-> UntilLineEnd(t, 6 + 1)]
      <4> HIDE DEF second
      <4> QED
        BY <2>3, <3>1, <3>2
    <3>4. SubSeq(t, 1, 3) = Version
      <4> DEFINE version == SubSeq(t, 1, 3)
      <4>1. 1 \in Nat \ {0} /\ 3 \in 1 - 1 .. Len(t) /\ 3 - 1 + 1 = 3
        BY <1>1, <2>5
      <4>2. version \in Streams /\ Len(version) = 3 /\ \A i \in 1 .. 3 : version[i] = t[1 + i - 1]
        BY <4>1, PartIs
      <4>3. 1 + 1 - 1 = 1 /\ 1 + 2 - 1 = 2 /\ 1 + 3 - 1 = 3 /\ 1 \in 1 .. 3 /\ 2 \in 1 .. 3 /\ 3 \in 1 .. 3
        OBVIOUS
      <4>4. version[1] = t[1] /\ version[2] = t[2] /\ version[3] = t[3]
        BY <4>2, <4>3
      <4> HIDE DEF version
      <4>5. \A i \in 1 .. Len(version) : version[i] = Version[i]
        <5>1. \A i \in 1 .. 3 : i = 1 \/ i = 2 \/ i = 3
          OBVIOUS
        <5> QED
          BY <2>1, <4>2, <4>4, <5>1, VersionIs
      <4>6. version = Version
        <5>1. version \in Seq(Tokens) /\ Version \in Seq(Tokens) /\ Len(version) = Len(Version)
          BY <4>2, TokensAre, VersionIs DEF Streams
        <5> QED
          BY <4>5, <5>1, SeqEqual
      <4> QED
        BY <4>6 DEF version
    <3>5. IsPrefix(UntilLineEnd(t, 6 + 1), r.phrase)
      <4>1. /\ r.phrase \in Streams /\ Stands(r.phrase, t, 6)
            /\ \A i \in 1 .. Len(r.phrase) : r.phrase[i] \notin LineEnds
        BY ResponseIs DEF Answered
      <4>2. 6 + Len(r.phrase) + 1 <= Len(t) => t[6 + Len(r.phrase) + 1] \in LineEnds
        <5>1. Stands(<< LineEnd >>, t, 6 + Len(r.phrase)) /\ 1 \in 1 .. Len(<< LineEnd >>)
              /\ << LineEnd >>[1] = LineEnd
          BY DEF Answered
        <5> QED
          BY <5>1, TokensAre DEF Stands, LineEnd
      <4>3. 6 \in Nat /\ 6 <= Len(t)
        BY <2>5
      <4> QED
        BY <4>1, <4>2, <4>3, LineIsRead
    <3> QED
      BY <1>1, <2>1, <2>5, <3>3, <3>4, <3>5
  <2> QED
    BY <1>1, <2>4, <2>5
<1> QED
  BY <1>1, <1>5, <1>6

-----------------------------------------------------------------------------
HttpInv == ~ IsDns => packet \in HttpPackets /\ captured \in Nat /\ captured <= Len(Payload)

LEMMA HttpPacketsAre ==
  ASSUME NEW p \in HttpPackets
  PROVE  /\ p.flow = Web
         /\ \/ p.is = "request" /\ p.says \in Requests /\ p.payload = RequestText(p.says)
            \/ p.is = "response" /\ p.says \in Responses /\ p.payload = ResponseText(p.says)
         /\ p.payload \in Streams /\ Len(p.payload) \in Nat
<1>1. CASE \E r \in Requests : p = [is |-> "request", flow |-> Web, payload |-> RequestText(r), says |-> r]
  BY <1>1, RequestIs DEF Streams
<1>2. CASE \E r \in Responses : p = [is |-> "response", flow |-> Web, payload |-> ResponseText(r), says |-> r]
  BY <1>2, ResponseIs DEF Streams
<1> QED
  BY <1>1, <1>2 DEF HttpPackets

LEMMA HttpPayloadIs ==
  ASSUME packet \in HttpPackets
  PROVE  ~ IsDns /\ Payload = packet.payload /\ Payload \in Streams /\ Len(Payload) \in Nat
<1>1. packet.is \in {"request", "response"} /\ packet.payload \in Streams /\ Len(packet.payload) \in Nat
  BY HttpPacketsAre
<1>2. ~ IsDns
  BY <1>1 DEF IsDns
<1> QED
  BY <1>1, <1>2 DEF Payload

LEMMA HttpStarts == DecoderInit => HttpInv
<1> SUFFICES ASSUME DecoderInit, ~ IsDns
             PROVE  packet \in HttpPackets /\ captured \in Nat /\ captured <= Len(Payload)
  BY DEF HttpInv
<1>1. \A dns \in DnsPackets : dns.is \in {"query", "answer"}
  BY DEF DnsPackets
<1>2. packet \in HttpPackets /\ captured = 0
  BY <1>1 DEF DecoderInit, IsDns
<1>3. Len(Payload) \in Nat
  BY <1>2, HttpPayloadIs
<1> QED
  BY <1>2, <1>3

LEMMA HttpKept == DnsInv /\ HttpInv /\ [DecoderNext]_decoderVars => HttpInv'
<1> SUFFICES ASSUME DnsInv, HttpInv, [DecoderNext]_decoderVars PROVE HttpInv'
  OBVIOUS
<1>1. CASE AddAnswer
  <2>1. packet.is = "answer" /\ IsDns
    BY <1>1 DEF AddAnswer, Incomplete, IsDns
  <2>2. packet \in Packets
    BY <2>1 DEF DnsInv
  <2>3. PICK says : packet' = [packet EXCEPT !.says = says]
    BY <1>1 DEF AddAnswer
  <2>4. packet'.is = "answer"
    BY <2>1, <2>2, <2>3 DEF Packets
  <2> QED
    BY <2>4 DEF HttpInv, IsDns
<1>2. CASE CaptureMore
  <2>1. packet' = packet /\ captured < Len(Payload) /\ captured' = captured + 1
    BY <1>2 DEF CaptureMore
  <2>2. IsDns' = IsDns /\ Payload' = Payload
    BY <2>1 DEF IsDns, Payload
  <2>3. CASE ~ IsDns
    <3>1. packet \in HttpPackets /\ captured \in Nat
      BY <2>3 DEF HttpInv
    <3>2. Len(Payload) \in Nat
      BY <3>1, HttpPayloadIs
    <3>3. captured' \in Nat /\ captured' <= Len(Payload)
      BY <2>1, <3>1, <3>2
    <3> QED
      BY <2>1, <2>2, <3>1, <3>3 DEF HttpInv
  <2> QED
    BY <2>2, <2>3 DEF HttpInv
<1>3. CASE UNCHANGED decoderVars
  BY <1>3 DEF decoderVars, HttpInv, IsDns, Payload
<1> QED
  BY <1>1, <1>2, <1>3 DEF DecoderNext

LEMMA HttpExplains == HttpInv => HttpEventExplained
<1> SUFFICES ASSUME HttpInv, packet.is \in {"request", "response"} PROVE HttpEventExplained
  BY DEF HttpEventExplained
<1> DEFINE t == SubSeq(Payload, 1, captured)
           read == IF t[1] = "HTTP/" /\ t[2] = "1." THEN Response(t) ELSE Request(t)
           says == packet.says
<1>1. packet \in HttpPackets /\ captured \in Nat /\ captured <= Len(Payload)
  BY DEF HttpInv, IsDns
<1>2. Payload = packet.payload /\ Payload \in Streams /\ packet.flow = Web
  BY <1>1, HttpPayloadIs, HttpPacketsAre
<1>3. t \in Streams /\ Len(t) = captured /\ Stands(Payload, t, 0)
  BY <1>1, <1>2, CutStands
<1>4. Synthetic = IF Width(t) < 12 THEN Nothing ELSE read
  <2> HIDE DEF t
  <2>1. try_decode_dns(Web, t) = Nothing
    BY DEF try_decode_dns, Web
  <2>2. try_decode_http(Web, t) = IF Width(t) < 12 THEN Nothing ELSE read
    BY DEF try_decode_http, Web
  <2>3. Synthesized(Web, t) = try_decode_http(Web, t)
    BY <2>1 DEF Synthesized
  <2> QED
    BY <1>2, <2>2, <2>3 DEF Synthetic, t
<1>5. CASE packet.is = "request"
  <2>1. says \in Requests /\ Payload = RequestText(says)
    BY <1>1, <1>2, <1>5, HttpPacketsAre
  <2>2. Asked(says, t) /\ Len(Payload) = EndAt(says) + Len(says.rest)
    BY <1>3, <2>1, RequestIs
  <2>3. Len(t) <= EndAt(says) + Len(says.rest)
    BY <1>1, <1>3, <2>2
  <2> DEFINE host == IF says.spelled \in Range(HostSpellings) THEN says.host ELSE << >>
  <2> HIDE DEF t, says
  <2>4. IF Len(t) < 1 + Len(says.path) + 2 THEN read = Nothing
        ELSE /\ read.kind = "http-request" /\ read.method = says.method /\ read.path = says.path
             /\ IsPrefix(read.version, Version) /\ read.host = Host(t)
    BY <1>3, <2>1, <2>2, <2>3, RequestIsRead
  <2>5. /\ \/ IsPrefix(Host(t), host)
           \/ \E i \in DOMAIN says.rest : /\ says.rest[i] \in LookedForBefore(says.spelled)
                                          /\ IsPrefix(Host(t), UntilLineEnd(says.rest, i + 1))
        /\ Len(t) = EndAt(says) + Len(says.rest) /\ Range(says.rest) \cap LookedForBefore(says.spelled) = {} =>
             Host(t) = host
    BY <1>3, <2>1, <2>2, <2>3, HostIsRead
  <2> HIDE DEF read, host
  <2>6. IF captured < 1 + Len(says.path) + 2 \/ Width(t) < 12 THEN Synthetic = Nothing
        ELSE /\ Synthetic.kind = "http-request" /\ Synthetic.method = says.method
             /\ Synthetic.path = says.path /\ IsPrefix(Synthetic.version, Version)
             /\ \/ IsPrefix(Synthetic.host, host)
                \/ \E i \in DOMAIN says.rest : /\ says.rest[i] \in LookedForBefore(says.spelled)
                                               /\ IsPrefix(Synthetic.host, UntilLineEnd(says.rest, i + 1))
             /\ captured = Len(Payload) /\ Range(says.rest) \cap LookedForBefore(says.spelled) = {} =>
                  Synthetic.host = host
    <3>1. CASE Width(t) < 12
      BY <1>4, <3>1
    <3>2. CASE ~ Width(t) < 12 /\ captured < 1 + Len(says.path) + 2
      BY <1>3, <1>4, <2>4, <3>2
    <3>3. CASE ~ Width(t) < 12 /\ ~ captured < 1 + Len(says.path) + 2
      <4>1. /\ Synthetic.kind = "http-request" /\ Synthetic.method = says.method
            /\ Synthetic.path = says.path /\ IsPrefix(Synthetic.version, Version) /\ Synthetic.host = Host(t)
        BY <1>3, <1>4, <2>4, <3>3
      <4> QED
        BY <1>3, <2>2, <2>5, <3>3, <4>1
    <3> QED
      BY <3>1, <3>2, <3>3
  <2> QED
    BY <1>5, <2>6 DEF HttpEventExplained, t, says, host
<1>6. CASE packet.is = "response"
  <2>1. says \in Responses /\ Payload = ResponseText(says)
    BY <1>1, <1>2, <1>6, HttpPacketsAre
  <2>2. Answered(says, t)
    BY <1>3, <2>1, ResponseIs
  <2>3. Len(Version) + 3 = 6
    BY VersionIs
  <2> HIDE DEF t, says
  <2>4. IF Len(t) < 6 THEN read = Nothing
        ELSE read.kind = "http-response" /\ read.version = Version /\ IsPrefix(read.reason, says.phrase)
    BY <1>3, <2>1, <2>2, ResponseIsRead
  <2> HIDE DEF read
  <2>5. IF captured < Len(Version) + 3 \/ Width(t) < 12 THEN Synthetic = Nothing
        ELSE Synthetic.kind = "http-response" /\ Synthetic.version = Version
             /\ IsPrefix(Synthetic.reason, says.phrase)
    <3>1. captured < Len(Version) + 3 <=> Len(t) < 6
      BY <1>3, <2>3
    <3>2. CASE Width(t) < 12
      BY <1>4, <3>2
    <3>3. CASE ~ Width(t) < 12
      BY <1>4, <2>4, <3>1, <3>3
    <3> QED
      BY <3>2, <3>3
  <2> QED
    BY <1>6, <2>5 DEF HttpEventExplained, t, says
<1> QED
  BY <1>5, <1>6

(* An HTTP event has the path whole and of the host what was captured, or  *)
(* what follows a spelling looked for earlier (protocol_decoder.cpp:376).  *)
THEOREM HttpIsExplained == DecoderSpec => []HttpEventExplained
<1>1. DecoderInit => DnsInv /\ HttpInv
  BY DnsStarts, HttpStarts
<1>2. DnsInv /\ HttpInv /\ [DecoderNext]_decoderVars => (DnsInv /\ HttpInv)'
  BY DnsKept, HttpKept
<1> QED
  BY <1>1, <1>2, HttpExplains, PTL DEF DecoderSpec
=============================================================================
