--------------------------- MODULE Bundling_proofs ---------------------------
(***************************************************************************)
(* The end of a capture, whatever fails and whatever changes meanwhile:    *)
(* the artifacts that are collected (ArtifactCollector), for any files,    *)
(* contents and bounds, and the archive that is published (BundleWriter),  *)
(* for any number of captures to one path, at work together or not, and    *)
(* any number of pieces.  CopiedSize is a fold over a set: what the proofs *)
(* need of it is derived first, from the well-foundedness of the naturals. *)
(***************************************************************************)
EXTENDS ArtifactCollector, BundleWriter, FiniteSetTheorems, WellFoundedInduction, TLAPS

(* The sum of the sizes of a set of records, as CopiedSize has it. *)
SumOf(S) == MapThenSumSet(LAMBDA r : r.size, S)

Records ==
  [paths : SUBSET Paths, status : Statuses, size : Nat, data : Contents \union {Nothing}]
Looks == [kind : Kinds \union {"none"}, size : Nat]

Types ==
  /\ candidates \subseteq Paths /\ dropped \subseteq Paths /\ todo \subseteq candidates
  /\ Cardinality(candidates) <= MaxCandidates
  /\ truncated \in BOOLEAN /\ (dropped # {} => truncated)
  /\ phase \in {"observing", "next", "looked", "copying", "blocked", "done"}
  /\ seen \in Looks
  /\ records \in SUBSET Records /\ IsFiniteSet(records)
  /\ okCount \in 0 .. MaxCount
  /\ total \in Nat /\ growth \in 0 .. MaxFileSize

(* Nothing is recorded before finalize, and a file that is opened or       *)
(* copied passed the tests on what lstat said of it.                       *)
Phases ==
  /\ phase = "observing" => records = {}
  /\ phase \in {"looked", "copying", "blocked"} => todo # {} /\ ~ NoRoomFor(seen.size)

(* Who is named by which record. *)
PathsOf(set) == UNION { r.paths : r \in set }
Named ==
  /\ phase # "observing" => PathsOf(records) = candidates \ todo
  /\ \A r, s \in records : r # s => r.paths \intersect s.paths = {}

(* What is kept: each content once, and counted.  *)
Kept ==
  /\ \A r, s \in Copied : r # s => r.data # s.data
  /\ stored = { r.data : r \in Copied }
  /\ \A d \in stored : d.size <= MaxFileSize
  /\ total = SumOf(Copied) /\ okCount = Cardinality(Copied)

(* The bounds, on the counters. *)
Bounds ==
  /\ total <= MaxTotalSize + growth
  /\ \A r \in records : r.status = "bound_exceeded" => NoRoomFor(r.size)

IInv == Types /\ Phases /\ Named /\ Kept /\ Bounds

-----------------------------------------------------------------------------
(* Induction over the naturals, and from it sums over finite sets.         *)

(* A set of naturals has a least element. *)
LEMMA Least ==
  ASSUME NEW T, T \subseteq Nat, T # {}
  PROVE  \E x \in T : \A y \in T : x <= y
<1> DEFINE R == OpToRel(<, Nat)
<1>1. IsWellFoundedOn(R, Nat)
  BY NatLessThanWellFounded
<1> HIDE DEF R
<1>2. PICK x \in T : \A y \in T : ~ (<< y, x >> \in R)
  BY <1>1, WFMin
<1>3. ASSUME NEW y \in T PROVE x <= y
  <2>1. << y, x >> \notin R
    BY <1>2
  <2>2. y \in Nat /\ x \in Nat /\ << y, x >> \in Nat \X Nat
    OBVIOUS
  <2>3. y < x => << y, x >> \in R
    BY <2>2 DEF R, OpToRel
  <2> QED
    BY <2>1, <2>2, <2>3
<1> QED
  BY <1>3

(* A set with 0 and the successors of its elements has all naturals. *)
LEMMA Induction ==
  ASSUME NEW S, 0 \in S, \A n \in Nat : n \in S => n + 1 \in S
  PROVE  \A n \in Nat : n \in S
<1> SUFFICES ASSUME Nat \ S # {} PROVE FALSE
  OBVIOUS
<1>1. PICK n \in Nat \ S : \A m \in Nat \ S : n <= m
  BY Least, Nat \ S \subseteq Nat
<1>2. n # 0 /\ n - 1 \in Nat
  BY <1>1
<1>3. n - 1 \in S
  BY <1>1, <1>2
<1> QED
  BY <1>1, <1>2, <1>3

(* A function that sums the sizes of the subsets of S, one element after   *)
(* the other, as the community modules' fold does.                         *)
Any(s) == CHOOSE x \in s : TRUE
Sums(F, S) ==
  F = [s \in SUBSET S |-> IF s = {} THEN 0 ELSE Any(s).size + F[s \ {Any(s)}]]

(* The fold is such a function, applied to the whole set. *)
LEMMA SumIsFold ==
  ASSUME NEW S PROVE SumOf(S) = (CHOOSE F : Sums(F, S))[S]
  BY DEF SumOf, MapThenSumSet, MapThenFoldSet, Sums, Any

(* CopiedSize is the sum over the copied records. *)
LEMMA CopiedSizeIs == CopiedSize = SumOf(Copied)
  BY DEF CopiedSize, SumOf

(* A set without one of its elements has one element less. *)
LEMMA OneLess ==
  ASSUME NEW s, IsFiniteSet(s), NEW x \in s
  PROVE  /\ IsFiniteSet(s \ {x}) /\ Cardinality(s) \in Nat \ {0}
         /\ Cardinality(s \ {x}) = Cardinality(s) - 1
<1>1. s # {} /\ Cardinality(s) \in Nat
  BY FS_CardinalityType
<1>2. Cardinality(s) # 0
  BY <1>1, FS_EmptySet
<1> QED
  BY <1>1, <1>2, FS_RemoveElement

(* Such a function exists for a finite set. *)
LEMMA SumsExist ==
  ASSUME NEW S, IsFiniteSet(S), \A x \in S : x.size \in Nat
  PROVE  \E F : Sums(F, S)
<1> DEFINE Value(F, s) == IF s = {} THEN 0 ELSE Any(s).size + F[s \ {Any(s)}]
           Upto(F, n) == \A s \in SUBSET S : Cardinality(s) <= n => F[s] = Value(F, s)
           Done == { n \in Nat : \E F : Upto(F, n) }
<1>1. \A s \in SUBSET S : IsFiniteSet(s) /\ Cardinality(s) \in Nat
  BY FS_Subset, FS_CardinalityType
<1>2. \A s \in SUBSET S : s # {} => Any(s) \in s /\ s \ {Any(s)} \in SUBSET S
  BY DEF Any
<1>3. \A s \in SUBSET S : s # {} => /\ Cardinality(s) \in Nat \ {0}
                                    /\ Cardinality(s \ {Any(s)}) = Cardinality(s) - 1
  BY <1>1, <1>2, OneLess
<1>4. 0 \in Done
  <2> DEFINE F == [s \in SUBSET S |-> 0]
  <2>1. ASSUME NEW s \in SUBSET S, Cardinality(s) <= 0 PROVE F[s] = Value(F, s)
    <3>1. ~ (Cardinality(s) \in Nat \ {0})
      BY <2>1
    <3>2. s = {}
      BY <1>3, <3>1
    <3> QED
      BY <3>2
  <2>2. Upto(F, 0)
    BY <2>1
  <2> QED
    BY <2>2
<1>5. ASSUME NEW n \in Nat, n \in Done PROVE n + 1 \in Done
  <2>1. PICK F : Upto(F, n)
    BY <1>5
  <2> DEFINE G == [s \in SUBSET S |-> IF Cardinality(s) <= n THEN F[s] ELSE Value(F, s)]
  <2>2. ASSUME NEW s \in SUBSET S, Cardinality(s) <= n + 1 PROVE G[s] = Value(G, s)
    <3>1. G[s] = Value(F, s)
      BY <2>1
    <3>2. s # {} => G[s \ {Any(s)}] = F[s \ {Any(s)}]
      <4>1. s # {} => Cardinality(s \ {Any(s)}) <= n
        BY <1>3, <2>2
      <4> QED
        BY <1>2, <4>1
    <3> QED
      BY <3>1, <3>2
  <2>3. Upto(G, n + 1)
    BY <2>2
  <2> HIDE DEF G, Upto
  <2> QED
    BY <2>3
<1>6. Cardinality(S) \in Done
  <2> HIDE DEF Done
  <2> QED
    BY <1>1, <1>4, <1>5, Induction
<1>7. PICK F : Upto(F, Cardinality(S))
  BY <1>6
<1> DEFINE G == [s \in SUBSET S |-> F[s]]
<1>8. ASSUME NEW s \in SUBSET S PROVE G[s] = Value(G, s)
  <2>1. Cardinality(s) <= Cardinality(S)
    BY FS_Subset
  <2> QED
    BY <1>2, <1>7, <2>1
<1>9. G = [s \in SUBSET S |-> Value(G, s)]
  BY <1>8
<1>10. Sums(G, S)
  <2> HIDE DEF G
  <2> QED
    BY <1>9 DEF Sums
<1> QED
  BY <1>10

(* It adds the size of any element to the sum of the others. *)
LEMMA SumsTake ==
  ASSUME NEW S, IsFiniteSet(S), \A x \in S : x.size \in Nat, NEW F, Sums(F, S)
  PROVE  /\ F[{}] = 0
         /\ \A s \in SUBSET S : F[s] \in Nat /\ \A y \in s : F[s] = y.size + F[s \ {y}]
<1> DEFINE Good(s) == F[s] \in Nat /\ \A y \in s : F[s] = y.size + F[s \ {y}]
           Done == { n \in Nat : \A s \in SUBSET S : Cardinality(s) <= n => Good(s) }
<1>1. \A s \in SUBSET S : IsFiniteSet(s) /\ Cardinality(s) \in Nat
  BY FS_Subset, FS_CardinalityType
<1>2. F[{}] = 0 /\ \A s \in SUBSET S : s # {} => F[s] = Any(s).size + F[s \ {Any(s)}]
  <2>1. ASSUME NEW s \in SUBSET S
        PROVE  F[s] = IF s = {} THEN 0 ELSE Any(s).size + F[s \ {Any(s)}]
    BY DEF Sums
  <2> QED
    BY <2>1
<1>3. 0 \in Done
  <2>1. ASSUME NEW s \in SUBSET S, Cardinality(s) <= 0 PROVE Good(s)
    <3>1. s = {}
      <4>1. Cardinality(s) = 0
        BY <1>1, <2>1
      <4> QED
        BY <1>1, <4>1, FS_EmptySet
    <3> QED
      BY <1>2, <3>1
  <2> QED
    BY <2>1
<1>4. ASSUME NEW n \in Nat, n \in Done PROVE n + 1 \in Done
  <2>1. \A s \in SUBSET S : Cardinality(s) <= n => Good(s)
    BY <1>4
  <2>2. ASSUME NEW s \in SUBSET S, Cardinality(s) = n + 1 PROVE Good(s)
    <3>1. s # {} /\ IsFiniteSet(s)
      BY <1>1, <2>2, FS_EmptySet
    <3> DEFINE x == Any(s)
    <3>2. x \in s
      BY <3>1 DEF Any
    <3>3. F[s] = x.size + F[s \ {x}]
      BY <1>2, <3>1
    <3> HIDE DEF x
    <3>4. ASSUME NEW y \in s
          PROVE  /\ s \ {y} \in SUBSET S /\ y.size \in Nat /\ F[s \ {y}] \in Nat
                 /\ \A z \in s \ {y} : F[s \ {y}] = z.size + F[(s \ {y}) \ {z}]
                 /\ \A z \in s \ {y} : F[(s \ {y}) \ {z}] \in Nat
      <4>1. Cardinality(s \ {y}) = n /\ IsFiniteSet(s \ {y})
        BY <2>2, <3>1, OneLess
      <4>2. s \ {y} \in SUBSET S /\ Cardinality(s \ {y}) <= n
        BY <4>1
      <4>3. Good(s \ {y})
        BY <2>1, <4>1, <4>2
      <4>4. ASSUME NEW z \in s \ {y} PROVE F[(s \ {y}) \ {z}] \in Nat
        <5>1. Cardinality((s \ {y}) \ {z}) = n - 1
          BY <4>1, OneLess
        <5>2. (s \ {y}) \ {z} \in SUBSET S /\ n - 1 <= n
          OBVIOUS
        <5>3. Good((s \ {y}) \ {z})
          BY <2>1, <5>1, <5>2
        <5> QED
          BY <5>3
      <4>5. y \in S
        OBVIOUS
      <4> QED
        BY <4>2, <4>3, <4>4, <4>5
    <3>5. F[s] \in Nat
      <4>1. x.size \in Nat /\ F[s \ {x}] \in Nat
        BY <3>2, <3>4
      <4> QED
        BY <3>3, <4>1
    <3>6. ASSUME NEW y \in s PROVE F[s] = y.size + F[s \ {y}]
      <4>1. CASE y = x
        BY <3>3, <4>1
      <4>2. CASE y # x
        <5>1. (s \ {x}) \ {y} = (s \ {y}) \ {x} /\ y \in s \ {x} /\ x \in s \ {y}
          BY <3>2, <4>2
        <5> DEFINE rest == F[(s \ {y}) \ {x}]
        <5>2. F[s \ {x}] = y.size + rest
          BY <3>2, <3>4, <5>1
        <5>3. F[s \ {y}] = x.size + rest
          BY <3>4, <5>1
        <5>4. rest \in Nat /\ x.size \in Nat /\ y.size \in Nat
          BY <3>2, <3>4, <5>1
        <5> HIDE DEF rest
        <5> QED
          BY <3>3, <5>2, <5>3, <5>4
      <4> QED
        BY <4>1, <4>2
    <3> QED
      BY <3>5, <3>6
  <2>3. ASSUME NEW s \in SUBSET S, Cardinality(s) <= n + 1 PROVE Good(s)
    <3>1. Cardinality(s) <= n \/ Cardinality(s) = n + 1
      BY <1>1, <2>3
    <3> QED
      BY <2>1, <2>2, <3>1
  <2> QED
    BY <2>3
<1>5. ASSUME NEW s \in SUBSET S PROVE Good(s)
  <2>1. Cardinality(s) \in Done
    <3> HIDE DEF Done
    <3> QED
      BY <1>1, <1>3, <1>4, Induction
  <2> QED
    BY <2>1
<1> QED
  BY <1>2, <1>5

(* Two such functions agree where both are defined. *)
LEMMA SumsAgree ==
  ASSUME NEW S, NEW T, S \subseteq T, IsFiniteSet(T), \A x \in T : x.size \in Nat,
         NEW F, Sums(F, S), NEW G, Sums(G, T)
  PROVE  F[S] = G[S]
<1> DEFINE Done == { n \in Nat : \A s \in SUBSET S : Cardinality(s) = n => F[s] = G[s] }
<1>1. IsFiniteSet(S) /\ \A s \in SUBSET S : IsFiniteSet(s) /\ Cardinality(s) \in Nat
  BY FS_Subset, FS_CardinalityType
<1>2. /\ F[{}] = 0 /\ G[{}] = 0
      /\ \A s \in SUBSET S : \A y \in s : F[s] = y.size + F[s \ {y}]
      /\ \A s \in SUBSET T : \A y \in s : G[s] = y.size + G[s \ {y}]
  BY <1>1, SumsTake
<1>3. 0 \in Done
  <2>1. ASSUME NEW s \in SUBSET S, Cardinality(s) = 0 PROVE s = {}
    BY <1>1, <2>1, FS_EmptySet
  <2> QED
    BY <1>2, <2>1
<1>4. ASSUME NEW n \in Nat, n \in Done PROVE n + 1 \in Done
  <2>1. ASSUME NEW s \in SUBSET S, Cardinality(s) = n + 1 PROVE F[s] = G[s]
    <3>1. s # {}
      BY <2>1, FS_EmptySet
    <3>2. PICK y \in s : TRUE
      BY <3>1
    <3>3. Cardinality(s \ {y}) = n /\ s \ {y} \in SUBSET S
      BY <1>1, <2>1, OneLess
    <3>4. F[s \ {y}] = G[s \ {y}]
      BY <1>4, <3>3
    <3> QED
      BY <1>2, <3>4
  <2> QED
    BY <2>1
<1>5. Cardinality(S) \in Done
  <2> HIDE DEF Done
  <2> QED
    BY <1>1, <1>3, <1>4, Induction
<1> QED
  BY <1>5

(* So the fold of the community modules is a sum: of nothing it is 0, ... *)
LEMMA SumOfNone == SumOf({}) = 0
<1>1. IsFiniteSet({}) /\ \A x \in {} : x.size \in Nat
  BY FS_EmptySet
<1>2. Sums(CHOOSE F : Sums(F, {}), {})
  BY <1>1, SumsExist
<1> QED
  BY <1>1, <1>2, SumsTake, SumIsFold

(* ... and one record more adds its size. *)
LEMMA SumOfMore ==
  ASSUME NEW S, IsFiniteSet(S), \A x \in S : x.size \in Nat, NEW y, y \notin S, y.size \in Nat
  PROVE  SumOf(S \union {y}) = SumOf(S) + y.size /\ SumOf(S) \in Nat
<1> DEFINE T == S \union {y}
           F == CHOOSE H : Sums(H, S)
           G == CHOOSE H : Sums(H, T)
<1>1. IsFiniteSet(T) /\ \A x \in T : x.size \in Nat
  BY FS_AddElement
<1>2. Sums(F, S)
  BY SumsExist
<1>3. Sums(G, T)
  <2> HIDE DEF T
  <2> QED
    BY <1>1, SumsExist
<1>4. SumOf(S) = F[S] /\ SumOf(T) = G[T]
  BY SumIsFold
<1> HIDE DEF F, G
<1>5. F[S] = G[S]
  BY <1>1, <1>2, <1>3, SumsAgree
<1>6. F[S] \in Nat
  BY <1>2, SumsTake
<1>7. G[T] = y.size + G[T \ {y}]
  BY <1>1, <1>3, SumsTake
<1>8. T \ {y} = S
  OBVIOUS
<1>9. G[T] = y.size + F[S]
  BY <1>5, <1>7, <1>8
<1>10. SumOf(T) = SumOf(S) + y.size /\ SumOf(S) \in Nat
  BY <1>4, <1>6, <1>9
<1> QED
  BY <1>10

-----------------------------------------------------------------------------
(* Nothing is observed at the start. *)
LEMMA InitInv == Init => IInv
<1> SUFFICES ASSUME Init PROVE IInv
  OBVIOUS
<1>1. IsFiniteSet({}) /\ Cardinality({}) = 0
  BY FS_EmptySet
<1>2. Types
  <2>1. Nothing \in Looks
    BY DEF Looks, Nothing
  <2>2. MaxCount \in Nat /\ MaxFileSize \in Nat /\ MaxCandidates \in Nat
    BY CollectorAssumption DEF CollectorAssumption
  <2>3. 0 \in 0 .. MaxCount /\ 0 \in 0 .. MaxFileSize /\ 0 <= MaxCandidates
    BY <2>2
  <2>4. /\ candidates = {} /\ dropped = {} /\ todo = {} /\ truncated = FALSE
        /\ phase = "observing" /\ seen = Nothing /\ records = {}
        /\ total = 0 /\ okCount = 0 /\ growth = 0
    BY DEF Init
  <2> QED
    BY <1>1, <2>1, <2>3, <2>4 DEF Types
<1>3. Copied = {}
  BY DEF Init, Copied
<1>4. Phases /\ Named
  BY DEF Init, Phases, Named
<1>5. Kept /\ Bounds
  BY <1>1, <1>3, SumOfNone, CollectorAssumption DEF CollectorAssumption, Init, Kept,
    Bounds
<1> QED
  BY <1>2, <1>4, <1>5 DEF IInv

(* Candidates are gathered up to their bound. *)
LEMMA ObserveInv ==
  ASSUME IInv, NEW e \in FileEvents, Observe(e)
  PROVE  IInv'
<1>1. /\ UNCHANGED << phase, todo, seen, records, stored, total, okCount, growth >>
      /\ phase = "observing" /\ e.path \in Paths
      /\ Types /\ Phases /\ Named /\ Kept /\ Bounds
  BY DEF Observe, FileEvents, IInv
<1>2. /\ IsFiniteSet(candidates) /\ Cardinality(candidates) \in Nat
      /\ MaxCandidates \in Nat
  BY <1>1, CollectorAssumption, FS_Subset, FS_CardinalityType DEF CollectorAssumption,
    Types
<1>3. Types'
  <2>1. CASE Cardinality(candidates) >= MaxCandidates
    BY <1>1, <2>1 DEF Observe, Types
  <2>2. CASE ~ (Cardinality(candidates) >= MaxCandidates)
    <3>1. candidates' = candidates \union {e.path} /\ UNCHANGED << truncated, dropped >>
      BY <2>2 DEF Observe
    <3>2. Cardinality(candidates') <= MaxCandidates
      <4>1. Cardinality(candidates') \in {Cardinality(candidates), Cardinality(candidates) + 1}
        BY <1>2, <3>1, FS_AddElement
      <4> QED
        BY <1>2, <2>2, <4>1
    <3> QED
      BY <1>1, <3>1, <3>2 DEF Types
  <2> QED
    BY <2>1, <2>2
<1>4. Phases' /\ Named' /\ Kept' /\ Bounds'
  BY <1>1 DEF Phases, Named, Kept, Bounds, Copied, NoRoomFor
<1> QED
  BY <1>3, <1>4 DEF IInv

(* The end of the observation, the steps between lstat and the copy, and   *)
(* the end.                                                                *)
LEMMA MovesInv ==
  ASSUME IInv,
         UNCHANGED << candidates, truncated, dropped, records, stored, total, okCount, growth >>,
         seen' \in Looks,
         \/ phase = "observing" /\ phase' = "next" /\ todo' = candidates
         \/ /\ phase # "observing" /\ todo' = todo
            /\ phase' \in {"next", "looked", "copying", "blocked", "done"}
            /\ phase' \in {"looked", "copying", "blocked"} =>
                 todo # {} /\ ~ NoRoomFor(seen'.size)
  PROVE  IInv'
<1>1. Types /\ Phases /\ Named /\ Kept /\ Bounds
  BY DEF IInv
<1>2. todo' \subseteq candidates /\ phase' \in {"next", "looked", "copying", "blocked", "done"}
  BY <1>1 DEF Types
<1>3. Types'
  BY <1>1, <1>2 DEF Types
<1>4. Phases' /\ Kept' /\ Bounds'
  BY <1>1 DEF Phases, Kept, Bounds, Copied, NoRoomFor
<1>5. Named'
  <2>1. PathsOf({}) = {}
    BY DEF PathsOf
  <2>2. PathsOf(records) = candidates \ todo'
    BY <1>1, <1>2, <2>1 DEF Phases, Named
  <2> QED
    BY <1>1, <2>2 DEF Named
<1> QED
  BY <1>3, <1>4, <1>5 DEF IInv

(* The path at hand is one that is to be done. *)
LEMMA CurrentIs ==
  ASSUME Types, todo # {}
  PROVE  Current \in todo /\ Current \in Paths
<1>1. todo \subseteq Nat /\ todo \subseteq Paths
  BY CollectorAssumption DEF CollectorAssumption, Types
<1>2. \E x \in todo : \A y \in todo : x <= y
  BY <1>1, Least
<1> QED
  BY <1>1, <1>2 DEF Current, Min

(* What a record more, or one for another, does to the paths named. *)
LEMMA PathsOfMore ==
  ASSUME NEW set, NEW new PROVE PathsOf(set \union {new}) = PathsOf(set) \union new.paths
<1>1. \A x : x \in PathsOf(set \union {new}) <=> x \in PathsOf(set) \/ x \in new.paths
  BY DEF PathsOf
<1> QED
  BY <1>1

(* A record for the path at hand. *)
LEMMA NewRecord ==
  ASSUME IInv, todo # {}, phase # "observing", NEW new \in Records, new.paths = {Current},
         records' = records \union {new}, NextPath,
         UNCHANGED << candidates, truncated, dropped >>
  PROVE  /\ Named' /\ Phases' /\ new \notin records
         /\ records' \in SUBSET Records /\ IsFiniteSet(records')
         /\ todo' \subseteq candidates' /\ seen' \in Looks /\ phase' = "next"
<1>1. Types /\ Named /\ phase' = "next" /\ todo' = todo \ {Current} /\ seen' = Nothing
  BY DEF IInv, NextPath
<1>2. Current \in todo /\ Current \in candidates
  BY <1>1, CurrentIs DEF Types
<1>3. PathsOf(records) = candidates \ todo
  BY <1>1 DEF Named
<1>4. \A r \in records : Current \notin r.paths
  BY <1>2, <1>3 DEF PathsOf
<1>5. PathsOf(records') = PathsOf(records) \union {Current}
  BY PathsOfMore
<1>6. (candidates \ todo) \union {Current} = candidates \ (todo \ {Current})
  BY <1>2
<1>7. Named'
  <2>1. ASSUME NEW r \in records', NEW s \in records', r # s
        PROVE  r.paths \intersect s.paths = {}
    <3>1. CASE r \in records /\ s \in records
      BY <1>1, <2>1, <3>1 DEF Named
    <3>2. CASE r = new /\ s \in records
      BY <1>4, <3>2
    <3>3. CASE s = new /\ r \in records
      BY <1>4, <3>3
    <3> QED
      BY <2>1, <3>1, <3>2, <3>3
  <2>2. PathsOf(records') = candidates' \ todo'
    BY <1>1, <1>3, <1>5, <1>6
  <2> QED
    BY <2>1, <2>2 DEF Named
<1>8. Phases'
  BY <1>1 DEF Phases
<1>9. new \notin records
  BY <1>4
<1>10. IsFiniteSet(records')
  BY <1>1, FS_AddElement DEF Types
<1>11. seen' \in Looks
  BY <1>1 DEF Looks, Nothing
<1> QED
  BY <1>1, <1>7, <1>8, <1>9, <1>10, <1>11 DEF Types

(* A path of which no content is kept. *)
LEMMA RecordInv ==
  ASSUME IInv, todo # {}, phase # "observing",
         NEW status \in Statuses \ {"ok"}, NEW size \in Nat, Record(status, size), Unchanged,
         status = "bound_exceeded" => NoRoomFor(size)
  PROVE  IInv'
<1> DEFINE new == [paths |-> {Current}, status |-> status, size |-> size, data |-> Nothing]
<1>1. /\ Types /\ Kept /\ Bounds /\ records' = records \union {new} /\ NextPath
      /\ UNCHANGED << candidates, truncated, dropped, stored, total, okCount, growth >>
  BY DEF IInv, Record, Unchanged
<1>2. /\ new \in Records /\ new.paths = {Current} /\ new.status = status /\ new.size = size
  BY <1>1, CurrentIs DEF Records
<1> HIDE DEF new
<1>3. /\ Named' /\ Phases' /\ records' \in SUBSET Records /\ IsFiniteSet(records')
      /\ todo' \subseteq candidates' /\ seen' \in Looks /\ phase' = "next"
  BY <1>1, <1>2, NewRecord
<1>4. Types'
  BY <1>1, <1>3 DEF Types
<1>5. Copied' = Copied
  BY <1>1, <1>2 DEF Copied
<1>6. Kept'
  BY <1>1, <1>5 DEF Kept
<1>7. Bounds'
  BY <1>1, <1>2 DEF Bounds, NoRoomFor
<1> QED
  BY <1>3, <1>4, <1>6, <1>7 DEF IInv

(* What is true of the records that hold a content. *)
LEMMA CopiedAre ==
  ASSUME Types
  PROVE  /\ IsFiniteSet(Copied) /\ Copied \subseteq records
         /\ \A r \in Copied : r \in Records /\ r.size \in Nat
  BY FS_Subset DEF Types, Copied, Records

(* A path whose content is there already joins the record that has it. *)
LEMMA MergesInv ==
  ASSUME IInv, NEW d \in Contents, Merges(d)
  PROVE  IInv'
<1>1. /\ Types /\ Phases /\ Named /\ Kept /\ Bounds
      /\ phase = "copying" /\ NextPath /\ JoinsRecord(d)
      /\ UNCHANGED << candidates, truncated, dropped, stored, total, okCount, growth >>
  BY DEF IInv, Merges, Unchanged
<1>2. PICK r \in records : r.status = "ok" /\ r.data = d
  BY DEF Merges, IsCopied
<1>3. /\ Current \in todo /\ Current \in candidates /\ Current \in Paths
      /\ phase' = "next" /\ todo' = todo \ {Current} /\ seen' \in Looks
  BY <1>1, CurrentIs DEF Phases, NextPath, Types, Looks, Nothing
<1> DEFINE joined == [r EXCEPT !.paths = @ \union {Current}]
<1>4. r \in Records /\ r \in Copied
  BY <1>1, <1>2 DEF Types, Copied
<1>5. /\ joined \in Records /\ joined.paths = r.paths \union {Current}
      /\ joined.status = "ok" /\ joined.data = d /\ joined.size = r.size
  BY <1>2, <1>3, <1>4 DEF Records
<1>6. \A s \in records : s.status = "ok" /\ s.data = d => s = r
  BY <1>1, <1>2, <1>4 DEF Kept, Copied
<1>7. records' = (records \ {r}) \union {joined}
  <2>1. records' = { IF s.status = "ok" /\ s.data = d
                     THEN [s EXCEPT !.paths = @ \union {Current}] ELSE s : s \in records }
    BY <1>1 DEF JoinsRecord
  <2>2. ASSUME NEW s \in records
        PROVE  (IF s.status = "ok" /\ s.data = d
                THEN [s EXCEPT !.paths = @ \union {Current}] ELSE s)
               = IF s = r THEN joined ELSE s
    BY <1>2, <1>6
  <2>3. records' = { IF s = r THEN joined ELSE s : s \in records }
    BY <2>1, <2>2
  <2> HIDE DEF joined
  <2>4. ASSUME NEW x PROVE x \in records' <=> x \in (records \ {r}) \union {joined}
    BY <1>2, <2>3
  <2> QED
    BY <2>4
<1> HIDE DEF joined
<1>8. \A s \in records \ {r} : Current \notin s.paths
  BY <1>1, <1>3 DEF Named, PathsOf
<1>9. joined \notin records \ {r}
  BY <1>5, <1>6
<1>10. records' \in SUBSET Records /\ IsFiniteSet(records')
  BY <1>1, <1>5, <1>7, FS_RemoveElement, FS_AddElement DEF Types
<1>11. Types'
  BY <1>1, <1>3, <1>10 DEF Types
<1>12. Phases'
  BY <1>3 DEF Phases
<1>13. Named'
  <2>1. ASSUME NEW s \in records', NEW t \in records', s # t
        PROVE  s.paths \intersect t.paths = {}
    <3>1. CASE s \in records \ {r} /\ t \in records \ {r}
      BY <1>1, <2>1, <3>1 DEF Named
    <3>2. ASSUME NEW u \in records \ {r} PROVE u.paths \intersect joined.paths = {}
      <4>1. u.paths \intersect r.paths = {}
        BY <1>1 DEF Named
      <4> QED
        BY <1>5, <1>8, <4>1
    <3> QED
      BY <1>7, <2>1, <3>1, <3>2
  <2>2. PathsOf(records') = PathsOf(records) \union {Current}
    <3>1. PathsOf(records') = PathsOf(records \ {r}) \union (r.paths \union {Current})
      BY <1>5, <1>7, PathsOfMore
    <3>2. records = (records \ {r}) \union {r}
      OBVIOUS
    <3>3. PathsOf(records) = PathsOf(records \ {r}) \union r.paths
      BY <3>2, PathsOfMore
    <3> QED
      BY <3>1, <3>3
  <2>3. PathsOf(records') = candidates' \ todo'
    BY <1>1, <1>3, <2>2 DEF Named
  <2> QED
    BY <2>1, <2>3 DEF Named
<1>14. Kept'
  <2> DEFINE rest == Copied \ {r}
  <2>1. /\ Copied' = rest \union {joined} /\ Copied = rest \union {r}
        /\ joined \notin rest /\ r \notin rest
    BY <1>4, <1>5, <1>7, <1>9 DEF Copied
  <2>2. IsFiniteSet(rest) /\ \A s \in rest : s.size \in Nat
    BY <1>1, CopiedAre, FS_RemoveElement
  <2>3. \A s \in rest : s.data # d
    BY <1>6 DEF Copied
  <2>4. \A s, t \in rest : s # t => s.data # t.data
    BY <1>1 DEF Kept
  <2> HIDE DEF rest
  <2>5. SumOf(Copied') = SumOf(Copied)
    <3>1. SumOf(rest \union {joined}) = SumOf(rest) + joined.size
      BY <1>5, <2>1, <2>2, SumOfMore DEF Records
    <3>2. SumOf(rest \union {r}) = SumOf(rest) + r.size
      BY <1>4, <2>1, <2>2, SumOfMore DEF Records
    <3> QED
      BY <1>5, <2>1, <3>1, <3>2
  <2>6. Cardinality(Copied') = Cardinality(Copied)
    BY <2>1, <2>2, FS_AddElement
  <2>7. { s.data : s \in Copied' } = { s.data : s \in Copied }
    BY <1>2, <1>5, <2>1
  <2>8. \A s, t \in Copied' : s # t => s.data # t.data
    BY <1>5, <2>1, <2>3, <2>4
  <2> QED
    BY <1>1, <2>5, <2>6, <2>7, <2>8 DEF Kept
<1>15. Bounds'
  BY <1>1, <1>5, <1>7 DEF Bounds, NoRoomFor
<1> QED
  BY <1>11, <1>12, <1>13, <1>14, <1>15 DEF IInv

(* A new content: there was room for the size lstat gave. *)
LEMMA CopyInv ==
  ASSUME IInv, NEW d \in Contents, Copy(d)
  PROVE  IInv'
<1> DEFINE new == [paths |-> {Current}, status |-> "ok", size |-> d.size, data |-> d]
<1>1. /\ Types /\ Phases /\ Named /\ Kept /\ Bounds
      /\ phase = "copying" /\ d.size <= MaxFileSize /\ ~ IsCopied(d)
      /\ stored' = stored \union {d} /\ records' = records \union {new}
      /\ okCount' = okCount + 1 /\ total' = total + d.size
      /\ growth' = (IF d.size > seen.size THEN d.size - seen.size ELSE 0)
      /\ NextPath /\ UNCHANGED << candidates, truncated, dropped >>
  BY DEF IInv, Copy, Keeps
<1>2. todo # {} /\ ~ NoRoomFor(seen.size)
  BY <1>1 DEF Phases
<1>3. /\ d.size \in Nat /\ seen.size \in Nat /\ total \in Nat /\ okCount \in 0 .. MaxCount
      /\ MaxCount \in Nat /\ MaxTotalSize \in Nat /\ MaxFileSize \in Nat
  BY <1>1, CollectorAssumption DEF CollectorAssumption, Types, Looks
<1>4. /\ new \in Records /\ new.paths = {Current} /\ new.status = "ok"
      /\ new.size = d.size /\ new.data = d
  BY <1>1, <1>2, <1>3, CurrentIs DEF Records, Statuses
<1> HIDE DEF new
<1>5. /\ Named' /\ Phases' /\ new \notin records
      /\ records' \in SUBSET Records /\ IsFiniteSet(records')
      /\ todo' \subseteq candidates' /\ seen' \in Looks /\ phase' = "next"
  BY <1>1, <1>2, <1>4, NewRecord
<1>6. okCount < MaxCount /\ total + seen.size <= MaxTotalSize
  BY <1>2, <1>3 DEF NoRoomFor
<1>7. growth' \in 0 .. MaxFileSize /\ total' <= MaxTotalSize + growth'
  BY <1>1, <1>3, <1>6
<1>8. Types'
  BY <1>1, <1>3, <1>5, <1>6, <1>7 DEF Types
<1>9. Kept'
  <2>1. Copied' = Copied \union {new} /\ new \notin Copied
    BY <1>1, <1>4, <1>5 DEF Copied
  <2>2. IsFiniteSet(Copied) /\ \A r \in Copied : r.size \in Nat
    BY <1>1, CopiedAre
  <2>3. SumOf(Copied') = SumOf(Copied) + d.size
    BY <1>3, <1>4, <2>1, <2>2, SumOfMore
  <2>4. Cardinality(Copied') = Cardinality(Copied) + 1
    BY <2>1, <2>2, FS_AddElement
  <2>5. \A r \in Copied : r.data # d
    BY <1>1 DEF IsCopied, Copied
  <2>6. \A r, s \in Copied' : r # s => r.data # s.data
    BY <1>1, <1>4, <2>1, <2>5 DEF Kept
  <2>7. stored' = { r.data : r \in Copied' }
    BY <1>1, <1>4, <2>1 DEF Kept
  <2>8. \A c \in stored' : c.size <= MaxFileSize
    BY <1>1 DEF Kept
  <2> QED
    BY <1>1, <2>3, <2>4, <2>6, <2>7, <2>8 DEF Kept
<1>10. Bounds'
  <2>1. ASSUME NEW r \in records', r.status = "bound_exceeded" PROVE NoRoomFor(r.size)'
    <3>1. r \in records
      BY <1>1, <1>4, <2>1
    <3>2. NoRoomFor(r.size) /\ r.size \in Nat
      BY <1>1, <2>1, <3>1 DEF Bounds, Types, Records
    <3> QED
      BY <1>1, <1>3, <3>2 DEF NoRoomFor
  <2> QED
    BY <1>7, <2>1 DEF Bounds
<1> QED
  BY <1>5, <1>8, <1>9, <1>10 DEF IInv

(* The steps of finalize. *)
LEMMA StepInv ==
  ASSUME IInv, Step \/ WaitIsOver
  PROVE  IInv'
<1>1. /\ Types /\ Phases /\ seen.size \in Nat
      /\ 0 \in Nat /\ \A size \in Sizes : size \in Nat
      /\ "unreadable" \in Statuses /\ "missing" \in Statuses /\ "too_large" \in Statuses
  BY CollectorAssumption DEF CollectorAssumption, IInv, Types, Looks, Sizes, Statuses
<1>2. CASE Lstat
  <2>1. PICK kind \in Kinds, size \in Nat :
          /\ phase = "next" /\ todo # {} /\ Unchanged
          /\ IF StatusOf(kind, size) = "copy"
             THEN /\ phase' = "looked" /\ seen' = [kind |-> kind, size |-> size]
                  /\ UNCHANGED << todo, records >>
             ELSE Record(StatusOf(kind, size), size)
    BY <1>1, <1>2 DEF Lstat
  <2>2. /\ StatusOf(kind, size) = "copy" => ~ NoRoomFor(size)
        /\ StatusOf(kind, size) # "copy" => StatusOf(kind, size) \in Statuses \ {"ok"}
        /\ StatusOf(kind, size) = "bound_exceeded" => NoRoomFor(size)
    BY DEF StatusOf, StatusByLook, Kinds, Statuses
  <2>3. CASE StatusOf(kind, size) = "copy"
    <3>1. /\ phase' = "looked" /\ seen' = [kind |-> kind, size |-> size]
          /\ UNCHANGED << candidates, truncated, dropped, records, stored, total, okCount,
                          growth, todo >>
      BY <2>1, <2>3 DEF Unchanged
    <3>2. seen' \in Looks /\ seen'.size = size
      BY <3>1 DEF Looks
    <3> QED
      BY <2>1, <2>2, <2>3, <3>1, <3>2, MovesInv
  <2>4. CASE StatusOf(kind, size) # "copy"
    BY <2>1, <2>2, <2>4, RecordInv
  <2> QED
    BY <2>3, <2>4
<1>3. CASE LstatFails
  BY <1>1, <1>3, RecordInv DEF LstatFails
<1>4. CASE Open
  <2>1. /\ phase = "looked" /\ todo # {} /\ ~ NoRoomFor(seen.size) /\ Unchanged
        /\ seen \in Looks
    BY <1>1, <1>4 DEF Open, Phases, Types
  <2>2. CASE phase' \in {"copying", "blocked"} /\ UNCHANGED << todo, seen, records >>
    BY <2>1, <2>2, MovesInv DEF Unchanged
  <2>3. CASE Record("missing", seen.size) \/ Record("unreadable", seen.size)
    BY <1>1, <2>1, <2>3, RecordInv
  <2> QED
    BY <1>4, <2>2, <2>3 DEF Open
<1>5. CASE WaitIsOver \/ Return
  <2>1. /\ phase # "observing" /\ phase' \in {"copying", "done"} /\ seen' \in Looks
        /\ phase' = "copying" => todo # {} /\ ~ NoRoomFor(seen'.size)
        /\ todo' = todo
        /\ UNCHANGED << candidates, truncated, dropped, records, stored, total, okCount, growth >>
    BY <1>1, <1>5 DEF WaitIsOver, Return, Phases, Types, Unchanged
  <2> QED
    BY <2>1, MovesInv
<1>6. CASE CopyFails
  BY <1>1, <1>6, RecordInv DEF CopyFails, Phases
<1>7. ASSUME NEW d \in Contents, OutgrowsLimit(d) PROVE IInv'
  BY <1>1, <1>7, RecordInv DEF OutgrowsLimit, Phases
<1>8. ASSUME NEW d \in Contents, RenameFails(d) PROVE IInv'
  <2>1. d.size \in Nat
    BY CollectorAssumption DEF CollectorAssumption
  <2> QED
    BY <1>1, <1>8, <2>1, RecordInv DEF RenameFails, Phases
<1> QED
  BY <1>2, <1>3, <1>4, <1>5, <1>6, <1>7, <1>8, MergesInv, CopyInv DEF Step

(* Every step keeps the invariant. *)
LEMMA NextInv == IInv /\ [Next]_vars => IInv'
<1> SUFFICES ASSUME IInv, [Next]_vars PROVE IInv'
  OBVIOUS
<1>1. CASE UNCHANGED vars
  BY <1>1 DEF vars, IInv, Types, Phases, Named, Kept, Bounds, Copied, NoRoomFor
<1>2. CASE Finalize
  <2>1. /\ phase = "observing" /\ phase' = "next" /\ todo' = candidates /\ seen' \in Looks
        /\ UNCHANGED << candidates, truncated, dropped, records, stored, total, okCount, growth >>
    BY <1>2 DEF Finalize, IInv, Types
  <2> QED
    BY <2>1, MovesInv
<1> QED
  BY <1>1, <1>2, ObserveInv, StepInv DEF Next

(* The inductive invariant holds throughout, whatever happens to the files. *)
THEOREM Invariant == Spec => []IInv
<1>1. IInv /\ [Next]_vars => IInv'
  BY NextInv
<1> QED
  BY InitInv, <1>1, PTL DEF Spec

(* The limits of one file, of the number of files and of the candidates    *)
(* are kept (artifact_collector.cpp observe, finalize).                    *)
THEOREM TypeCorrect == Spec => []TypeOK
<1>1. IInv => TypeOK
  BY DEF IInv, Types, Kept, Records, Looks, TypeOK
<1> QED
  BY <1>1, Invariant, PTL

(* The total is exceeded only by what the last file copied grew between    *)
(* lstat and copy.                                                         *)
THEOREM OverrunIsGrowth == Spec => []OverrunOwedToGrowth
<1>1. IInv => OverrunOwedToGrowth
  BY CopiedSizeIs DEF IInv, Kept, Bounds, OverrunOwedToGrowth
<1> QED
  BY <1>1, Invariant, PTL

(* Every candidate done is named once, every content is kept once, and the *)
(* counters are those of the records.                                      *)
THEOREM NamedOnce == Spec => []EachPathOnce
<1>1. IInv => EachPathOnce
  BY CopiedSizeIs DEF IInv, Types, Named, PathsOf, Kept, EachPathOnce
<1> QED
  BY <1>1, Invariant, PTL

(* Only what is kept leaves no room for a file that was refused.           *)
THEOREM RefusalsAreJustified == Spec => []RefusedForLackOfRoom
<1>1. IInv => RefusedForLackOfRoom
  BY CopiedSizeIs DEF IInv, Kept, Bounds, NoRoomFor, RefusedForLackOfRoom
<1> QED
  BY <1>1, Invariant, PTL

-----------------------------------------------------------------------------
(* The archive: what BundleWriter keeps, and that it implements            *)
(* AtomicPublish while captures follow each other.                         *)

(* Two runs that are at work at once have met; a run that has is not the   *)
(* only one there was.                                                     *)
Met(w) == w \in meetings.met
Meetings ==
  /\ \A v, w \in Writers : Active(v) /\ Active(w) /\ v # w => Met(v)
  /\ \A w \in meetings.met : \E v \in Writers \ {w} : pc[v] # "idle"

(* A run that has not opened its archive has written nothing, and the      *)
(* inode it may create is nowhere.                                         *)
Unopened(w) == pc[w] \in {"idle", "preparing", "opening"}
Fresh ==
  \A w \in Writers : Unopened(w) =>
    /\ next[w] = 1 /\ w \notin {dir.tmp, dir.final, diskDir.tmp, diskDir.final}
    /\ \A v \in Writers : fd[v] # w

(* <path>.tmp is not the file at the path, now or after a power loss.      *)
Apart ==
  /\ dir.tmp # None => dir.tmp # dir.final /\ dir.tmp # diskDir.final
  /\ diskDir.tmp # None => diskDir.tmp # diskDir.final

(* What a run that met no other has written is in <path>.tmp, up to the    *)
(* next piece; synced before the rename.                                   *)
WrittenSoFar ==
  \A w \in Writers :
    /\ pc[w] = "writing" => next[w] <= Entries
    /\ ~ Met(w) =>
         /\ pc[w] \in {"writing", "closing"} => fd[w] = dir.tmp
         /\ pc[w] = "writing" => \A p \in 1 .. next[w] - 1 : PieceOf(content[fd[w]], p, w)
         /\ pc[w] \in {"closing", "syncing", "renaming"} =>
              dir.tmp # None /\ Complete(content[dir.tmp], w)
         /\ pc[w] = "renaming" => diskContent[dir.tmp] = content[dir.tmp]

(* The file such a run put at the path is open for writing nowhere.        *)
Closed(inode) ==
  inode # None /\ meetings.renamer[inode] \notin meetings.met => \A v \in Writers : fd[v] # inode
ClosedAtPath == Closed(dir.final) /\ Closed(diskDir.final)

(* It has all pieces of that run, all of them on disk; so has the one a    *)
(* power loss would bring back.                                            *)
Sound(inode) ==
  inode # None /\ meetings.renamer[inode] \notin meetings.met =>
    /\ Complete(content[inode], meetings.renamer[inode])
    /\ diskContent[inode] = content[inode]
WholeAtPath == Sound(dir.final) /\ Sound(diskDir.final)

(* The path has the bundle of the only run there was, once it is renamed.  *)
Alone(w) == \A other \in Writers \ {w} : pc[other] = "idle"
LastPublished ==
  \A w \in Writers : Alone(w) =>
    /\ pc[w] \in {"syncingDir", "durable"} =>
         dir.final # None /\ Complete(diskContent[dir.final], w)
    /\ pc[w] = "durable" => diskDir.final = dir.final

WriterInv ==
  /\ WriterTypeOK /\ Meetings /\ Fresh /\ Apart /\ WrittenSoFar
  /\ ClosedAtPath /\ WholeAtPath /\ LastPublished /\ NoTmpLeft

-----------------------------------------------------------------------------
(* What the constants give: at least one piece, and None is no inode.  An  *)
(* archive is complete for one run only.                                   *)
LEMMA Constants ==
  /\ Entries \in Nat \ {0} /\ 1 \in Pieces /\ Doubtful \subseteq Pieces
  /\ Writers \subseteq Inodes /\ Old \in Inodes /\ Old \notin Writers /\ None \notin Inodes
  /\ \A archive, b, c : Complete(archive, b) /\ Complete(archive, c) => b = c
  /\ \A b \in Inodes : Intact(b) \in Data
  /\ Hole \in [Pieces -> Data]
<1>1. Entries \in Nat \ {0} /\ 1 \in Pieces /\ Doubtful \subseteq Pieces
  BY WriterAssumption DEF WriterAssumption, Pieces
<1>2. ASSUME NEW archive, NEW b, NEW c, Complete(archive, b), Complete(archive, c) PROVE b = c
  BY <1>1, <1>2 DEF Complete, PieceOf
<1>3. /\ \A b \in Inodes : Intact(b) \in Data
      /\ Hole \in [Pieces -> Data]
  BY DEF Intact, Data, Hole, NoData
<1> QED
  BY <1>1, <1>2, <1>3, WriterAssumption DEF WriterAssumption, Inodes

(* It holds at the start. *)
LEMMA WriterInitInv == WriterInit => WriterInv
<1> SUFFICES ASSUME WriterInit PROVE WriterInv
  OBVIOUS
<1> USE Constants
<1>1. WriterTypeOK
  BY DEF WriterInit, WriterTypeOK, Working
<1>2. Meetings /\ Fresh /\ Apart /\ WrittenSoFar
  BY WriterAssumption
     DEF WriterAssumption, WriterInit, Meetings, Active, Working, Fresh, Unopened, Apart,
         WrittenSoFar
<1>3. ClosedAtPath /\ WholeAtPath
  <2>1. Complete(content[Old], Old) /\ diskContent[Old] = content[Old]
    BY DEF WriterInit, Complete, PieceOf, Intact
  <2> QED
    BY <2>1 DEF WriterInit, ClosedAtPath, Closed, WholeAtPath, Sound
<1>4. LastPublished /\ NoTmpLeft
  BY DEF WriterInit, LastPublished, NoTmpLeft
<1> QED
  BY <1>1, <1>2, <1>3, <1>4 DEF WriterInv

(* A run that works may go anywhere without meeting another. *)
LEMMA StaysMet ==
  ASSUME WriterTypeOK, Meetings, NEW w \in Writers, Active(w), NEW to, to # "idle",
         pc' = [pc EXCEPT ![w] = to], meetings'.met = meetings.met
  PROVE  Meetings'
<1>1. \A v \in Writers : Active(v)' => Active(v)
  BY DEF WriterTypeOK, Active
<1>2. \A v \in Writers : pc[v] # "idle" => pc'[v] # "idle"
  BY DEF WriterTypeOK
<1> QED
  BY <1>1, <1>2 DEF Meetings, Met

(* While a run works, those that have not met it do not; and a run without *)
(* company has met no other.                                               *)
LEMMA Company ==
  ASSUME WriterTypeOK, Meetings, NEW w \in Writers
  PROVE  /\ Active(w) => \A v \in Writers : v # w /\ ~ Met(v) =>
              pc[v] \notin {"preparing", "opening", "writing", "closing", "syncing",
                           "renaming", "syncingDir"}
         /\ Active(w) /\ ~ Met(w) => \A v \in Writers : v # w => fd[v] = None
         /\ Alone(w) => ~ Met(w)
<1>1. ASSUME Active(w), NEW v \in Writers, v # w, ~ Met(v)
      PROVE  pc[v] \notin {"preparing", "opening", "writing", "closing", "syncing",
                           "renaming", "syncingDir"}
  BY <1>1 DEF Meetings, Active, Working
<1>2. ASSUME Active(w), ~ Met(w), NEW v \in Writers, v # w
      PROVE  fd[v] = None
  BY <1>2 DEF Meetings, Active, Working, WriterTypeOK
<1>3. Alone(w) => ~ Met(w)
  BY DEF Meetings, Alone, Met
<1> QED
  BY <1>1, <1>2, <1>3

(* A step of one run, whoever else is at work. *)
LEMMA WriterStepInv ==
  ASSUME WriterInv, NEW w \in Writers
  PROVE  /\ Start(w) => WriterInv'
         /\ Prepare(w) => WriterInv'
         /\ OpenArchive(w) => WriterInv'
         /\ WriteEntry(w) => WriterInv'
         /\ CloseArchive(w) => WriterInv'
         /\ SyncTmp(w) => WriterInv'
         /\ Rename(w) => WriterInv'
         /\ SyncDir(w) => WriterInv'
         /\ \A at \in Working \ {"syncingDir"} : Fails(w, at) => WriterInv'
         /\ Killed(w) => WriterInv'
<1> USE Constants
<1> USE DEF WriterInv
<1>t. WriterTypeOK
  OBVIOUS
<1>a. /\ Active(w) => \A v \in Writers : v # w /\ ~ Met(v) =>
           pc[v] \notin {"preparing", "opening", "writing", "closing", "syncing",
                        "renaming", "syncingDir"}
      /\ Active(w) /\ ~ Met(w) => \A v \in Writers : v # w => fd[v] = None
      /\ Alone(w) => ~ Met(w)
  BY Company
<1>1. CASE Start(w)
  <2> DEFINE others == { v \in Writers : Active(v) }
  <2>1. /\ pc[w] = "idle" /\ pc' = [pc EXCEPT ![w] = "preparing"] /\ w \notin others
        /\ meetings' = IF others = {} THEN meetings
                       ELSE [meetings EXCEPT !.met = @ \union others \union {w}]
        /\ UNCHANGED << next, fd, dir, diskDir, parent, content, diskContent >>
    BY <1>1 DEF Start, Goto, Active, Working
  <2>2. /\ meetings'.renamer = meetings.renamer /\ meetings.met \subseteq meetings'.met
        /\ meetings'.met = IF others = {} THEN meetings.met
                           ELSE meetings.met \union others \union {w}
        /\ meetings' \in [met : SUBSET Writers, renamer : [Inodes -> Inodes]]
    BY <2>1 DEF WriterTypeOK
  <2>3. WriterTypeOK'
    BY <2>1, <2>2 DEF WriterTypeOK
  <2>4. Meetings'
    <3>1. ASSUME NEW u \in Writers, NEW v \in Writers, Active(u)', Active(v)', u # v
          PROVE  v \in meetings'.met
      <4>1. \A x \in Writers : x # w => (Active(x)' <=> Active(x))
        BY <2>1 DEF Active, WriterTypeOK
      <4>2. CASE u = w \/ v = w
        BY <2>2, <3>1, <4>1, <4>2
      <4>3. CASE u # w /\ v # w
        BY <2>2, <3>1, <4>1, <4>3 DEF Meetings, Met
      <4> QED
        BY <4>2, <4>3
    <3>2. ASSUME NEW v \in meetings'.met PROVE \E u \in Writers \ {v} : pc'[u] # "idle"
      <4>0. \A u \in Writers : pc[u] # "idle" => pc'[u] # "idle"
        BY <2>1 DEF WriterTypeOK
      <4>1. CASE v \in meetings.met
        BY <4>0, <4>1 DEF Meetings
      <4>2. CASE v \notin meetings.met /\ v = w
        <5>1. PICK u \in others : TRUE
          BY <2>2, <3>2, <4>2
        <5>2. u \in Writers \ {w} /\ pc[u] # "idle"
          BY <2>1, <5>1 DEF Active, Working
        <5> QED
          BY <4>0, <4>2, <5>2
      <4>3. CASE v \notin meetings.met /\ v # w
        BY <2>1, <4>3 DEF WriterTypeOK
      <4> QED
        BY <4>1, <4>2, <4>3
    <3> QED
      BY <3>1, <3>2 DEF Meetings, Met
  <2> HIDE DEF others
  <2>5. Fresh' /\ Apart'
    BY <2>1 DEF Fresh, Unopened, Apart, WriterTypeOK
  <2>6. WrittenSoFar'
    BY <2>1, <2>2 DEF WrittenSoFar, Met, WriterTypeOK
  <2>7. ClosedAtPath' /\ WholeAtPath'
    BY <2>1, <2>2 DEF ClosedAtPath, Closed, WholeAtPath, Sound
  <2>8. LastPublished' /\ NoTmpLeft'
    BY <2>1 DEF LastPublished, Alone, NoTmpLeft, WriterTypeOK
  <2> QED
    BY <2>3, <2>4, <2>5, <2>6, <2>7, <2>8
<1>2. CASE Prepare(w)
  <2>1. PICK to \in {"opening", "failed"} : pc' = [pc EXCEPT ![w] = to]
    BY <1>2 DEF Prepare, Goto
  <2>2. /\ pc[w] = "preparing" /\ next[w] = 1 /\ Active(w)
        /\ UNCHANGED << next, fd, dir, diskDir, content, diskContent, meetings >>
    BY <1>2 DEF Prepare, Goto, Fresh, Unopened, Active
  <2>3. WriterTypeOK'
    <3>1. parent' \in {"absent", "made", "stable"}
      BY <1>2 DEF Prepare, WriterTypeOK
    <3> QED
      BY <2>1, <2>2, <3>1 DEF WriterTypeOK, Working
  <2>4. Meetings'
    BY <2>1, <2>2, StaysMet
  <2>5. Fresh' /\ Apart' /\ WrittenSoFar' /\ ClosedAtPath' /\ WholeAtPath'
    BY <2>1, <2>2 DEF Fresh, Unopened, Apart, WrittenSoFar, Met, ClosedAtPath, Closed,
      WholeAtPath, Sound, WriterTypeOK
  <2>6. LastPublished'
    BY <2>1, <2>2 DEF LastPublished, Alone, WriterTypeOK
  <2>7. NoTmpLeft'
    BY <2>1, <2>2 DEF NoTmpLeft, WriterTypeOK
  <2> QED
    BY <2>3, <2>4, <2>5, <2>6, <2>7
<1>3. CASE OpenArchive(w)
  <2> DEFINE inode == IF dir.tmp = None THEN w ELSE dir.tmp
  <2>1. /\ pc[w] = "opening" /\ pc' = [pc EXCEPT ![w] = "writing"]
        /\ dir' = [dir EXCEPT !.tmp = inode] /\ fd' = [fd EXCEPT ![w] = inode]
        /\ content' = [content EXCEPT ![inode] = Hole]
        /\ UNCHANGED << next, diskDir, parent, diskContent, meetings >>
    BY <1>3 DEF OpenArchive, Goto
  <2>2. inode \in Inodes /\ inode # None /\ inode # dir.final /\ inode # diskDir.final
    BY <2>1 DEF WriterTypeOK, Fresh, Unopened, Apart
  <2>3. Active(w) /\ next[w] = 1
    BY <2>1 DEF Active, Working, Fresh, Unopened
  <2>4. \A v \in Writers : Unopened(v) /\ v # w => v # inode
    BY <2>1 DEF Fresh
  <2> HIDE DEF inode
  <2>5. WriterTypeOK'
    BY <2>1, <2>2 DEF WriterTypeOK, Working
  <2>6. Meetings'
    BY <2>1, <2>3, StaysMet
  <2>7. Fresh' /\ Apart'
    BY <2>1, <2>2, <2>4 DEF Fresh, Unopened, Apart, WriterTypeOK
  <2>8. WrittenSoFar'
    BY <1>a, <2>1, <2>2, <2>3 DEF WrittenSoFar, Met, WriterTypeOK
  <2>9. ClosedAtPath' /\ WholeAtPath'
    BY <2>1, <2>2 DEF ClosedAtPath, Closed, WholeAtPath, Sound, WriterTypeOK
  <2>10. LastPublished' /\ NoTmpLeft'
    BY <2>1 DEF LastPublished, Alone, NoTmpLeft, WriterTypeOK
  <2> QED
    BY <2>5, <2>6, <2>7, <2>8, <2>9, <2>10
<1>4. CASE WriteEntry(w)
  <2>1. /\ pc[w] = "writing" /\ fd[w] \in Inodes /\ next[w] \in 1 .. Entries
        /\ ~ Met(w) => fd[w] = dir.tmp /\ \A p \in 1 .. next[w] - 1 : PieceOf(content[fd[w]], p, w)
    BY <1>4 DEF WriteEntry, WrittenSoFar, WriterTypeOK
  <2>0. PICK sound \in BOOLEAN :
          /\ sound \/ next[w] \in Doubtful
          /\ content' = [content EXCEPT ![fd[w]][next[w]] = [by |-> w, sound |-> sound]]
    BY <1>4 DEF WriteEntry
  <2> DEFINE data == [by |-> w, sound |-> sound]
  <2>2. /\ content' = [content EXCEPT ![fd[w]][next[w]] = data]
        /\ next' = [next EXCEPT ![w] = @ + 1]
        /\ pc' = [pc EXCEPT ![w] = IF next[w] = Entries THEN "closing" ELSE "writing"]
        /\ UNCHANGED << fd, dir, diskDir, parent, diskContent, meetings >>
    BY <1>4, <2>0 DEF WriteEntry
  <2>d. data \in Data /\ data.by = w /\ (next[w] \notin Doubtful => data.sound)
    BY <2>0 DEF Data, Inodes
  <2> HIDE DEF data
  <2>3. Active(w) /\ next[w] \in Pieces
    BY <2>1 DEF Active, Working, Pieces
  <2>4. /\ content'[fd[w]] \in [Pieces -> Data]
        /\ content'[fd[w]][next[w]] = data
        /\ \A p \in Pieces : p # next[w] => content'[fd[w]][p] = content[fd[w]][p]
        /\ \A i \in Inodes : i # fd[w] => content'[i] = content[i]
    BY <2>1, <2>2, <2>3, <2>d DEF WriterTypeOK
  <2>5. WriterTypeOK'
    BY <2>1, <2>2, <2>3, <2>4 DEF WriterTypeOK, Working, Pieces
  <2>6. Meetings'
    <3>1. PICK to \in {"closing", "writing"} : pc' = [pc EXCEPT ![w] = to]
      BY <2>2
    <3> QED
      BY <2>2, <2>3, <3>1, StaysMet
  <2>7. Fresh' /\ Apart'
    BY <2>1, <2>2 DEF Fresh, Unopened, Apart, WriterTypeOK
  <2>8. ASSUME ~ Met(w) PROVE \A p \in 1 .. next[w] : PieceOf(content'[fd[w]], p, w)
    BY <2>1, <2>3, <2>4, <2>8, <2>d DEF Pieces, PieceOf
  <2>9. ~ Met(w) /\ next[w] = Entries => Complete(content'[fd[w]], w)
    BY <2>8 DEF Complete, Pieces
  <2>10. WrittenSoFar'
    <3>1. ASSUME NEW v \in Writers, v # w, ~ Met(v)
          PROVE  pc'[v] \notin {"writing", "closing", "syncing", "renaming"}
      BY <1>a, <2>2, <2>3, <3>1 DEF WriterTypeOK
    <3>0. \A v \in Writers : pc'[v] = "writing" => next'[v] <= Entries
      <4>1. ASSUME NEW v \in Writers, v # w PROVE pc'[v] = pc[v] /\ next'[v] = next[v]
        BY <2>2, <4>1 DEF WriterTypeOK
      <4>2. next'[w] = next[w] + 1 /\ (pc'[w] = "writing" => next[w] # Entries)
        BY <2>2 DEF WriterTypeOK
      <4>3. next[w] \in 1 .. Entries /\ Entries \in Nat
        BY <2>1
      <4>4. next[w] # Entries => next[w] + 1 <= Entries
        BY ONLY <4>3, SMT
      <4> QED
        BY <4>1, <4>2, <4>4 DEF WrittenSoFar
    <3>2. CASE Met(w)
      <4>1. ASSUME NEW v \in Writers, ~ Met(v)' PROVE v # w /\ ~ Met(v)
        BY <2>2, <3>2, <4>1 DEF Met
      <4> QED
        BY <3>0, <3>1, <4>1 DEF WrittenSoFar
    <3>3. CASE ~ Met(w) /\ next[w] = Entries
      BY <2>1, <2>2, <2>9, <3>1, <3>3 DEF WrittenSoFar, Met, WriterTypeOK
    <3>4. CASE ~ Met(w) /\ next[w] # Entries
      <4>1. /\ pc'[w] = "writing" /\ fd'[w] = fd[w] /\ dir' = dir
            /\ next'[w] = next[w] + 1 /\ next'[w] <= Entries
            /\ 1 .. next'[w] - 1 = 1 .. next[w]
        BY <2>1, <2>2, <3>4 DEF WriterTypeOK
      <4> QED
        BY <2>1, <2>2, <2>8, <3>1, <3>4, <4>1 DEF WrittenSoFar, Met
    <3> QED
      BY <3>2, <3>3, <3>4
  <2>11. ClosedAtPath' /\ WholeAtPath'
    BY <2>1, <2>2, <2>4 DEF ClosedAtPath, Closed, WholeAtPath, Sound, WriterTypeOK
  <2>12. LastPublished' /\ NoTmpLeft'
    BY <2>1, <2>2 DEF LastPublished, Alone, NoTmpLeft, WriterTypeOK
  <2> QED
    BY <2>5, <2>6, <2>7, <2>10, <2>11, <2>12
<1>5. CASE CloseArchive(w)
  <2>1. /\ pc[w] = "closing" /\ Active(w) /\ pc' = [pc EXCEPT ![w] = "syncing"]
        /\ fd' = [fd EXCEPT ![w] = None]
        /\ UNCHANGED << next, dir, diskDir, parent, content, diskContent, meetings >>
    BY <1>5 DEF CloseArchive, Goto, Active, Working
  <2>2. WriterTypeOK'
    BY <2>1 DEF WriterTypeOK, Working
  <2>3. Meetings'
    BY <2>1, StaysMet
  <2>4. Fresh' /\ Apart' /\ WrittenSoFar' /\ ClosedAtPath' /\ WholeAtPath'
    BY <2>1 DEF Fresh, Unopened, Apart, WrittenSoFar, Met, ClosedAtPath, Closed, WholeAtPath,
      Sound, WriterTypeOK
  <2>5. LastPublished' /\ NoTmpLeft'
    BY <2>1 DEF LastPublished, Alone, NoTmpLeft, WriterTypeOK
  <2> QED
    BY <2>2, <2>3, <2>4, <2>5
<1>6. CASE SyncTmp(w)
  <2>1. /\ pc[w] = "syncing" /\ Active(w) /\ pc' = [pc EXCEPT ![w] = "renaming"]
        /\ dir.tmp \in Inodes
        /\ diskContent' = [diskContent EXCEPT ![dir.tmp] = content[dir.tmp]]
        /\ UNCHANGED << next, fd, dir, diskDir, parent, content, meetings >>
    BY <1>6 DEF SyncTmp, Goto, WriterTypeOK, Active, Working
  <2>2. /\ dir.tmp # dir.final /\ dir.tmp # diskDir.final
        /\ ~ Met(w) => Complete(content[dir.tmp], w)
    BY <2>1 DEF Apart, WrittenSoFar
  <2>3. WriterTypeOK'
    BY <2>1 DEF WriterTypeOK, Working
  <2>4. Meetings'
    BY <2>1, StaysMet
  <2>5. Fresh' /\ Apart' /\ ClosedAtPath' /\ WholeAtPath'
    BY <2>1, <2>2 DEF Fresh, Unopened, Apart, ClosedAtPath, Closed, WholeAtPath, Sound,
      WriterTypeOK
  <2>6. WrittenSoFar'
    BY <1>a, <2>1, <2>2 DEF WrittenSoFar, Met, WriterTypeOK
  <2>7. LastPublished' /\ NoTmpLeft'
    BY <2>1 DEF LastPublished, Alone, NoTmpLeft, WriterTypeOK
  <2> QED
    BY <2>3, <2>4, <2>5, <2>6, <2>7
<1>7. CASE Rename(w)
  <2>1. /\ pc[w] = "renaming" /\ Active(w) /\ pc' = [pc EXCEPT ![w] = "syncingDir"]
        /\ dir.tmp \in Inodes /\ dir' = [tmp |-> None, final |-> dir.tmp]
        /\ meetings' = [meetings EXCEPT !.renamer[dir.tmp] = w]
        /\ UNCHANGED << next, fd, diskDir, parent, content, diskContent >>
    BY <1>7 DEF Rename, Goto, WriterTypeOK, Active, Working
  <2>2. /\ meetings'.met = meetings.met /\ meetings'.renamer[dir.tmp] = w
        /\ \A i \in Inodes : i # dir.tmp => meetings'.renamer[i] = meetings.renamer[i]
        /\ meetings' \in [met : SUBSET Writers, renamer : [Inodes -> Inodes]]
    BY <2>1 DEF WriterTypeOK
  <2>3. /\ ~ Met(w) => Complete(content[dir.tmp], w) /\ diskContent[dir.tmp] = content[dir.tmp]
        /\ ~ Met(w) => \A v \in Writers : fd[v] # dir.tmp
        /\ dir.tmp # diskDir.final /\ fd[w] = None
    BY <1>a, <2>1 DEF WrittenSoFar, Apart, WriterTypeOK
  <2>4. WriterTypeOK'
    <3>1. dir' \in [tmp : Inodes \union {None}, final : Inodes \union {None}]
      BY <2>1
    <3>2. \A v \in Writers : fd'[v] # None <=> pc'[v] \in {"writing", "closing"}
      BY <2>1 DEF WriterTypeOK
    <3> QED
      BY <2>1, <2>2, <3>1, <3>2 DEF WriterTypeOK, Working
  <2>5. Meetings'
    BY <2>1, <2>2, StaysMet
  <2>6. Fresh' /\ Apart'
    BY <2>1, <2>3 DEF Fresh, Unopened, Apart, WriterTypeOK
  <2>7. ClosedAtPath' /\ WholeAtPath'
    BY <2>1, <2>2, <2>3 DEF ClosedAtPath, Closed, WholeAtPath, Sound, Met, WriterTypeOK
  <2>8. WrittenSoFar'
    BY <1>a, <2>1, <2>2 DEF WrittenSoFar, Met, WriterTypeOK
  <2>9. LastPublished' /\ NoTmpLeft'
    BY <1>a, <2>1, <2>3 DEF LastPublished, Alone, NoTmpLeft, WriterTypeOK
  <2> QED
    BY <2>4, <2>5, <2>6, <2>7, <2>8, <2>9
<1>8. CASE SyncDir(w)
  <2>1. /\ pc[w] = "syncingDir" /\ Active(w)
        /\ UNCHANGED << next, fd, dir, parent, content, diskContent, meetings >>
    BY <1>8 DEF SyncDir, Goto, Active, Working
  <2>2. PICK to \in {"durable", "done"} :
          /\ pc' = [pc EXCEPT ![w] = to]
          /\ diskDir' = IF to = "durable" THEN dir ELSE diskDir
    BY <1>8 DEF SyncDir, Goto
  <2>3. WriterTypeOK'
    BY <2>1, <2>2 DEF WriterTypeOK, Working
  <2>4. Meetings'
    BY <2>1, <2>2, StaysMet
  <2>5. Fresh' /\ Apart' /\ ClosedAtPath' /\ WholeAtPath' /\ WrittenSoFar'
    BY <2>1, <2>2 DEF Fresh, Unopened, Apart, ClosedAtPath, Closed, WholeAtPath, Sound,
      WrittenSoFar, Met, WriterTypeOK
  <2>6. LastPublished' /\ NoTmpLeft'
    BY <2>1, <2>2 DEF LastPublished, Alone, NoTmpLeft, WriterTypeOK
  <2> QED
    BY <2>3, <2>4, <2>5, <2>6
<1>9. ASSUME NEW at \in Working \ {"syncingDir"}, Fails(w, at) PROVE WriterInv'
  <2>1. /\ pc[w] \in {"opening", "writing", "closing", "syncing", "renaming"} /\ Active(w)
        /\ pc' = [pc EXCEPT ![w] = "failed"]
        /\ fd' = [fd EXCEPT ![w] = None] /\ dir' = [dir EXCEPT !.tmp = None]
        /\ UNCHANGED << next, diskDir, parent, content, diskContent, meetings >>
    BY <1>9 DEF Fails, Goto, Working, Active
  <2>2. WriterTypeOK'
    BY <2>1 DEF WriterTypeOK, Working
  <2>3. Meetings'
    BY <2>1, StaysMet
  <2>4. Fresh' /\ Apart' /\ ClosedAtPath' /\ WholeAtPath'
    BY <2>1 DEF Fresh, Unopened, Apart, ClosedAtPath, Closed, WholeAtPath, Sound, WriterTypeOK
  <2>5. WrittenSoFar'
    BY <1>a, <2>1 DEF WrittenSoFar, Met, WriterTypeOK
  <2>6. LastPublished' /\ NoTmpLeft'
    BY <2>1 DEF LastPublished, Alone, NoTmpLeft, WriterTypeOK
  <2> QED
    BY <2>2, <2>3, <2>4, <2>5, <2>6
<1>10. CASE Killed(w)
  <2>1. /\ Active(w) /\ pc' = [pc EXCEPT ![w] = "killed"] /\ fd' = [fd EXCEPT ![w] = None]
        /\ UNCHANGED << next, dir, diskDir, parent, content, diskContent, meetings >>
    BY <1>10 DEF Killed
  <2>2. WriterTypeOK'
    BY <2>1 DEF WriterTypeOK, Working
  <2>3. Meetings'
    BY <2>1, StaysMet
  <2>4. Fresh' /\ Apart' /\ ClosedAtPath' /\ WholeAtPath' /\ WrittenSoFar'
    BY <2>1 DEF Fresh, Unopened, Apart, ClosedAtPath, Closed, WholeAtPath, Sound,
      WrittenSoFar, Met, WriterTypeOK
  <2>5. LastPublished' /\ NoTmpLeft'
    BY <2>1 DEF LastPublished, Alone, NoTmpLeft, WriterTypeOK, Active, Working
  <2> QED
    BY <2>2, <2>3, <2>4, <2>5
<1> QED
  BY <1>1, <1>2, <1>3, <1>4, <1>5, <1>6, <1>7, <1>8, <1>9, <1>10

(* The kernel's writeback and a power loss. *)
LEMMA DiskInv == WriterInv /\ (Writeback \/ PowerLoss) => WriterInv'
<1> SUFFICES ASSUME WriterInv, Writeback \/ PowerLoss PROVE WriterInv'
  OBVIOUS
<1> USE Constants
<1> USE DEF WriterInv
<1>1. CASE Writeback
  <2>0. diskDir' = dir \/ diskDir' = diskDir
    BY <1>1 DEF Writeback
  <2>1. WriterTypeOK' /\ Meetings'
    BY <1>1, <2>0 DEF Writeback, WriterTypeOK, Meetings, Met, Active
  <2>2. Fresh' /\ Apart' /\ ClosedAtPath' /\ WholeAtPath' /\ WrittenSoFar'
    BY <1>1 DEF Writeback, Fresh, Unopened, Apart, ClosedAtPath, Closed, WholeAtPath, Sound,
      WrittenSoFar, Met
  <2>3. LastPublished' /\ NoTmpLeft'
    BY <1>1 DEF Writeback, LastPublished, Alone, NoTmpLeft
  <2> QED
    BY <2>1, <2>2, <2>3
<1>2. CASE PowerLoss
  <2>1. PICK lost \in SUBSET Inodes :
          content' = [i \in Inodes |-> IF i \in lost THEN diskContent[i] ELSE content[i]]
    BY <1>2 DEF PowerLoss
  <2>2. /\ pc' = [w \in Writers |-> IF pc[w] = "idle" THEN "idle" ELSE "killed"]
        /\ fd' = [w \in Writers |-> None] /\ dir' = diskDir' /\ diskContent' = content'
        /\ diskDir' = diskDir \/ diskDir' = [tmp |-> None, final |-> None]
        /\ parent' = IF parent = "made" THEN "absent" ELSE parent
        /\ UNCHANGED << next, meetings >>
    BY <1>2 DEF PowerLoss
  <2>3. WriterTypeOK' /\ Meetings'
    BY <2>1, <2>2 DEF WriterTypeOK, Meetings, Met, Active, Working
  <2>4. Fresh' /\ Apart' /\ WrittenSoFar'
    BY <2>2 DEF Fresh, Unopened, Apart, WrittenSoFar, Met, WriterTypeOK
  <2>5. ClosedAtPath' /\ WholeAtPath'
    BY <2>1, <2>2 DEF ClosedAtPath, Closed, WholeAtPath, Sound, WriterTypeOK
  <2>6. LastPublished' /\ NoTmpLeft'
    BY <2>2 DEF LastPublished, Alone, NoTmpLeft, WriterTypeOK
  <2> QED
    BY <2>3, <2>4, <2>5, <2>6
<1> QED
  BY <1>1, <1>2

(* Every step keeps it. *)
LEMMA WriterNextInv == WriterInv /\ [WriterNext]_writerVars => WriterInv'
<1> SUFFICES ASSUME WriterInv, [WriterNext]_writerVars PROVE WriterInv'
  OBVIOUS
<1>1. CASE UNCHANGED writerVars
  BY <1>1 DEF writerVars, WriterInv, WriterTypeOK, Meetings, Met, Active, Fresh, Unopened,
    Apart, WrittenSoFar, ClosedAtPath, Closed, WholeAtPath, Sound, LastPublished, Alone,
    NoTmpLeft
<1> QED
  BY <1>1, WriterStepInv, DiskInv DEF WriterNext

(* Every reachable state, whether or not captures overlap. *)
THEOREM WriterInvariant == WriterSpec => []WriterInv
  BY WriterInitInv, WriterNextInv, PTL DEF WriterSpec

(* A run that met no other has put all the pieces of its own bundle, on    *)
(* disk and those written from memory sound, at the path it renamed it to, *)
(* whatever those before it left behind and however many share the .tmp    *)
(* (writer.cpp:150, :222); of what it copied from scratch files a failed   *)
(* read may have made zeros (writer.cpp:100).                              *)
THEOREM LoneRunsPublish == WriterSpec => []LoneRunsPublishWhole
<1>1. WriterInv => LoneRunsPublishWhole
  BY DEF WriterInv, WholeAtPath, Sound, LoneRunsPublishWhole
<1> QED
  BY <1>1, WriterInvariant, PTL

(* A run whose directory sync succeeded has its bundle in the directory on *)
(* disk (writer.cpp fsyncs file, then directory), and no <path>.tmp is     *)
(* left by a run that ended, whatever failed.                              *)
THEOREM LoneRunsEndClean == WriterSpec => []LoneRunEndsClean
<1>1. WriterInv => LoneRunEndsClean
  BY DEF WriterInv, LastPublished, Alone, DurableWhenDone, LoneRunEndsClean
<1> QED
  BY <1>1, WriterInvariant, PTL

-----------------------------------------------------------------------------
(* From here on captures follow each other.                                *)
(* What a reader finds in a complete file, and in no file. *)
LEMMA BundleIs ==
  /\ \A data : Bundle(None, data) = None
  /\ \A data : \A inode, b \in Inodes : Complete(data[inode], b) => Bundle(inode, data) \in Bundles
<1> USE Constants
<1>1. \A data : Bundle(None, data) = None
  BY DEF Bundle
<1>2. ASSUME NEW inode \in Inodes, NEW b \in Inodes, NEW data, Complete(data[inode], b)
      PROVE  Bundle(inode, data) \in Bundles
  <2> DEFINE by == CHOOSE run \in Inodes : Complete(data[inode], run)
             flaws == { piece \in Pieces : ~ data[inode][piece].sound }
  <2>1. by \in Inodes
    BY <1>2
  <2>2. flaws \subseteq Doubtful
    BY <1>2 DEF Complete, PieceOf
  <2>3. inode # None
    OBVIOUS
  <2>4. Bundle(inode, data) = [by |-> by, flaws |-> flaws]
    BY <1>2, <2>3 DEF Bundle
  <2> HIDE DEF by, flaws
  <2> QED
    BY <2>1, <2>2, <2>4 DEF Bundles
<1> QED
  BY <1>1, <1>2

Published == Bundle(dir.final, content)
Durable == Bundle(diskDir.final, diskContent)
Rooted == parent = "stable"

(* As long as no run has met another, what a reader finds is None or a     *)
(* bundle, and is on disk.                                                 *)
LEMMA PathHolds ==
  ASSUME meetings.met = {}, WriterInv
  PROVE  /\ Published \in Bundles \union {None} /\ Durable \in Bundles \union {None}
         /\ Published = Bundle(dir.final, diskContent)
<1>1. /\ dir.final \in Inodes \union {None} /\ diskDir.final \in Inodes \union {None}
      /\ Sound(dir.final) /\ Sound(diskDir.final)
      /\ meetings.met = {} /\ meetings.renamer \in [Inodes -> Inodes]
  BY DEF WriterInv, WriterTypeOK, WholeAtPath
<1> QED
  <2>1. ASSUME NEW inode \in Inodes, Sound(inode)
        PROVE  /\ Bundle(inode, content) \in Bundles
               /\ Bundle(inode, diskContent) = Bundle(inode, content)
    <3>1. /\ Complete(content[inode], meetings.renamer[inode])
          /\ diskContent[inode] = content[inode] /\ meetings.renamer[inode] \in Inodes
      BY <1>1, <2>1, Constants DEF Sound
    <3>2. Bundle(inode, content) \in Bundles
      BY <3>1, BundleIs
    <3>3. Bundle(inode, diskContent) = Bundle(inode, content)
      BY <3>1 DEF Bundle
    <3> QED
      BY <3>2, <3>3
  <2> QED
    BY <1>1, <2>1, BundleIs DEF Published, Durable

(* Runs that have met stay so. *)
LEMMA MeetingsStay ==
  ASSUME WriterTypeOK, [WriterNext]_writerVars
  PROVE  meetings.met \subseteq meetings'.met
<1>1. ASSUME NEW w \in Writers, Start(w) PROVE meetings.met \subseteq meetings'.met
  BY <1>1 DEF Start, WriterTypeOK
<1>2. ASSUME NEW w \in Writers, Rename(w) PROVE meetings'.met = meetings.met
  BY <1>2 DEF Rename, WriterTypeOK
<1> QED
  BY <1>1, <1>2 DEF WriterNext, writerVars, Prepare, OpenArchive, WriteEntry, CloseArchive,
    SyncTmp, SyncDir, Fails, Killed, Writeback, PowerLoss

(* Renaming publishes, what reaches the directory on disk persists, a      *)
(* power loss brings back what was on disk, and no other step shows.       *)
LEMMA StepRefines ==
  ASSUME WriterInv, [WriterNext]_writerVars, meetings'.met = {}
  PROVE  [Publication!PublishNext]_<< Published, Durable, Rooted >>
<1> USE Constants
<1> DEFINE Same == Rooted' = Rooted
           Shows == \/ \E bundle \in Bundles : Published' = bundle /\ Durable' = Durable /\ Same
                    \/ Durable' = Published /\ Published' = Published /\ Same
                    \/ /\ Durable' = IF Rooted THEN Durable ELSE None
                       /\ Published' = Durable' /\ Same
                    \/ Published' = Published /\ Durable' = Durable /\ Rooted'
                    \/ Published' = Published /\ Durable' = Durable /\ Same
<1>1. /\ WriterTypeOK /\ Apart /\ WrittenSoFar /\ WholeAtPath
      /\ meetings.met = {} /\ \A w \in Writers : ~ Met(w)
  BY MeetingsStay DEF WriterInv, Met
<1>2. ASSUME UNCHANGED << dir, diskDir, content, diskContent >>, Same \/ Rooted' PROVE Shows
  BY <1>2 DEF Published, Durable
<1>3. ASSUME NEW w \in Writers, OpenArchive(w) \/ WriteEntry(w) PROVE Shows
  <2>1. PICK inode : /\ inode # dir.final /\ inode # diskDir.final
                     /\ \A i \in Inodes : i # inode => content'[i] = content[i]
    <3>1. CASE OpenArchive(w)
      <4>1. w # dir.final /\ w # diskDir.final
        BY <3>1 DEF OpenArchive, Goto, WriterInv, Fresh, Unopened
      <4> QED
        BY <1>1, <3>1, <4>1 DEF OpenArchive, WriterTypeOK, Apart
    <3>2. CASE WriteEntry(w)
      <4>1. fd[w] = dir.tmp /\ dir.tmp # None
        BY <1>1, <3>2 DEF WriteEntry, WrittenSoFar, WriterTypeOK
      <4>2. PICK data : content' = [content EXCEPT ![fd[w]][next[w]] = data]
        BY <3>2 DEF WriteEntry
      <4>3. content' = [content EXCEPT ![fd[w]] = [content[fd[w]] EXCEPT ![next[w]] = data]]
        BY <4>2
      <4>4. \A i \in Inodes : i # fd[w] => content'[i] = content[i]
        BY <1>1, <4>3 DEF WriterTypeOK
      <4>5. fd[w] # dir.final /\ fd[w] # diskDir.final
        BY <1>1, <4>1 DEF Apart
      <4> QED
        BY <4>4, <4>5
    <3> QED
      BY <1>3, <3>1, <3>2
  <2>2. dir'.final = dir.final /\ diskDir' = diskDir /\ diskContent' = diskContent /\ Same
    BY <1>1, <1>3 DEF OpenArchive, WriteEntry, WriterTypeOK, Rooted
  <2>3. dir.final = None \/ content'[dir.final] = content[dir.final]
    BY <1>1, <2>1 DEF WriterTypeOK
  <2> QED
    BY <2>2, <2>3 DEF Published, Durable, Bundle
<1>4. ASSUME NEW w \in Writers, SyncTmp(w) PROVE Shows
  <2>1. /\ UNCHANGED << dir, diskDir, content >> /\ Same
        /\ diskDir.final = None \/ diskContent'[diskDir.final] = diskContent[diskDir.final]
    BY <1>1, <1>4 DEF SyncTmp, Apart, WriterTypeOK, Rooted
  <2> QED
    BY <2>1 DEF Published, Durable, Bundle
<1>5. ASSUME NEW w \in Writers, Rename(w) PROVE Shows
  <2>1. /\ dir.tmp \in Inodes /\ Complete(content[dir.tmp], w)
        /\ dir'.final = dir.tmp /\ UNCHANGED << diskDir, content, diskContent >> /\ Same
    BY <1>1, <1>5 DEF Rename, Goto, WrittenSoFar, WriterTypeOK, Rooted
  <2>2. Published' \in Bundles
    BY <2>1, BundleIs DEF Published
  <2> QED
    BY <2>1, <2>2 DEF Durable
<1>6. ASSUME diskDir' = dir, UNCHANGED << dir, content, diskContent >>, Same PROVE Shows
  BY <1>1, <1>6, PathHolds DEF Published, Durable
<1>7. ASSUME NEW w \in Writers, SyncDir(w) PROVE Shows
  <2>1. CASE diskDir' = dir
    BY <1>6, <1>7, <2>1 DEF SyncDir, Rooted
  <2>2. CASE UNCHANGED diskDir
    BY <1>2, <1>7, <2>2 DEF SyncDir, Rooted
  <2> QED
    BY <1>7, <2>1, <2>2 DEF SyncDir
<1>8. ASSUME NEW w \in Writers, NEW at, Fails(w, at) PROVE Shows
  <2>1. dir'.final = dir.final /\ UNCHANGED << diskDir, content, diskContent >> /\ Same
    BY <1>1, <1>8 DEF Fails, WriterTypeOK, Rooted
  <2> QED
    BY <2>1 DEF Published, Durable
<1>9. ASSUME PowerLoss PROVE Shows
  <2>1. PICK lost \in SUBSET Inodes :
          content' = [i \in Inodes |-> IF i \in lost THEN diskContent[i] ELSE content[i]]
    BY <1>9 DEF PowerLoss
  <2>2. /\ dir' = diskDir' /\ diskContent' = content'
        /\ diskDir' = IF Rooted THEN diskDir ELSE [tmp |-> None, final |-> None]
        /\ Same
    BY <1>9 DEF PowerLoss, Rooted
  <2>3. diskDir.final = None \/ content'[diskDir.final] = diskContent[diskDir.final]
    BY <1>1, <2>1 DEF WholeAtPath, Sound, WriterTypeOK
  <2>4. Published' = Durable'
    BY <2>2 DEF Published, Durable
  <2>5. Durable' = IF Rooted THEN Durable ELSE None
    BY <2>2, <2>3 DEF Durable, Bundle
  <2> QED
    BY <2>2, <2>4, <2>5
<1>10. Shows
  <2>1. ASSUME NEW w \in Writers, Start(w) \/ Prepare(w) \/ CloseArchive(w) \/ Killed(w)
        PROVE  UNCHANGED << dir, diskDir, content, diskContent >> /\ Same
    BY <2>1 DEF Start, Prepare, CloseArchive, Killed, Rooted
  <2>2. Writeback => /\ UNCHANGED << dir, content, diskContent >>
                     /\ \/ diskDir' = dir /\ Same
                        \/ diskDir' = diskDir /\ Rooted'
    BY DEF Writeback, Rooted
  <2>3. UNCHANGED writerVars => UNCHANGED << dir, diskDir, content, diskContent >> /\ Same
    BY DEF writerVars, Rooted
  <2> HIDE DEF Shows
  <2>4. ASSUME NEW w \in Writers,
               \/ Start(w) \/ Prepare(w)
               \/ OpenArchive(w) \/ WriteEntry(w) \/ CloseArchive(w)
               \/ SyncTmp(w) \/ Rename(w) \/ SyncDir(w)
               \/ \E at \in Working \ {"syncingDir"} : Fails(w, at)
               \/ Killed(w)
        PROVE  Shows
    BY <1>2, <1>3, <1>4, <1>5, <1>7, <1>8, <2>1, <2>4
  <2>5. CASE Writeback \/ UNCHANGED writerVars
    BY <1>2, <1>6, <2>2, <2>3, <2>5
  <2> QED
    BY <1>9, <2>4, <2>5 DEF WriterNext
<1> QED
  <2>1. Rooted \in BOOLEAN /\ Rooted' \in BOOLEAN
    BY DEF Rooted
  <2> QED
    BY <1>10, <2>1
    DEF Publication!PublishNext, Publication!Publish, Publication!Persist, Publication!Root,
        Publication!PowerLoss, Published, Durable, Rooted

(* Captures to one path that follow each other publish atomically: under   *)
(* any failure, kill or power loss a reader finds the bundle that was      *)
(* there or all of one run's (writer.cpp writes .tmp, syncs, renames), or  *)
(* nothing when a directory made for it was lost; its pieces are what they *)
(* should be but for those a read error can spoil in silence.              *)
THEOREM AtomicPublication == WriterSpec => PublishesAtomically
<1>1. WriterInit => Publication!PublishInit
  <2> SUFFICES ASSUME WriterInit PROVE Publication!PublishInit
    OBVIOUS
  <2>1. WriterInv /\ diskDir = dir /\ diskContent = content /\ meetings.met = {}
    BY WriterInitInv DEF WriterInit
  <2>2. ~ Rooted => dir.final = None
    BY DEF WriterInit, Rooted
  <2>3. Rooted \in BOOLEAN
    BY DEF Rooted
  <2> QED
    BY <2>1, <2>2, <2>3, PathHolds, BundleIs DEF Publication!PublishInit, Published, Durable, Rooted
<1>2. WriterInv /\ [WriterNext]_writerVars
        => [meetings'.met = {} => Publication!PublishNext]_<< Published, Durable, Rooted >>
  BY StepRefines
<1>3. WriterInv /\ [WriterNext]_writerVars
        => [meetings.met' = {} => Publication!PublishNext]_<< Bundle(dir.final, content),
                                                             Bundle(diskDir.final, diskContent),
                                                             parent = "stable" >>
  BY <1>2 DEF Published, Durable, Rooted
<1> QED
  BY <1>1, <1>3, WriterInvariant, PTL DEF WriterSpec, PublishesAtomically
==============================================================================
