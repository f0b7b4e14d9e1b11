-------------------------- MODULE SigningKey_proofs --------------------------
(***************************************************************************)
(* Proofs about SigningKey, for any number of captures of one user.        *)
(***************************************************************************)
EXTENDS SigningKey, TLAPS

Booleans == stored \in BOOLEAN /\ killed \in BOOLEAN /\ powerLost \in BOOLEAN

Types ==
  /\ dirs \in 0 .. KeyDirs
  /\ keyFile \in Captures \union {None}
  /\ content \in [Captures -> {"none", "empty", "part", "whole"}]
  /\ pc \in [Captures -> Steps]
  /\ level \in [Captures -> 1 .. KeyDirs]
  /\ held \in [Captures -> Captures \union {None}]
  /\ key \in [Captures -> Captures \union {None}]
  /\ signer \in [Captures -> Captures \union {None}]
  /\ failed \subseteq Captures /\ settled \subseteq Captures

(* Whoever is between creating and finishing the file has the file at the  *)
(* path, and nobody can use it yet; whoever is about to remove it failed.  *)
WriterOwnsFile ==
  \A c \in Captures :
    /\ pc[c] \in {"write", "unlink"} => keyFile = c /\ content[c] # "whole"
    /\ pc[c] = "unlink" => c \in failed
    /\ pc[c] = "read" => held[c] # None

(* While nothing has failed, a key that was read, signed with or taken to  *)
(* be signed with has a file.                                              *)
CleanMeansStored ==
  ~ killed /\ failed = {} =>
    \A c \in Captures :
      held[c] # None \/ signer[c] # None \/ (key[c] # None /\ pc[c] # "create")
        => keyFile # None

(* A capture that began with the key settled never leaves the fast path.   *)
OnFastPath(c) ==
  /\ keyFile # None /\ content[keyFile] = "whole"
  /\ pc[c] \in {"load", "read", "sign", "done", "killed"}
  /\ pc[c] = "read" => held[c] = keyFile
  /\ pc[c] = "sign" => key[c] = keyFile
  /\ pc[c] = "done" => signer[c] = keyFile

SettledOnFastPath == ~ powerLost => \A c \in settled \ failed : OnFastPath(c)

Facts == Types /\ WriterOwnsFile /\ UnusableFileExplained
Inv == Booleans /\ Facts /\ CleanMeansStored /\ SettledOnFastPath

-----------------------------------------------------------------------------
LEMMA InitInv == Init => Inv
<1> SUFFICES ASSUME Init PROVE Inv
  OBVIOUS
<1> USE SigningAssumption DEF Init
<1>1. Booleans
  BY DEF Booleans
<1>2. Facts
  BY DEF Facts, Types, WriterOwnsFile, UnusableFileExplained, Steps
<1>3. CleanMeansStored /\ SettledOnFastPath
  BY DEF CleanMeansStored, SettledOnFastPath
<1> QED
  BY <1>1, <1>2, <1>3 DEF Inv

LEMMA BooleansKept == ASSUME Booleans, [Next]_vars PROVE Booleans'
<1> USE DEF Booleans, disk, capture, history, OwnFailure, GivesUp
<1>1. CASE UNCHANGED vars
  BY <1>1 DEF vars
<1>2. ASSUME NEW c \in Captures, LoadOrGenerate(c) PROVE Booleans'
  BY <1>2, Zenon DEF LoadOrGenerate, Begin, HomeUnset, OpenKeyFile, ReadKeyFile, ReadFails,
    StatDir,
    MakeDir,
    DirExistsAlready, MakeDirFails, Generate, GenerateFails, Create, LosesRace, CreateFails,
    WriteKey, WriteShort, Unlink, Sign
<1>3. ASSUME NEW c \in Captures, Killed(c) PROVE Booleans'
  BY <1>3 DEF Killed
<1>4. CASE Writeback
  BY <1>4 DEF Writeback
<1>5. CASE PowerLoss
  BY <1>5 DEF PowerLoss
<1> QED
  BY <1>1, <1>2, <1>3, <1>4, <1>5 DEF Next
(* What the steps of one capture keep.                                     *)
LEMMA FactsKept ==
  ASSUME Facts, [Next]_vars PROVE Facts'
<1> USE SigningAssumption DEF Facts, Types, WriterOwnsFile, UnusableFileExplained, disk, capture, history, GoesTo, GivesUp, OwnFailure, AtWork, Steps
<1>1. CASE UNCHANGED vars
  BY <1>1 DEF vars, disk, capture, history
<1>2. ASSUME NEW c \in Captures, LoadOrGenerate(c) PROVE Facts'
  <2>1. CASE Begin(c)
    BY <1>2, <2>1 DEF Begin, Settled
  <2>2. CASE HomeUnset(c)
    BY <1>2, <2>2 DEF HomeUnset
  <2>3. CASE OpenKeyFile(c)
    BY <1>2, <2>3 DEF OpenKeyFile
  <2>4. CASE ReadKeyFile(c)
    BY <1>2, <2>4 DEF ReadKeyFile
  <2>18. CASE ReadFails(c)
    BY <1>2, <2>18 DEF ReadFails
  <2>5. CASE StatDir(c)
    BY <1>2, <2>5 DEF StatDir, NextDir
  <2>6. CASE MakeDir(c)
    BY <1>2, <2>6 DEF MakeDir, NextDir
  <2>7. CASE DirExistsAlready(c)
    BY <1>2, <2>7 DEF DirExistsAlready
  <2>8. CASE MakeDirFails(c)
    BY <1>2, <2>8 DEF MakeDirFails
  <2>9. CASE Generate(c)
    BY <1>2, <2>9 DEF Generate
  <2>10. CASE GenerateFails(c)
    BY <1>2, <2>10 DEF GenerateFails
  <2>11. CASE Create(c)
    BY <1>2, <2>11 DEF Create
  <2>12. CASE LosesRace(c)
    BY <1>2, <2>12 DEF LosesRace
  <2>13. CASE CreateFails(c)
    BY <1>2, <2>13 DEF CreateFails
  <2>14. CASE WriteKey(c)
    BY <1>2, <2>14 DEF WriteKey
  <2>15. CASE WriteShort(c)
    BY <1>2, <2>15 DEF WriteShort
  <2>16. CASE Unlink(c)
    BY <1>2, <2>16 DEF Unlink
  <2>17. CASE Sign(c)
    BY <1>2, <2>17 DEF Sign
  <2> QED
    BY <1>2, <2>1, <2>2, <2>3, <2>4, <2>5, <2>6, <2>7, <2>8, <2>9, <2>10, <2>11, <2>12,
      <2>13, <2>14, <2>15, <2>16, <2>17, <2>18 DEF LoadOrGenerate
<1>3. ASSUME NEW c \in Captures, Killed(c) PROVE Facts'
  BY <1>3 DEF Killed
<1>4. CASE Writeback
  BY <1>4 DEF Writeback
<1>5. CASE PowerLoss
  BY <1>5 DEF PowerLoss
<1> QED
  BY <1>1, <1>2, <1>3, <1>4, <1>5 DEF Next

LEMMA StoredKept ==
  ASSUME Facts, CleanMeansStored, [Next]_vars PROVE CleanMeansStored'
<1> USE SigningAssumption DEF Facts, Types, WriterOwnsFile, CleanMeansStored, disk, capture, history, GoesTo, GivesUp, OwnFailure, AtWork, Steps
<1>1. CASE UNCHANGED vars
  BY <1>1 DEF vars, disk, capture, history
<1>2. ASSUME NEW c \in Captures, LoadOrGenerate(c) PROVE CleanMeansStored'
  <2>1. CASE Begin(c)
    BY <1>2, <2>1 DEF Begin, Settled
  <2>2. CASE HomeUnset(c)
    BY <1>2, <2>2 DEF HomeUnset
  <2>3. CASE OpenKeyFile(c)
    BY <1>2, <2>3 DEF OpenKeyFile
  <2>4. CASE ReadKeyFile(c)
    BY <1>2, <2>4 DEF ReadKeyFile
  <2>18. CASE ReadFails(c)
    BY <1>2, <2>18 DEF ReadFails
  <2>5. CASE StatDir(c)
    BY <1>2, <2>5 DEF StatDir, NextDir
  <2>6. CASE MakeDir(c)
    BY <1>2, <2>6 DEF MakeDir, NextDir
  <2>7. CASE DirExistsAlready(c)
    BY <1>2, <2>7 DEF DirExistsAlready
  <2>8. CASE MakeDirFails(c)
    BY <1>2, <2>8 DEF MakeDirFails
  <2>9. CASE Generate(c)
    BY <1>2, <2>9 DEF Generate
  <2>10. CASE GenerateFails(c)
    BY <1>2, <2>10 DEF GenerateFails
  <2>11. CASE Create(c)
    BY <1>2, <2>11 DEF Create
  <2>12. CASE LosesRace(c)
    BY <1>2, <2>12 DEF LosesRace
  <2>13. CASE CreateFails(c)
    BY <1>2, <2>13 DEF CreateFails
  <2>14. CASE WriteKey(c)
    BY <1>2, <2>14 DEF WriteKey
  <2>15. CASE WriteShort(c)
    BY <1>2, <2>15 DEF WriteShort
  <2>16. CASE Unlink(c)
    BY <1>2, <2>16 DEF Unlink
  <2>17. CASE Sign(c)
    BY <1>2, <2>17 DEF Sign
  <2> QED
    BY <1>2, <2>1, <2>2, <2>3, <2>4, <2>5, <2>6, <2>7, <2>8, <2>9, <2>10, <2>11, <2>12,
      <2>13, <2>14, <2>15, <2>16, <2>17, <2>18 DEF LoadOrGenerate
<1>3. ASSUME NEW c \in Captures, Killed(c) PROVE CleanMeansStored'
  BY <1>3 DEF Killed
<1>4. CASE Writeback
  BY <1>4 DEF Writeback
<1>5. CASE PowerLoss
  BY <1>5 DEF PowerLoss
<1> QED
  BY <1>1, <1>2, <1>3, <1>4, <1>5 DEF Next

LEMMA FastPathKept ==
  ASSUME Facts, CleanMeansStored, SettledOnFastPath, [Next]_vars PROVE SettledOnFastPath'
<1> USE SigningAssumption DEF Facts, Types, WriterOwnsFile, UnusableFileExplained, CleanMeansStored, SettledOnFastPath, OnFastPath, disk, capture, history, GoesTo, GivesUp, OwnFailure, AtWork, Steps
<1>1. CASE UNCHANGED vars
  BY <1>1 DEF vars, disk, capture, history
<1>2. ASSUME NEW c \in Captures, LoadOrGenerate(c) PROVE SettledOnFastPath'
  <2>1. CASE Begin(c)
    BY <1>2, <2>1 DEF Begin, Settled
  <2>2. CASE HomeUnset(c)
    BY <1>2, <2>2 DEF HomeUnset
  <2>3. CASE OpenKeyFile(c)
    BY <1>2, <2>3 DEF OpenKeyFile
  <2>4. CASE ReadKeyFile(c)
    BY <1>2, <2>4 DEF ReadKeyFile
  <2>18. CASE ReadFails(c)
    BY <1>2, <2>18 DEF ReadFails
  <2>5. CASE StatDir(c)
    BY <1>2, <2>5 DEF StatDir, NextDir
  <2>6. CASE MakeDir(c)
    BY <1>2, <2>6 DEF MakeDir, NextDir
  <2>7. CASE DirExistsAlready(c)
    BY <1>2, <2>7 DEF DirExistsAlready
  <2>8. CASE MakeDirFails(c)
    BY <1>2, <2>8 DEF MakeDirFails
  <2>9. CASE Generate(c)
    BY <1>2, <2>9 DEF Generate
  <2>10. CASE GenerateFails(c)
    BY <1>2, <2>10 DEF GenerateFails
  <2>11. CASE Create(c)
    BY <1>2, <2>11 DEF Create
  <2>12. CASE LosesRace(c)
    BY <1>2, <2>12 DEF LosesRace
  <2>13. CASE CreateFails(c)
    BY <1>2, <2>13 DEF CreateFails
  <2>14. CASE WriteKey(c)
    BY <1>2, <2>14 DEF WriteKey
  <2>15. CASE WriteShort(c)
    BY <1>2, <2>15 DEF WriteShort
  <2>16. CASE Unlink(c)
    BY <1>2, <2>16 DEF Unlink
  <2>17. CASE Sign(c)
    BY <1>2, <2>17 DEF Sign
  <2> QED
    BY <1>2, <2>1, <2>2, <2>3, <2>4, <2>5, <2>6, <2>7, <2>8, <2>9, <2>10, <2>11, <2>12,
      <2>13, <2>14, <2>15, <2>16, <2>17, <2>18 DEF LoadOrGenerate
<1>3. ASSUME NEW c \in Captures, Killed(c) PROVE SettledOnFastPath'
  BY <1>3 DEF Killed
<1>4. CASE Writeback
  BY <1>4 DEF Writeback
<1>5. CASE PowerLoss
  BY <1>5 DEF PowerLoss
<1> QED
  BY <1>1, <1>2, <1>3, <1>4, <1>5 DEF Next

-----------------------------------------------------------------------------
(* The invariant holds of every capture, whatever the others do and        *)
(* whatever fails; the theorems below follow from it.                      *)
THEOREM Invariance == Spec => []Inv
<1>1. Inv /\ [Next]_vars => Inv'
  BY BooleansKept, FactsKept, StoredKept, FastPathKept DEF Inv
<1> QED
  BY InitInv, <1>1, PTL DEF Spec

(* Every variable keeps its type; directories are made in order.           *)
THEOREM TypeCorrect == Spec => []TypeOK
<1>1. Inv => TypeOK
  BY DEF Inv, Facts, Types, Booleans, TypeOK
<1> QED
  BY Invariance, <1>1, PTL

(* A key file that no capture can use is being written, or a kill or a     *)
(* loss of power left it (generate_and_save_key).                          *)
THEOREM UnusableFilesAreExplained == Spec => []UnusableFileExplained
<1>1. Inv => UnusableFileExplained
  BY DEF Inv, Facts
<1> QED
  BY Invariance, <1>1, PTL

(* A capture that begins with the key settled signs with the stored key,   *)
(* whoever runs beside it (load_or_generate_signing_key).                  *)
THEOREM SettledKeyIsAlwaysUsed == Spec => []SettledKeyIsUsed
<1>1. Inv => SettledKeyIsUsed
  BY DEF Inv, SettledOnFastPath, OnFastPath, SettledKeyIsUsed
<1> QED
  BY Invariance, <1>1, PTL

(* No step of any capture replaces, truncates or removes a whole key file. *)
THEOREM StoredKeyAlwaysStays == Spec => StoredKeyStays
<1> DEFINE Stays == keyFile' = keyFile /\ content'[keyFile] = "whole"
           Held == keyFile # None /\ content[keyFile] = "whole"
<1>1. ASSUME Inv, [Next]_vars, Held PROVE Stays \/ (PowerLoss /\ ~ stored)
  <2> USE SigningAssumption DEF Inv, Facts, Types, WriterOwnsFile, disk, capture, history
  <2>1. CASE UNCHANGED vars
    BY <1>1, <2>1 DEF vars
  <2>2. ASSUME NEW c \in Captures, LoadOrGenerate(c) PROVE Stays
    <3>1. CASE Create(c) \/ CreateFails(c) \/ LosesRace(c)
      BY <1>1, <3>1 DEF Create, CreateFails, LosesRace
    <3>2. CASE WriteKey(c) \/ WriteShort(c) \/ Unlink(c)
      BY <1>1, <3>2 DEF WriteKey, WriteShort, Unlink
    <3>3. CASE \/ Begin(c) \/ HomeUnset(c) \/ OpenKeyFile(c) \/ ReadKeyFile(c) \/ ReadFails(c)
               \/ StatDir(c) \/ MakeDir(c) \/ DirExistsAlready(c) \/ MakeDirFails(c)
               \/ Generate(c) \/ GenerateFails(c) \/ Sign(c)
      BY <1>1, <3>3 DEF Begin, HomeUnset, OpenKeyFile, ReadKeyFile, ReadFails, StatDir, MakeDir,
        DirExistsAlready, MakeDirFails, Generate, GenerateFails, Sign, GivesUp
    <3> QED
      BY <2>2, <3>1, <3>2, <3>3 DEF LoadOrGenerate
  <2>3. ASSUME NEW c \in Captures, Killed(c) PROVE Stays
    BY <1>1, <2>3 DEF Killed
  <2>4. CASE Writeback
    BY <1>1, <2>4 DEF Writeback
  <2>5. CASE PowerLoss
    <3>1. CASE UNCHANGED << dirs, keyFile, content >>
      BY <1>1, <3>1
    <3>2. CASE ~ stored
      BY <2>5, <3>2
    <3> QED
      BY <2>5, <3>1, <3>2 DEF PowerLoss
  <2> QED
    BY <1>1, <2>1, <2>2, <2>3, <2>4, <2>5 DEF Next
<1>2. Inv /\ [Next]_vars => [Held => Stays \/ (PowerLoss /\ ~ stored)]_vars
  BY <1>1
<1> QED
  BY Invariance, <1>2, PTL DEF Spec, StoredKeyStays
=============================================================================
