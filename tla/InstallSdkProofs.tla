------------------------- MODULE InstallSdkProofs --------------------------
(***************************************************************************)
(* Proofs about InstallSdk, for any number of runs that fail or are killed:*)
(* the reviewed driver is never lost, the exit code is true, and files of  *)
(* somebody else are left alone.                                           *)
(***************************************************************************)
EXTENDS InstallSdk, TLAPS

(* The copy is whole from the moment the driver may change (CopyInv); what *)
(* has been written is in place or was cut (WrittenInv).                   *)
Points == {"check", "headers", "backup", "driver", "application", "rollback",
           "hash", "exit", "dead"}
TypeOK ==
  /\ pc \in Points /\ original \in BOOLEAN /\ file \in [Files -> Contents]
  /\ rc \in {0, 1} /\ origin \in [Files -> Contents] /\ begun \in Contents
  /\ cut \in BOOLEAN /\ damaged \in BOOLEAN
Changing == {"driver", "application", "rollback", "hash"}
CopyInv ==
  /\ OriginalSurvives
  /\ pc = "backup" => original
  /\ pc \in {"check", "headers", "backup"} => file["driver"] = begun
  /\ pc \in {"headers", "backup"} /\ original =>
       file["driver"] = "reviewed" /\ file["backup"] = "none"
  /\ pc = "headers" /\ ~original => file["driver"] = "extended"
  /\ pc \in Changing /\ original => begun = "reviewed" /\ file["backup"] = begun
  /\ pc \in {"application", "hash"} /\ ~original =>
       file["driver"] = begun /\ begun = "extended"
  /\ pc \in {"driver", "rollback"} => original
HeadersIn == \A h \in Headers : file[h] = "header"
InPlace ==
  /\ pc = "headers" => \A h \in Headers : file[h] \in {"none", "header"}
  /\ pc = "headers" => file["application"] \in {"none", "payload"}
  /\ pc \in {"backup"} \cup Changing => HeadersIn
  /\ pc \in {"application", "hash"} => file["driver"] = "extended"
  /\ pc = "hash" => file["application"] = "payload"
WrittenInv == ~cut => InPlace /\ SuccessIsIntegrated /\ FailureRestores
ForeignInv ==
  /\ ForeignKept
  /\ pc \in {"headers", "backup"} \cup Changing =>
       \A f \in Files \ {"backup"} : origin[f] # "foreign"
  /\ pc \in {"headers", "backup"} \cup Changing /\ original => origin["backup"] # "foreign"
IInv == TypeOK /\ CopyInv /\ WrittenInv /\ ForeignInv

LEMMA InitInv == Init => IInv
BY DEF Init, IInv, TypeOK, CopyInv, WrittenInv, InPlace, ForeignInv, OriginalSurvives,
   SuccessIsIntegrated, FailureRestores, ForeignKept, Changing, Points, Files, Headers

(* Types.                                                                  *)
LEMMA NextType == TypeOK /\ [Next]_vars => TypeOK'
<1>. SUFFICES ASSUME TypeOK, [Next]_vars PROVE TypeOK'
  OBVIOUS
<1>. USE DEF TypeOK, TypeOK, Files, Headers, Contents, Set, Fail, Unsaid, Changing, Points
<1>1. CASE Check
  BY <1>1 DEF Check, Reviewed
<1>2. CASE HeadersDone
  BY <1>2 DEF HeadersDone
<1>3. CASE CopyBackup
  BY <1>3, ZenonT(40) DEF CopyBackup
<1>4. CASE WriteDriver
  BY <1>4 DEF WriteDriver, WriteFile, Shorts, Handler
<1>5. CASE WriteApplication
  BY <1>5 DEF WriteApplication, WriteFile, Shorts, Handler
<1>6. CASE Rollback
  BY <1>6, ZenonT(40) DEF Rollback
<1>7. CASE Hash
  BY <1>7 DEF Hash
<1>8. CASE Kill
  BY <1>8 DEF Kill
<1>9. CASE Restart
  BY <1>9 DEF Restart
<1>10. ASSUME NEW h \in Headers, WriteHeader(h) PROVE TypeOK'
  BY <1>10 DEF WriteHeader, WriteFile, Shorts
<1>11. CASE UNCHANGED vars
  BY <1>11 DEF vars
<1>. QED
  BY <1>1, <1>2, <1>3, <1>4, <1>5, <1>6, <1>7, <1>8, <1>9, <1>10, <1>11 DEF Next

(* The copy of the driver.                                                 *)
LEMMA NextCopy == TypeOK /\ CopyInv /\ [Next]_vars => CopyInv'
<1>. SUFFICES ASSUME TypeOK, CopyInv, [Next]_vars PROVE CopyInv'
  OBVIOUS
<1>. USE DEF TypeOK, CopyInv, Files, Headers, Contents, Set, Fail, Unsaid, Changing, OriginalSurvives
<1>1. CASE Check
  BY <1>1 DEF Check, Reviewed
<1>2. CASE HeadersDone
  BY <1>2 DEF HeadersDone
<1>3. CASE CopyBackup
  BY <1>3 DEF CopyBackup
<1>4. CASE WriteDriver
  BY <1>4 DEF WriteDriver, WriteFile, Shorts, Handler
<1>5. CASE WriteApplication
  BY <1>5 DEF WriteApplication, WriteFile, Shorts, Handler
<1>6. CASE Rollback
  BY <1>6 DEF Rollback
<1>7. CASE Hash
  BY <1>7 DEF Hash
<1>8. CASE Kill
  BY <1>8 DEF Kill
<1>9. CASE Restart
  BY <1>9 DEF Restart
<1>10. ASSUME NEW h \in Headers, WriteHeader(h) PROVE CopyInv'
  BY <1>10 DEF WriteHeader, WriteFile, Shorts
<1>11. CASE UNCHANGED vars
  BY <1>11 DEF vars
<1>. QED
  BY <1>1, <1>2, <1>3, <1>4, <1>5, <1>6, <1>7, <1>8, <1>9, <1>10, <1>11 DEF Next

(* What has been written.                                                  *)
LEMMA CutStays == [Next]_vars /\ ~cut' => ~cut
BY DEF Next, vars, Check, HeadersDone, CopyBackup, WriteDriver, WriteApplication,
   Rollback, Hash, Kill, Restart, WriteHeader, WriteFile

LEMMA FailedAsBegun ==
  ASSUME \/ pc' # "exit"
         \/ rc' = 1 /\ (file'["driver"] = begun' \/ damaged')
  PROVE  SuccessIsIntegrated' /\ FailureRestores'
BY DEF SuccessIsIntegrated, FailureRestores

LEMMA NextWritten == TypeOK /\ CopyInv /\ WrittenInv /\ [Next]_vars => WrittenInv'
<1>. SUFFICES ASSUME TypeOK, CopyInv, WrittenInv, [Next]_vars, ~cut'
              PROVE  InPlace' /\ SuccessIsIntegrated' /\ FailureRestores'
  BY DEF WrittenInv
<1>0. ~cut /\ InPlace /\ SuccessIsIntegrated /\ FailureRestores
  BY CutStays DEF WrittenInv
<1>. USE <1>0 DEF TypeOK, Files, Headers, Set, Fail, Unsaid
<1>1. CASE Check
  <2>1. InPlace'
    BY <1>1 DEF Check, Reviewed, InPlace, HeadersIn, Changing, CopyInv
  <2>2. SuccessIsIntegrated' /\ FailureRestores'
    <3>1. file["driver"] = begun /\ file' = file /\ begun' = begun
      BY <1>1 DEF Check, Reviewed, CopyInv, Changing
    <3>. QED
      BY <1>1, <3>1, FailedAsBegun DEF Check, Reviewed
  <2>. QED
    BY <2>1, <2>2
<1>2. CASE HeadersDone
  <2>1. InPlace'
    BY <1>2 DEF HeadersDone, InPlace, HeadersIn, Changing, CopyInv
  <2>2. SuccessIsIntegrated' /\ FailureRestores'
    BY <1>2 DEF HeadersDone, InPlace, HeadersIn, Changing,
       SuccessIsIntegrated, FailureRestores, Integrated
  <2>. QED
    BY <2>1, <2>2
<1>3. CASE CopyBackup
  <2>1. InPlace'
    BY <1>3 DEF CopyBackup, InPlace, HeadersIn, Changing, CopyInv
  <2>2. SuccessIsIntegrated' /\ FailureRestores'
    <3>1. file["driver"] = begun /\ file'["driver"] = file["driver"] /\ begun' = begun
      BY <1>3 DEF CopyBackup, CopyInv, Changing
    <3>. QED
      BY <1>3, <3>1, FailedAsBegun DEF CopyBackup
  <2>. QED
    BY <2>1, <2>2
<1>4. CASE WriteDriver
  <2>1. InPlace'
    BY <1>4 DEF WriteDriver, WriteFile, Shorts, Handler, InPlace, HeadersIn, Changing, CopyInv
  <2>2. SuccessIsIntegrated' /\ FailureRestores'
    <3>1. original
      BY <1>4 DEF WriteDriver, WriteFile, Shorts, Handler, CopyInv, Changing
    <3>. QED
      BY <1>4, <3>1, FailedAsBegun DEF WriteDriver, WriteFile, Shorts, Handler
  <2>. QED
    BY <2>1, <2>2
<1>5. CASE WriteApplication
  <2>1. InPlace'
    BY <1>5 DEF WriteApplication, WriteFile, Shorts, Handler, InPlace, HeadersIn, Changing, CopyInv
  <2>2. SuccessIsIntegrated' /\ FailureRestores'
    <3>1. (original \/ file["driver"] = begun) /\ file'["driver"] = file["driver"] /\ begun' = begun
      BY <1>5 DEF WriteApplication, WriteFile, Shorts, Handler, CopyInv, Changing
    <3>. QED
      BY <1>5, <3>1, FailedAsBegun DEF WriteApplication, WriteFile, Shorts, Handler
  <2>. QED
    BY <2>1, <2>2
<1>6. CASE Rollback
  <2>1. InPlace'
    BY <1>6 DEF Rollback, InPlace, HeadersIn, Changing, CopyInv
  <2>2. SuccessIsIntegrated' /\ FailureRestores'
    <3>1. file["backup"] = begun /\ begun' = begun
      BY <1>6 DEF Rollback, CopyInv, Changing
    <3>. QED
      BY <1>6, <3>1, FailedAsBegun DEF Rollback
  <2>. QED
    BY <2>1, <2>2
<1>7. CASE Hash
  <2>1. InPlace'
    BY <1>7 DEF Hash, InPlace, HeadersIn, Changing, CopyInv
  <2>2. SuccessIsIntegrated' /\ FailureRestores'
    BY <1>7 DEF Hash, InPlace, HeadersIn, Changing,
       SuccessIsIntegrated, FailureRestores, Integrated
  <2>. QED
    BY <2>1, <2>2
<1>8. CASE Kill
  <2>1. InPlace'
    BY <1>8 DEF Kill, InPlace, HeadersIn, Changing, CopyInv
  <2>2. SuccessIsIntegrated' /\ FailureRestores'
    BY <1>8 DEF Kill, InPlace, HeadersIn, Changing,
       SuccessIsIntegrated, FailureRestores, Integrated
  <2>. QED
    BY <2>1, <2>2
<1>9. CASE Restart
  <2>1. InPlace'
    BY <1>9 DEF Restart, InPlace, HeadersIn, Changing, CopyInv
  <2>2. SuccessIsIntegrated' /\ FailureRestores'
    BY <1>9 DEF Restart, InPlace, HeadersIn, Changing,
       SuccessIsIntegrated, FailureRestores, Integrated
  <2>. QED
    BY <2>1, <2>2
<1>10. ASSUME NEW h \in Headers, WriteHeader(h)
       PROVE  InPlace' /\ SuccessIsIntegrated' /\ FailureRestores'
  <2>1. InPlace'
    BY <1>10 DEF WriteHeader, WriteFile, Shorts, InPlace, HeadersIn, Changing, CopyInv
  <2>2. SuccessIsIntegrated' /\ FailureRestores'
    <3>1. file["driver"] = begun /\ file'["driver"] = begun /\ begun' = begun
      BY <1>10 DEF WriteHeader, WriteFile, Shorts, CopyInv, Changing
    <3>. QED
      BY <1>10, <3>1, FailedAsBegun DEF WriteHeader, WriteFile, Shorts
  <2>. QED
    BY <2>1, <2>2
<1>11. CASE UNCHANGED vars
  BY <1>11 DEF vars, InPlace, HeadersIn, SuccessIsIntegrated, FailureRestores, Integrated
<1>. QED
  BY <1>1, <1>2, <1>3, <1>4, <1>5, <1>6, <1>7, <1>8, <1>9, <1>10, <1>11 DEF Next

(* Files of somebody else.                                                 *)
LEMMA NextForeign == TypeOK /\ CopyInv /\ ForeignInv /\ [Next]_vars => ForeignInv'
<1>. SUFFICES ASSUME TypeOK, CopyInv, ForeignInv, [Next]_vars PROVE ForeignInv'
  OBVIOUS
<1>. USE DEF TypeOK, ForeignInv, Files, Headers, Contents, Set, Fail, Unsaid, Changing, CopyInv, ForeignKept
<1>1. CASE Check
  BY <1>1 DEF Check, Reviewed
<1>2. CASE HeadersDone
  BY <1>2 DEF HeadersDone
<1>3. CASE CopyBackup
  BY <1>3 DEF CopyBackup
<1>4. CASE WriteDriver
  BY <1>4 DEF WriteDriver, WriteFile, Shorts, Handler
<1>5. CASE WriteApplication
  BY <1>5, ZenonT(40) DEF WriteApplication, WriteFile, Shorts, Handler
<1>6. CASE Rollback
  BY <1>6 DEF Rollback
<1>7. CASE Hash
  BY <1>7 DEF Hash
<1>8. CASE Kill
  BY <1>8 DEF Kill
<1>9. CASE Restart
  BY <1>9 DEF Restart
<1>10. ASSUME NEW h \in Headers, WriteHeader(h) PROVE ForeignInv'
  BY <1>10, ZenonT(40) DEF WriteHeader, WriteFile, Shorts
<1>11. CASE UNCHANGED vars
  BY <1>11 DEF vars
<1>. QED
  BY <1>1, <1>2, <1>3, <1>4, <1>5, <1>6, <1>7, <1>8, <1>9, <1>10, <1>11 DEF Next

LEMMA AlwaysInv == Spec => []IInv
<1>1. IInv /\ [Next]_vars => IInv'
  BY NextType, NextCopy, NextWritten, NextForeign DEF IInv
<1>. QED
  BY <1>1, InitInv, PTL DEF Spec

(* The reviewed driver is never lost.                                      *)
THEOREM ReviewedDriverSurvives == Spec => []OriginalSurvives
<1>1. IInv => OriginalSurvives
  BY DEF IInv, CopyInv
<1>. QED
  BY <1>1, AlwaysInv, PTL

(* The exit code tells what happened, as far as writes tell.               *)
THEOREM ExitCodeIsTrue == Spec => [](SuccessIsIntegrated /\ FailureRestores)
<1>1. IInv => SuccessIsIntegrated /\ FailureRestores
  BY DEF IInv, WrittenInv, SuccessIsIntegrated, FailureRestores
<1>. QED
  BY <1>1, AlwaysInv, PTL

(* Nobody else's file is written.                                          *)
THEOREM ForeignFilesKept == Spec => []ForeignKept
<1>1. IInv => ForeignKept
  BY DEF IInv, ForeignInv
<1>. QED
  BY <1>1, AlwaysInv, PTL
=============================================================================
