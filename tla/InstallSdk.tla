----------------------------- MODULE InstallSdk -----------------------------
(***************************************************************************)
(* The SDK integration tool, cpp/src/install_sdk.cpp: it appends the       *)
(* microsecond extension to the SDK's PWM driver, after a copy of it, and  *)
(* adds the application and two headers. It may fail at any file, may be   *)
(* killed at any point and is started again as often as one likes.         *)
(*                                                                         *)
(* write_file has four outcomes. The file that cannot be opened is left    *)
(* alone; a write that fails leaves a short file and throws; but what is   *)
(* still in the buffer is written by the destructor of the stream, which   *)
(* throws nothing: a short file may also count as a success.               *)
(***************************************************************************)
Headers == {"application header", "driver header"}
Files == {"driver", "backup", "application"} \cup Headers
\* reviewed: the driver the repository knows; extended: with the extension.
Contents == {"none", "reviewed", "extended", "payload", "header", "short", "foreign"}

VARIABLES
  pc,         \* check, headers, backup, driver, application, rollback, hash;
              \* exit, dead
  original,   \* the driver was the reviewed one
  file,       \* what every file holds
  rc,         \* the exit code
  (* for the properties *)
  origin,     \* the files before the first run
  begun,      \* the driver at the beginning of this run
  cut,        \* a short file has counted as a success
  damaged     \* the driver could not be put back

vars == <<pc, original, file, rc, origin, begun, cut, damaged>>

Init ==
  /\ pc = "check" /\ original = FALSE /\ rc = 1 /\ cut = FALSE /\ damaged = FALSE
  /\ file \in [Files -> Contents] /\ origin = file /\ begun = file["driver"]

-----------------------------------------------------------------------------
Set(f, content) == file' = [file EXCEPT ![f] = content]
Fail == pc' = "exit" /\ rc' = 1
Unsaid == UNCHANGED <<origin, begun>>

(* All files are read and compared before anything is written.             *)
Reviewed ==
  /\ \A h \in Headers : file[h] \in {"none", "header"}
  /\ file["driver"] \in {"reviewed", "extended"}
  /\ file["application"] \in {"none", "payload"}
  /\ file["driver"] = "reviewed" => file["backup"] = "none"
Check ==
  /\ pc = "check" /\ original' = (file["driver"] = "reviewed")
  /\ \/ Reviewed /\ pc' = "headers" /\ UNCHANGED rc
     \/ Fail
  /\ UNCHANGED <<file, cut, damaged>> /\ Unsaid

(* write_file, and what comes after it or after its exception. A driver    *)
(* cut where the extension begins is the reviewed one.                     *)
Shorts(f) == IF f = "driver" THEN {"short", "reviewed"} ELSE {"short"}
WriteFile(f, content, next, handler) ==
  \/ Set(f, content) /\ next /\ UNCHANGED cut
  \/ \E s \in Shorts(f) : Set(f, s) /\ next /\ cut' = TRUE
  \/ \E s \in Shorts(f) \cup {file[f]} : Set(f, s) /\ handler /\ UNCHANGED cut

WriteHeader(h) ==
  /\ pc = "headers" /\ file[h] = "none"
  /\ h = "driver header" => file["application header"] # "none"
  /\ WriteFile(h, "header", UNCHANGED <<pc, rc>>, Fail)
  /\ UNCHANGED <<original, damaged>> /\ Unsaid
HeadersDone ==
  /\ pc = "headers" /\ \A h \in Headers : file[h] # "none"
  /\ pc' = IF original THEN "backup"
           ELSE IF file["application"] = "none" THEN "application" ELSE "hash"
  /\ UNCHANGED <<original, file, rc, cut, damaged>> /\ Unsaid

(* fs::copy_file, outside of the try block.                                *)
CopyBackup ==
  /\ pc = "backup"
  /\ \/ Set("backup", file["driver"]) /\ pc' = "driver" /\ UNCHANGED rc
     \/ Fail /\ \E c \in {"none", "short"} : Set("backup", c)
  /\ UNCHANGED <<original, cut, damaged>> /\ Unsaid

Handler == IF original THEN pc' = "rollback" /\ UNCHANGED rc ELSE Fail
WriteDriver ==
  /\ pc = "driver"
  /\ WriteFile("driver", "extended", pc' = "application" /\ UNCHANGED rc, Handler)
  /\ UNCHANGED <<original, damaged>> /\ Unsaid
WriteApplication ==
  /\ pc = "application"
  /\ WriteFile("application", "payload", pc' = "hash" /\ UNCHANGED rc, Handler)
  /\ UNCHANGED <<original, damaged>> /\ Unsaid

(* The driver is put back; the copy stays.                                 *)
Rollback ==
  /\ pc = "rollback" /\ Fail
  /\ \/ Set("driver", file["backup"]) /\ UNCHANGED damaged
     \/ damaged' = TRUE /\ \E c \in {file["driver"], "short"} : Set("driver", c)
  /\ UNCHANGED <<original, cut>> /\ Unsaid

(* The checksum of the new driver is printed.                              *)
Hash ==
  /\ pc = "hash" /\ pc' = "exit" /\ rc' \in {0, 1}
  /\ UNCHANGED <<original, file, cut, damaged>> /\ Unsaid

Kill ==
  /\ pc \notin {"exit", "dead"} /\ pc' = "dead"
  /\ UNCHANGED <<original, file, rc, cut, damaged>> /\ Unsaid

Restart ==
  /\ pc \in {"exit", "dead"} /\ pc' = "check" /\ rc' = 1 /\ damaged' = FALSE
  /\ begun' = file["driver"] /\ UNCHANGED <<original, file, origin, cut>>

Next ==
  \/ Check \/ HeadersDone \/ CopyBackup \/ WriteDriver \/ WriteApplication
  \/ Rollback \/ Hash \/ Kill \/ Restart
  \/ \E h \in Headers : WriteHeader(h)

Spec == Init /\ [][Next]_vars

-----------------------------------------------------------------------------
(* However many runs fail or are killed, the reviewed driver is still      *)
(* there, in its place or as the copy (README.md:197 tells the user to go  *)
(* back to that copy).                                                     *)
OriginalSurvives ==
  origin["driver"] = "reviewed" =>
    file["driver"] = "reviewed" \/ file["backup"] = "reviewed"

(* Exit code 0 says that all files are in place, but for a file whose last *)
(* part was lost when its stream was destroyed.                            *)
Integrated ==
  /\ file["driver"] = "extended" /\ file["application"] = "payload"
  /\ \A h \in Headers : file[h] = "header"
SuccessIsIntegrated == pc = "exit" /\ rc = 0 => Integrated \/ cut

(* A run that reports a failure leaves the driver as it was, unless it     *)
(* could not put it back or failed only when all was done.                 *)
FailureRestores ==
  pc = "exit" /\ rc = 1 => file["driver"] = begun \/ damaged \/ Integrated \/ cut

(* A file that somebody else has changed is preserved.                     *)
ForeignKept == \A f \in Files : origin[f] = "foreign" => file[f] = "foreign"
=============================================================================
