----------------------------- MODULE Collector -----------------------------
(***************************************************************************)
(* The telemetry collector, cpp/src/collect.cpp: it copies a serial line or*)
(* an old log into raw.log, turns the command records into rows of         *)
(* commands.csv and states in metadata.json whether the capture is         *)
(* complete.                                                               *)
(*                                                                         *)
(* One action per line of input.  A line is a member of Lines: its kind and*)
(* the fields the verdict depends on.  Reading and writing may fail at any *)
(* line and a signal may arrive at any moment.                             *)
(***************************************************************************)
EXTENDS Integers, Sequences, FiniteSets

CONSTANTS
  Kinds,        \* bound: the kinds of line that occur
  MaxLines,     \* bound: lines of input
  MaxSeq        \* bound: sequence numbers of SERVO records

ASSUME CollectorAssumption == MaxLines \in Nat /\ MaxSeq \in Nat \ {0}

Revisions == {"V1", "V1.1"}

\* carrier: BENCH_META or SERVO_META, with a revision that may be unknown;
\* servo: a SERVO record, legal on one of the two carriers; bench: BENCH_CMD
\* or "BENCH mask=", for some channels; single: "BENCH servo=", legal on one
\* carrier; malformed: a BENCH record out of form, any record out of range or
\* with a number that does not convert; end: BENCH_END or EXIT_STATUS;
\* servoEnd: SERVO_END, with the failed field the bench of servo_bench.c ends
\* its run with; other: anything else, broken SERVO records included.
AllLines ==
  [kind : {"carrier"}, rev : Revisions \cup {"unknown"}]
    \cup [kind : {"servo"}, rev : Revisions, seq : 1 .. MaxSeq, rc : {0, 1}]
    \cup [kind : {"bench"}, channels : {1, 4}, rc : {0, 1}]
    \cup [kind : {"single"}, rev : Revisions]
    \cup [kind : {"end"}, code : {0, 1}]
    \cup [kind : {"servoEnd"}, failed : {0, 1}]
    \cup [kind : {"malformed", "other"}]
Lines == {l \in AllLines : l.kind \in Kinds}

VARIABLES
  phase,        \* "open", "read", "stop", "verdict", "done"
  live,         \* reading a serial port, not a file
  interrupted, result, revision, previous, gaps, rows, rejected,
  command_failure, complete,
  partial,      \* line is not empty
  metadata,     \* what metadata.json says: "none" or the value of complete
  (* for the properties *)
  log,          \* the lines processed
  mapped,       \* the revisions by which rows were mapped
  taken         \* the sequence numbers of the SERVO rows, in order

meta == <<result, revision, previous, gaps, rows, rejected, command_failure,
          complete>>
ghosts == <<log, mapped, taken>>
vars == <<phase, live, interrupted, meta, partial, metadata, ghosts>>

Init ==
  /\ phase = "open" /\ live \in BOOLEAN
  /\ interrupted = FALSE /\ result = 0 /\ revision = "V1" /\ previous = -1
  /\ gaps = 0 /\ rows = 0 /\ rejected = FALSE /\ command_failure = FALSE
  /\ complete = FALSE /\ partial = FALSE /\ metadata = "none"
  /\ log = <<>> /\ mapped = {} /\ taken = <<>>

(* Options, the input, a new directory: without them there is no capture.  *)
Open ==
  /\ phase = "open"
  /\ \/ phase' = "read" /\ UNCHANGED result
     \/ phase' = "done" /\ result' = 1
  /\ UNCHANGED <<live, interrupted, revision, previous, gaps, rows, rejected,
                 command_failure, complete, partial, metadata, ghosts>>

-----------------------------------------------------------------------------
(* process: one line, by its kind.                                         *)
noted == <<revision, previous, gaps, rows, command_failure, complete, mapped,
           taken>>

\* Faulty variant: a capture may change its carrier.
RefusedByForm(l) ==
  \/ l.kind = "malformed"
  \/ l.kind = "carrier" /\ l.rev = "unknown"
  \/ l.kind \in {"servo", "single"} /\ l.rev # revision
(* A carrier must be known and agree with the rows already written; a      *)
(* record must carry the PWM number of its servo on this carrier.          *)
Refused(l) ==
  \/ l.kind = "malformed"
  \/ l.kind = "carrier" /\ l.rev = "unknown"
  \/ l.kind = "carrier" /\ rows > 0 /\ l.rev # revision
  \/ l.kind \in {"servo", "single"} /\ l.rev # revision

Carrier(l) ==
  /\ revision' = l.rev
  /\ UNCHANGED <<previous, gaps, rows, command_failure, complete, mapped,
                 taken>>

(* A SERVO record continues the sequence, or leaves a gap.                 *)
Follow(l) ==
  /\ gaps' = IF previous >= 0 /\ l.seq # previous + 1 THEN gaps + 1 ELSE gaps
  /\ previous' = l.seq /\ taken' = Append(taken, l.seq)
Servo(l) ==
  /\ Follow(l) /\ rows' = rows + 1 /\ mapped' = mapped \cup {revision}
  /\ UNCHANGED <<revision, command_failure, complete>>

(* One row per channel of the mask, mapped by the carrier.                 *)
Bench(l) ==
  /\ rows' = rows + l.channels /\ mapped' = mapped \cup {revision}
  /\ command_failure' = (command_failure \/ l.rc # 0)
  /\ UNCHANGED <<revision, previous, gaps, complete, taken>>

(* A record of the first bench, which names servo and PWM.                 *)
Single(l) ==
  /\ rows' = rows + 1 /\ mapped' = mapped \cup {revision}
  /\ UNCHANGED <<revision, previous, gaps, command_failure, complete, taken>>

\* Faulty variant: a success is never taken back.
EndSticks(l) ==
  /\ complete' = (complete \/ l.kind = "servoEnd" \/ l.code = 0)
  /\ UNCHANGED <<revision, previous, gaps, rows, command_failure, mapped,
                 taken>>
(* An end record: the last one counts.  A SERVO_END counts as a success    *)
(* whatever its failed field says.                                         *)
End(l) ==
  /\ complete' = (l.kind = "servoEnd" \/ l.code = 0)
  /\ UNCHANGED <<revision, previous, gaps, rows, command_failure, mapped,
                 taken>>

Note(l) ==
  CASE l.kind = "carrier" -> Carrier(l)
    [] l.kind = "servo" -> Servo(l)
    [] l.kind = "bench" -> Bench(l)
    [] l.kind = "single" -> Single(l)
    [] l.kind \in {"end", "servoEnd"} -> End(l)
    [] OTHER -> UNCHANGED noted

(* A refused line is rejected.  So is one after which commands.csv cannot  *)
(* be flushed, but that comes after all it has to say has been noted.      *)
Handle(l) ==
  \/ Refused(l) /\ rejected' = TRUE /\ UNCHANGED noted
  \/ ~Refused(l) /\ Note(l) /\ rejected' \in {rejected, TRUE}

\* A serial capture ends with its end record, a file is read to its end.
ReadLine(l) ==
  /\ phase = "read" /\ ~interrupted /\ Len(log) < MaxLines
  /\ log' = Append(log, l) /\ Handle(l)
  /\ phase' = IF live /\ complete' THEN "stop" ELSE "read"
  /\ partial' = FALSE
  /\ UNCHANGED <<live, interrupted, result, metadata>>

(* commands.csv fails in the middle of a line's rows: the exception counts *)
(* the line as rejected, after what the code has already noted of it.  The *)
(* file may fail again at any later row.                                   *)
FailRow(l) ==
  /\ phase = "read" /\ ~interrupted /\ Len(log) < MaxLines /\ ~Refused(l)
  /\ log' = Append(log, l) /\ rejected' = TRUE /\ partial' = FALSE
  /\ \/ l.kind = "servo" /\ Follow(l) /\ UNCHANGED <<rows, mapped>>
     \/ /\ l.kind = "single" \/ l.kind = "bench"
        /\ UNCHANGED <<previous, gaps, rows, mapped, taken>>
     \/ /\ l.kind = "bench" /\ l.channels > 1
        /\ rows' = rows + 1 /\ mapped' = mapped \cup {revision}
        /\ UNCHANGED <<previous, gaps, taken>>
  /\ UNCHANGED <<phase, live, interrupted, result, revision, command_failure,
                 complete, metadata>>

(* Some characters of a line that is not finished.                         *)
ReadPart ==
  /\ phase = "read" /\ ~interrupted /\ ~partial /\ partial' = TRUE
  /\ UNCHANGED <<phase, live, interrupted, meta, metadata, ghosts>>

(* A read or a write to raw.log fails, or a line does not end.             *)
Break ==
  /\ phase = "read" /\ ~interrupted
  /\ phase' = "stop" /\ result' = 1
  /\ UNCHANGED <<live, interrupted, revision, previous, gaps, rows, rejected,
                 command_failure, complete, partial, metadata, ghosts>>

\* Faulty variant: a silent port is waited for.
LeaveAtEnd ==
  /\ phase = "read" /\ ~live
  /\ phase' = "stop"
  /\ UNCHANGED <<live, interrupted, meta, partial, metadata, ghosts>>
(* The end of the file, or the loop condition after a signal.              *)
Leave ==
  /\ phase = "read" /\ (interrupted \/ ~live)
  /\ phase' = "stop"
  /\ UNCHANGED <<live, interrupted, meta, partial, metadata, ghosts>>

(* What takes completeness back.                                           *)
Decide ==
  /\ phase = "stop" /\ phase' = "verdict"
  /\ complete' = (complete /\ ~(rejected \/ command_failure \/ result # 0
                                \/ partial \/ interrupted))
  /\ result' = IF rejected THEN 1 ELSE result
  /\ UNCHANGED <<live, interrupted, revision, previous, gaps, rows, rejected,
                 command_failure, partial, metadata, ghosts>>

(* metadata.json, which may fail too.                                      *)
WriteMetadata ==
  /\ phase = "verdict" /\ phase' = "done"
  /\ \/ metadata' = (IF complete THEN "complete" ELSE "incomplete")
        /\ UNCHANGED result
     \/ result' = 1 /\ UNCHANGED metadata
  /\ UNCHANGED <<live, interrupted, revision, previous, gaps, rows, rejected,
                 command_failure, complete, partial, ghosts>>

(* on_signal.                                                              *)
Signal ==
  /\ phase \notin {"open", "done"} /\ ~interrupted /\ interrupted' = TRUE
  /\ UNCHANGED <<phase, live, meta, partial, metadata, ghosts>>

Next ==
  \/ Open
  \/ \E l \in Lines : ReadLine(l) \/ FailRow(l)
  \/ ReadPart \/ Break \/ Leave \/ Decide \/ WriteMetadata
  \/ Signal

Spec == Init /\ [][Next]_vars
\* The program keeps running; neither input nor signals are promised.
FairSpec == Spec /\ WF_vars(Leave) /\ WF_vars(Decide) /\ WF_vars(WriteMetadata)

-----------------------------------------------------------------------------
(* Types of all variables.                                                 *)
TypeOK ==
  /\ phase \in {"open", "read", "stop", "verdict", "done"} /\ live \in BOOLEAN
  /\ interrupted \in BOOLEAN /\ result \in {0, 1} /\ revision \in Revisions
  /\ previous \in {-1} \cup 1 .. MaxSeq /\ gaps \in Nat /\ rows \in Nat
  /\ rejected \in BOOLEAN /\ command_failure \in BOOLEAN
  /\ complete \in BOOLEAN /\ partial \in BOOLEAN
  /\ metadata \in {"none", "complete", "incomplete"}
  /\ log \in Seq(Lines) /\ Len(log) <= MaxLines
  /\ mapped \subseteq Revisions /\ taken \in Seq(1 .. MaxSeq)

IsEnd(l) == l.kind \in {"end", "servoEnd"}
CountsAsSuccess(l) == l.kind = "servoEnd" \/ (l.kind = "end" /\ l.code = 0)

(* metadata.json says complete only of a capture whose last end record is  *)
(* a BENCH_END or EXIT_STATUS of code 0 or a SERVO_END, without a malformed*)
(* record, an unknown carrier or a failed BENCH command anywhere before or *)
(* after it, whose last line ends, and that no error cut short.  It is no  *)
(* word on the SERVO run: neither the failed field of SERVO_END            *)
(* (servo_bench.c:76) nor the rc of a SERVO record is looked at            *)
(* (collect.cpp:24-26, 52).                                                *)
CompleteIsEarned ==
  metadata = "complete" =>
    /\ \E i \in DOMAIN log : /\ CountsAsSuccess(log[i])
                             /\ \A j \in i + 1 .. Len(log) : ~IsEnd(log[j])
    /\ \A i \in DOMAIN log :
         /\ log[i].kind # "malformed"
         /\ log[i].kind = "carrier" => log[i].rev \in Revisions
         /\ log[i].kind = "bench" => log[i].rc = 0
    /\ ~partial /\ result = 0

(* All rows of one commands.csv were mapped by the carrier that            *)
(* metadata.json names, whenever the carrier record arrived.               *)
RowsMatchCarrier == mapped \subseteq {revision} /\ (rows > 0 => mapped # {})

(* sequence_gaps is the number of SERVO records that do not continue the  *)
(* one before them.                                                        *)
GapsAreBreaks ==
  gaps = Cardinality({i \in 2 .. Len(taken) : taken[i] # taken[i - 1] + 1})

(* metadata.json describes the commands.csv beside it.                     *)
MetadataFitsRows == RowsMatchCarrier /\ GapsAreBreaks

(* After a signal the collector writes its verdict, also when the port is  *)
(* silent.                                                                 *)
SignalEnds == interrupted ~> phase = "done"

(* firmware/e907_live/TELEMETRY.md:43 says that a non-zero command result  *)
(* makes complete false.  That is so for BENCH records only: the rc of a   *)
(* SERVO record is copied to its row and otherwise ignored.                *)
FailureIsIncomplete ==
  metadata = "complete" =>
    \A i \in DOMAIN log : log[i].kind \in {"bench", "servo"} => log[i].rc = 0
=============================================================================
