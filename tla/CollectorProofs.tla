-------------------------- MODULE CollectorProofs --------------------------
(***************************************************************************)
(* Theorems about the telemetry collector, for inputs of any length: what  *)
(* metadata.json says of a capture is true of the lines that were read.    *)
(***************************************************************************)
EXTENDS Collector, FiniteSetTheorems, TLAPS

Ended == \E i \in DOMAIN log : /\ CountsAsSuccess(log[i])
                               /\ \A j \in i + 1 .. Len(log) : ~IsEnd(log[j])

Sound(l) ==
  /\ l.kind # "malformed"
  /\ l.kind = "carrier" => l.rev \in Revisions
  /\ l.kind = "bench" => l.rc = 0

(* A rejected line or a failed command is remembered.                      *)
DefectInv == rejected \/ command_failure \/ \A i \in DOMAIN log : Sound(log[i])

(* complete follows the last end record, until it is taken back.           *)
EndInv == complete => Ended

(* From the verdict on, complete excludes every defect.                    *)
VerdictInv ==
  /\ phase = "open" => ~complete
  /\ phase \in {"verdict", "done"} /\ complete =>
       /\ ~rejected /\ ~command_failure /\ ~partial
       /\ phase = "verdict" \/ metadata = "complete" => result = 0
  /\ metadata # "none" => phase = "done"
  /\ metadata = "complete" => complete

Breaks(s) == {i \in 2 .. Len(s) : s[i] # s[i - 1] + 1}
(* previous is the last number taken.                                      *)
PreviousInv ==
  /\ taken = <<>> => previous = -1
  /\ taken # <<>> => previous = taken[Len(taken)]
MappedInv == mapped # {} => rows > 0

CollectInv == TypeOK /\ DefectInv /\ EndInv /\ VerdictInv
RowInv == TypeOK /\ RowsMatchCarrier /\ MappedInv /\ PreviousInv /\ GapsAreBreaks

-----------------------------------------------------------------------------
(* What a line adds to the log, whichever of its two handlers takes it.    *)
LEMMA LinesAreKnown ==
  ASSUME NEW l \in Lines
  PROVE  /\ l.kind = "carrier" => l.rev \in Revisions \cup {"unknown"}
         /\ l.kind = "servo" => l.rev \in Revisions /\ l.seq \in 1 .. MaxSeq
         /\ l.kind = "bench" => l.channels \in {1, 4} /\ l.rc \in {0, 1}
         /\ l.kind = "single" => l.rev \in Revisions
         /\ l.kind = "end" => l.code \in {0, 1}
         /\ l.kind = "servoEnd" => l.failed \in {0, 1}
BY DEF Lines, AllLines

LEMMA LogGrows ==
  ASSUME NEW l \in Lines, log \in Seq(Lines), log' = Append(log, l)
  PROVE  /\ log' \in Seq(Lines) /\ Len(log') = Len(log) + 1
         /\ DOMAIN log' = 1 .. Len(log) + 1 /\ DOMAIN log = 1 .. Len(log)
         /\ Len(log) \in Nat
         /\ log'[Len(log) + 1] = l
         /\ \A i \in 1 .. Len(log) : log'[i] = log[i]
OBVIOUS

(* Adding a number adds at most one break of the sequence.                 *)
LEMMA BreaksGrow ==
  ASSUME NEW s \in Seq(Nat), NEW n \in Nat
  PROVE  /\ IsFiniteSet(Breaks(s)) /\ Cardinality(Breaks(s)) \in Nat
         /\ Cardinality(Breaks(Append(s, n))) =
              IF s # <<>> /\ n # s[Len(s)] + 1
                THEN Cardinality(Breaks(s)) + 1 ELSE Cardinality(Breaks(s))
<1> DEFINE t == Append(s, n)
           k == Len(s) + 1
<1>1. IsFiniteSet(Breaks(s))
  <2>1. Len(s) \in Int /\ 2 \in Int
    OBVIOUS
  <2>2. IsFiniteSet(2 .. Len(s))
    BY <2>1, FS_Interval, Zenon
  <2>3. Breaks(s) \in SUBSET (2 .. Len(s))
    BY DEF Breaks
  <2> QED  BY <2>2, <2>3, FS_Subset, Zenon
<1>2. /\ t \in Seq(Nat) /\ Len(t) = k /\ k \in Nat /\ t[k] = n
      /\ \A i \in 1 .. Len(s) : t[i] = s[i]
  OBVIOUS
<1>3. k \notin Breaks(s)
  BY DEF Breaks
<1>4. CASE s # <<>> /\ n # s[Len(s)] + 1
  <2>1. Len(s) \in 1 .. Len(s) /\ k - 1 = Len(s) /\ k \in 2 .. k
    BY <1>4
  <2>2. Breaks(t) = Breaks(s) \cup {k}
    <3>1. ASSUME NEW i \in Breaks(t)  PROVE i \in Breaks(s) \cup {k}
      BY <1>2, <3>1 DEF Breaks
    <3>2. ASSUME NEW i \in Breaks(s)  PROVE i \in Breaks(t)
      BY <1>2, <3>2 DEF Breaks
    <3>3. k \in Breaks(t)
      BY <1>2, <1>4, <2>1 DEF Breaks
    <3> QED  BY <3>1, <3>2, <3>3
  <2> QED  BY <1>1, <1>3, <1>4, <2>2, FS_AddElement, FS_CardinalityType
<1>5. CASE ~(s # <<>> /\ n # s[Len(s)] + 1)
  <2>1. Breaks(t) = Breaks(s)
    <3>1. ASSUME NEW i \in Breaks(t)  PROVE i \in Breaks(s)
      BY <1>2, <1>5, <3>1 DEF Breaks
    <3>2. ASSUME NEW i \in Breaks(s)  PROVE i \in Breaks(t)
      BY <1>2, <3>2 DEF Breaks
    <3> QED  BY <3>1, <3>2
  <2> QED  BY <1>1, <1>5, <2>1, FS_CardinalityType
<1> QED  BY <1>4, <1>5, <1>1, FS_CardinalityType

-----------------------------------------------------------------------------
(* Every variable keeps its type.                                          *)
LEMMA TypeInit == Init => TypeOK
<1> SUFFICES ASSUME Init  PROVE TypeOK
  OBVIOUS
<1>1. /\ log \in Seq(Lines) /\ Len(log) = 0 /\ taken \in Seq(1 .. MaxSeq)
      /\ 0 <= MaxLines
  BY CollectorAssumption DEF Init
<1> QED  BY <1>1 DEF Init, TypeOK, Revisions

LEMMA TypeStep == TypeOK /\ [Next]_vars => TypeOK'
<1> SUFFICES ASSUME TypeOK, [Next]_vars  PROVE TypeOK'
  OBVIOUS
<1> USE DEF TypeOK
<1>1. CASE Open
  BY <1>1 DEF Open, ghosts
<1>2. ASSUME NEW l \in Lines, ReadLine(l)  PROVE TypeOK'
  <2>1. log \in Seq(Lines) /\ log' = Append(log, l) /\ Len(log) < MaxLines
    BY <1>2 DEF ReadLine
  <2>2. log' \in Seq(Lines) /\ Len(log') <= MaxLines
    BY <2>1, LogGrows, CollectorAssumption
  <2>3. /\ revision' \in Revisions /\ previous' \in {-1} \cup 1 .. MaxSeq
        /\ gaps' \in Nat /\ rows' \in Nat /\ rejected' \in BOOLEAN
        /\ command_failure' \in BOOLEAN /\ complete' \in BOOLEAN
        /\ mapped' \subseteq Revisions /\ taken' \in Seq(1 .. MaxSeq)
    <3>1. CASE Refused(l)
      BY <1>2, <3>1 DEF ReadLine, Handle, noted
    <3>2. CASE ~Refused(l)
      <4>1. Note(l) /\ rejected' \in BOOLEAN
        BY <1>2, <3>2 DEF ReadLine, Handle
      <4>2. CASE l.kind = "carrier"
        <5>1. Carrier(l) /\ l.rev \in Revisions
          BY <3>2, <4>1, <4>2, LinesAreKnown DEF Note, Refused
        <5> QED  BY <4>1, <5>1 DEF Carrier
      <4>3. CASE l.kind = "servo"
        <5>1. Servo(l) /\ l.seq \in 1 .. MaxSeq
          BY <4>1, <4>3, LinesAreKnown DEF Note
        <5>2. Append(taken, l.seq) \in Seq(1 .. MaxSeq)
          BY <5>1
        <5>3. gaps' \in Nat
          BY <5>1 DEF Servo, Follow
        <5>4. previous' \in {-1} \cup 1 .. MaxSeq /\ taken' \in Seq(1 .. MaxSeq)
          BY <5>1, <5>2 DEF Servo, Follow
        <5>5. mapped' \subseteq Revisions /\ rows' \in Nat
          BY <5>1 DEF Servo
        <5> QED  BY <4>1, <5>1, <5>3, <5>4, <5>5 DEF Servo
      <4>4. CASE l.kind = "bench"
        <5>1. Bench(l) /\ l.channels \in Nat
          BY <4>1, <4>4, LinesAreKnown DEF Note
        <5> QED  BY <4>1, <5>1 DEF Bench
      <4>5. CASE l.kind = "single"
        <5>1. Single(l)
          BY <4>1, <4>5 DEF Note
        <5> QED  BY <4>1, <5>1 DEF Single
      <4>6. CASE l.kind \in {"end", "servoEnd"}
        <5>1. End(l)
          BY <4>1, <4>6 DEF Note
        <5> QED  BY <4>1, <5>1 DEF End
      <4>7. CASE l.kind \notin {"carrier", "servo", "bench", "single", "end",
                                "servoEnd"}
        BY <4>1, <4>7 DEF Note, noted
      <4> QED  BY <4>2, <4>3, <4>4, <4>5, <4>6, <4>7
    <3> QED  BY <3>1, <3>2
  <2>4. /\ phase' \in {"open", "read", "stop", "verdict", "done"}
        /\ live' \in BOOLEAN /\ interrupted' \in BOOLEAN /\ result' \in {0, 1}
        /\ partial' \in BOOLEAN /\ metadata' \in {"none", "complete", "incomplete"}
    BY <1>2 DEF ReadLine
  <2> QED  BY <2>2, <2>3, <2>4
<1>3. ASSUME NEW l \in Lines, FailRow(l)  PROVE TypeOK'
  <2>1. log \in Seq(Lines) /\ log' = Append(log, l) /\ Len(log) < MaxLines
    BY <1>3 DEF FailRow
  <2>2. log' \in Seq(Lines) /\ Len(log') <= MaxLines
    BY <2>1, LogGrows, CollectorAssumption
  <2>3. /\ previous' \in {-1} \cup 1 .. MaxSeq /\ taken' \in Seq(1 .. MaxSeq)
        /\ gaps' \in Nat /\ rows' \in Nat /\ mapped' \subseteq Revisions
    <3>1. l.kind = "servo" => Append(taken, l.seq) \in Seq(1 .. MaxSeq)
      BY LinesAreKnown
    <3>2. l.kind = "servo" => l.seq \in 1 .. MaxSeq
      BY LinesAreKnown
    <3>3. gaps' \in Nat
      BY <1>3 DEF FailRow, Follow
    <3>4. previous' \in {-1} \cup 1 .. MaxSeq
      BY <1>3, <3>2 DEF FailRow, Follow
    <3>5. taken' \in Seq(1 .. MaxSeq)
      BY <1>3, <3>1 DEF FailRow, Follow
    <3>6. mapped' \subseteq Revisions /\ rows' \in Nat
      BY <1>3 DEF FailRow
    <3> QED  BY <3>3, <3>4, <3>5, <3>6
  <2>4. /\ phase' = phase /\ live' = live /\ interrupted' = interrupted
        /\ result' = result /\ revision' = revision /\ metadata' = metadata
        /\ command_failure' = command_failure /\ complete' = complete
        /\ rejected' = TRUE /\ partial' = FALSE
    BY <1>3 DEF FailRow
  <2> QED  BY <2>2, <2>3, <2>4
<1>4. CASE ReadPart
  BY <1>4 DEF ReadPart, meta, ghosts
<1>5. CASE Break
  BY <1>5 DEF Break, ghosts
<1>6. CASE Leave
  BY <1>6 DEF Leave, meta, ghosts
<1>7. CASE Decide
  BY <1>7 DEF Decide, ghosts
<1>8. CASE WriteMetadata
  BY <1>8 DEF WriteMetadata, ghosts
<1>9. CASE Signal
  BY <1>9 DEF Signal, meta, ghosts
<1>10. CASE UNCHANGED vars
  BY <1>10 DEF vars, meta, ghosts
<1> QED
  BY <1>1, <1>2, <1>3, <1>4, <1>5, <1>6, <1>7, <1>8, <1>9, <1>10 DEF Next

THEOREM TypeCorrect == Spec => []TypeOK
BY TypeInit, TypeStep, PTL DEF Spec

-----------------------------------------------------------------------------
(* What is remembered of a line, and when complete may stay.               *)
LEMMA HandleRemembers ==
  ASSUME TypeOK, NEW l \in Lines, Handle(l)
  PROVE  /\ rejected => rejected'
         /\ command_failure => command_failure'
         /\ Sound(l) \/ rejected' \/ command_failure'
         /\ complete' => CountsAsSuccess(l) \/ (complete /\ ~IsEnd(l))
<1>1. CASE Refused(l)
  <2>1. rejected' = TRUE /\ UNCHANGED <<command_failure, complete>>
    BY <1>1 DEF Handle, noted
  <2>2. ~IsEnd(l)
    BY <1>1 DEF Refused, IsEnd
  <2> QED  BY <2>1, <2>2
<1>2. CASE ~Refused(l)
  <2>1. Note(l) /\ (rejected => rejected') /\ l.kind # "malformed"
    BY <1>2 DEF Handle, Refused, TypeOK
  <2>2. CASE l.kind = "carrier"
    <3>1. Carrier(l) /\ l.rev \in Revisions
      BY <1>2, <2>1, <2>2, LinesAreKnown DEF Note, Refused
    <3> QED  BY <2>1, <2>2, <3>1 DEF Carrier, Sound, IsEnd
  <2>3. CASE l.kind = "servo"
    BY <2>1, <2>3 DEF Note, Servo, Sound, IsEnd
  <2>4. CASE l.kind = "bench"
    <3>1. Bench(l) /\ l.rc \in {0, 1}
      BY <2>1, <2>4, LinesAreKnown DEF Note
    <3> QED  BY <2>1, <2>4, <3>1 DEF Bench, Sound, IsEnd
  <2>5. CASE l.kind = "single"
    BY <2>1, <2>5 DEF Note, Single, Sound, IsEnd
  <2>6. CASE l.kind \in {"end", "servoEnd"}
    BY <2>1, <2>6 DEF Note, End, Sound, CountsAsSuccess
  <2>7. CASE l.kind \notin {"carrier", "servo", "bench", "single", "end",
                            "servoEnd"}
    BY <2>1, <2>7 DEF Note, noted, Sound, IsEnd
  <2> QED  BY <2>2, <2>3, <2>4, <2>5, <2>6, <2>7
<1> QED  BY <1>1, <1>2

LEMMA LogKeepsDefects ==
  ASSUME NEW l \in Lines, log \in Seq(Lines), log' = Append(log, l), DefectInv,
         rejected => rejected', command_failure => command_failure',
         Sound(l) \/ rejected' \/ command_failure'
  PROVE  DefectInv'
<1>1. CASE rejected' \/ command_failure'
  BY <1>1 DEF DefectInv
<1>2. CASE ~rejected' /\ ~command_failure'
  <2>1. Sound(l) /\ \A i \in DOMAIN log : Sound(log[i])
    BY <1>2 DEF DefectInv
  <2>2. ASSUME NEW i \in DOMAIN log'  PROVE Sound(log'[i])
    BY <2>1, LogGrows
  <2> QED  BY <2>2 DEF DefectInv, Sound
<1> QED  BY <1>1, <1>2

LEMMA LogKeepsEnd ==
  ASSUME NEW l \in Lines, log \in Seq(Lines), log' = Append(log, l), EndInv,
         complete' => CountsAsSuccess(l) \/ (complete /\ ~IsEnd(l))
  PROVE  EndInv'
<1> SUFFICES ASSUME complete'  PROVE Ended'
  BY DEF EndInv
<1>1. CASE CountsAsSuccess(l)
  <2>1. Len(log) + 1 \in DOMAIN log' /\ CountsAsSuccess(log'[Len(log) + 1])
    BY <1>1, LogGrows
  <2>2. \A j \in (Len(log) + 1) + 1 .. Len(log') : ~IsEnd(log'[j])
    BY LogGrows
  <2> QED  BY <2>1, <2>2 DEF Ended
<1>2. CASE complete /\ ~IsEnd(l)
  <2>1. PICK i \in DOMAIN log : /\ CountsAsSuccess(log[i])
                               /\ \A j \in i + 1 .. Len(log) : ~IsEnd(log[j])
    BY <1>2 DEF EndInv, Ended
  <2>2. i \in DOMAIN log' /\ CountsAsSuccess(log'[i])
    BY <2>1, LogGrows
  <2>3. ASSUME NEW j \in i + 1 .. Len(log')  PROVE ~IsEnd(log'[j])
    BY <1>2, <2>1, LogGrows
  <2> QED  BY <2>2, <2>3 DEF Ended
<1> QED  BY <1>1, <1>2

LEMMA CollectInit == Init => CollectInv
<1> SUFFICES ASSUME Init  PROVE CollectInv
  OBVIOUS
<1>1. DOMAIN log = {}
  BY DEF Init
<1> QED
  BY <1>1, TypeInit DEF Init, CollectInv, DefectInv, EndInv, VerdictInv

LEMMA CollectStep == CollectInv /\ [Next]_vars => CollectInv'
<1> SUFFICES ASSUME CollectInv, [Next]_vars  PROVE CollectInv'
  OBVIOUS
<1>0. TypeOK /\ TypeOK' /\ DefectInv /\ EndInv /\ VerdictInv
  BY TypeStep DEF CollectInv
<1>1. CASE Open
  BY <1>0, <1>1 DEF Open, ghosts, CollectInv, DefectInv, EndInv, Ended, VerdictInv
<1>2. ASSUME NEW l \in Lines, ReadLine(l)  PROVE CollectInv'
  <2>1. log \in Seq(Lines) /\ log' = Append(log, l) /\ Handle(l)
    BY <1>0, <1>2 DEF ReadLine, TypeOK
  <2>2. DefectInv'
    BY <1>0, <2>1, HandleRemembers, LogKeepsDefects
  <2>3. EndInv'
    BY <1>0, <2>1, HandleRemembers, LogKeepsEnd
  <2>4. VerdictInv'
    BY <1>0, <1>2 DEF ReadLine, VerdictInv
  <2> QED  BY <1>0, <2>2, <2>3, <2>4 DEF CollectInv
<1>3. ASSUME NEW l \in Lines, FailRow(l)  PROVE CollectInv'
  <2>1. /\ log \in Seq(Lines) /\ log' = Append(log, l) /\ rejected'
        /\ complete' = complete /\ ~IsEnd(l)
    BY <1>0, <1>3 DEF FailRow, TypeOK, IsEnd
  <2>2. DefectInv'
    BY <2>1 DEF DefectInv
  <2>3. EndInv'
    BY <1>0, <2>1, LogKeepsEnd
  <2>4. VerdictInv'
    BY <1>0, <1>3 DEF FailRow, VerdictInv
  <2> QED  BY <1>0, <2>2, <2>3, <2>4 DEF CollectInv
<1>4. CASE ReadPart
  BY <1>0, <1>4 DEF ReadPart, meta, ghosts, CollectInv, DefectInv, EndInv, Ended,
                    VerdictInv
<1>5. CASE Break
  BY <1>0, <1>5 DEF Break, ghosts, CollectInv, DefectInv, EndInv, Ended, VerdictInv
<1>6. CASE Leave
  BY <1>0, <1>6 DEF Leave, meta, ghosts, CollectInv, DefectInv, EndInv, Ended,
                    VerdictInv
<1>7. CASE Decide
  BY <1>0, <1>7 DEF Decide, ghosts, CollectInv, DefectInv, EndInv, Ended,
                    VerdictInv, TypeOK
<1>8. CASE WriteMetadata
  BY <1>0, <1>8 DEF WriteMetadata, ghosts, CollectInv, DefectInv, EndInv, Ended,
                    VerdictInv
<1>9. CASE Signal
  BY <1>0, <1>9 DEF Signal, meta, ghosts, CollectInv, DefectInv, EndInv, Ended,
                    VerdictInv
<1>10. CASE UNCHANGED vars
  BY <1>0, <1>10 DEF vars, meta, ghosts, CollectInv, DefectInv, EndInv, Ended,
                     VerdictInv
<1> QED
  BY <1>1, <1>2, <1>3, <1>4, <1>5, <1>6, <1>7, <1>8, <1>9, <1>10 DEF Next

(* metadata.json says complete only of a capture whose last end record     *)
(* counts as a success (any SERVO_END does, collect.cpp:52), in which no   *)
(* record was malformed, no carrier unknown and no BENCH command failed,   *)
(* for inputs of any length.  The results of SERVO records are not among   *)
(* what it stands for.                                                     *)
THEOREM CompleteIsDeserved == Spec => []CompleteIsEarned
<1>1. CollectInv => CompleteIsEarned
  BY DEF CollectInv, DefectInv, EndInv, Ended, VerdictInv, CompleteIsEarned, Sound
<1> QED  BY <1>1, CollectInit, CollectStep, PTL DEF Spec

-----------------------------------------------------------------------------
(* A number taken: the count of breaks follows.                            *)
LEMMA TakeKeepsGaps ==
  ASSUME TypeOK, PreviousInv, GapsAreBreaks, NEW n \in 1 .. MaxSeq,
         gaps' = IF previous >= 0 /\ n # previous + 1 THEN gaps + 1 ELSE gaps,
         previous' = n, taken' = Append(taken, n)
  PROVE  PreviousInv' /\ GapsAreBreaks'
<1>1. /\ taken \in Seq(Nat) /\ n \in Nat /\ gaps = Cardinality(Breaks(taken))
  BY CollectorAssumption DEF TypeOK, GapsAreBreaks, Breaks
<1>2. previous >= 0 /\ n # previous + 1 <=>
        taken # <<>> /\ n # taken[Len(taken)] + 1
  <2>1. CASE taken = <<>>
    BY <2>1 DEF PreviousInv
  <2>2. CASE taken # <<>>
    <3>1. taken[Len(taken)] \in Nat
      BY <1>1, <2>2
    <3> QED  BY <2>2, <3>1 DEF PreviousInv
  <2> QED  BY <2>1, <2>2
<1>3. gaps' = Cardinality(Breaks(taken'))
  BY <1>1, <1>2, BreaksGrow
<1>4. PreviousInv'
  BY <1>1 DEF PreviousInv
<1> QED  BY <1>3, <1>4 DEF GapsAreBreaks, Breaks

LEMMA SkipKeepsGaps ==
  ASSUME PreviousInv, GapsAreBreaks, UNCHANGED <<previous, gaps, taken>>
  PROVE  PreviousInv' /\ GapsAreBreaks'
BY DEF PreviousInv, GapsAreBreaks

(* Rows and the carrier that maps them.                                    *)
LEMMA HandleMaps ==
  ASSUME RowInv, NEW l \in Lines, Handle(l)
  PROVE  RowsMatchCarrier' /\ MappedInv' /\ PreviousInv' /\ GapsAreBreaks'
<1> USE DEF RowInv, RowsMatchCarrier, MappedInv
<1>0. rows \in Nat
  BY DEF TypeOK
<1>1. CASE Refused(l)
  BY <1>1, SkipKeepsGaps DEF Handle, noted
<1>2. CASE ~Refused(l)
  <2>1. Note(l)
    BY <1>2 DEF Handle
  <2>2. CASE l.kind = "carrier"
    <3>1. Carrier(l) /\ (rows > 0 => l.rev = revision)
      BY <1>2, <2>1, <2>2 DEF Note, Refused
    <3>2. RowsMatchCarrier' /\ MappedInv'
      BY <1>0, <3>1 DEF Carrier
    <3> QED  BY <3>1, <3>2, SkipKeepsGaps DEF Carrier
  <2>3. CASE l.kind = "servo"
    <3>1. Servo(l) /\ l.seq \in 1 .. MaxSeq
      BY <2>1, <2>3, LinesAreKnown DEF Note
    <3>2. RowsMatchCarrier' /\ MappedInv'
      BY <1>0, <3>1 DEF Servo
    <3> QED  BY <3>1, <3>2, TakeKeepsGaps DEF Servo, Follow
  <2>4. CASE l.kind = "bench"
    <3>1. Bench(l) /\ l.channels \in {1, 4}
      BY <2>1, <2>4, LinesAreKnown DEF Note
    <3> QED  BY <1>0, <3>1, SkipKeepsGaps DEF Bench
  <2>5. CASE l.kind = "single"
    BY <1>0, <2>1, <2>5, SkipKeepsGaps DEF Note, Single
  <2>6. CASE l.kind \in {"end", "servoEnd"}
    BY <2>1, <2>6, SkipKeepsGaps DEF Note, End
  <2>7. CASE l.kind \notin {"carrier", "servo", "bench", "single", "end",
                            "servoEnd"}
    BY <2>1, <2>7, SkipKeepsGaps DEF Note, noted
  <2> QED  BY <2>2, <2>3, <2>4, <2>5, <2>6, <2>7
<1> QED  BY <1>1, <1>2

LEMMA RowInit == Init => RowInv
<1> SUFFICES ASSUME Init  PROVE RowInv
  OBVIOUS
<1>1. Breaks(taken) = {} /\ taken = <<>>
  BY DEF Init, Breaks
<1>2. GapsAreBreaks
  BY <1>1, FS_EmptySet DEF Init, GapsAreBreaks, Breaks
<1> QED
  BY <1>1, <1>2, TypeInit DEF Init, RowInv, RowsMatchCarrier, MappedInv, PreviousInv

LEMMA RowStep == RowInv /\ [Next]_vars => RowInv'
<1> SUFFICES ASSUME RowInv, [Next]_vars  PROVE RowInv'
  OBVIOUS
<1>0. TypeOK /\ TypeOK' /\ RowsMatchCarrier /\ MappedInv /\ PreviousInv
      /\ GapsAreBreaks /\ rows \in Nat
  BY TypeStep DEF RowInv, TypeOK
<1>1. ASSUME NEW l \in Lines, ReadLine(l)  PROVE RowInv'
  BY <1>0, <1>1, HandleMaps DEF ReadLine, RowInv
<1>2. ASSUME NEW l \in Lines, FailRow(l)  PROVE RowInv'
  <2>1. RowsMatchCarrier' /\ MappedInv'
    <3>1. /\ revision' = revision
          /\ \/ UNCHANGED <<rows, mapped>>
             \/ rows' = rows + 1 /\ mapped' = mapped \cup {revision}
      BY <1>2 DEF FailRow
    <3> QED  BY <1>0, <3>1 DEF RowsMatchCarrier, MappedInv
  <2>2. CASE l.kind = "servo"
    <3>1. l.seq \in 1 .. MaxSeq
      BY <2>2, LinesAreKnown
    <3>2. /\ gaps' = IF previous >= 0 /\ l.seq # previous + 1 THEN gaps + 1 ELSE gaps
          /\ previous' = l.seq /\ taken' = Append(taken, l.seq)
      BY <1>2, <2>2 DEF FailRow, Follow
    <3> QED  BY <1>0, <2>1, <3>1, <3>2, TakeKeepsGaps DEF RowInv
  <2>3. CASE l.kind # "servo"
    <3>1. UNCHANGED <<previous, gaps, taken>>
      BY <1>2, <2>3 DEF FailRow
    <3> QED  BY <1>0, <2>1, <3>1, SkipKeepsGaps DEF RowInv
  <2> QED  BY <2>2, <2>3
<1>3. ASSUME UNCHANGED <<revision, rows, mapped, previous, gaps, taken>>
      PROVE RowInv'
  BY <1>0, <1>3, SkipKeepsGaps DEF RowInv, RowsMatchCarrier, MappedInv
<1>4. CASE Open
  BY <1>3, <1>4 DEF Open, ghosts
<1>5. CASE ReadPart \/ Leave \/ Signal
  BY <1>3, <1>5 DEF ReadPart, Leave, Signal, meta, ghosts
<1>6. CASE Break
  BY <1>3, <1>6 DEF Break, ghosts
<1>7. CASE Decide
  BY <1>3, <1>7 DEF Decide, ghosts
<1>8. CASE WriteMetadata
  BY <1>3, <1>8 DEF WriteMetadata, ghosts
<1>9. CASE UNCHANGED vars
  BY <1>3, <1>9 DEF vars, meta, ghosts
<1> QED
  BY <1>1, <1>2, <1>4, <1>5, <1>6, <1>7, <1>8, <1>9 DEF Next

(* One carrier maps all rows, and sequence_gaps counts what it says.       *)
THEOREM MetadataIsFaithful == Spec => []MetadataFitsRows
<1>1. RowInv => MetadataFitsRows
  BY DEF RowInv, MetadataFitsRows
<1> QED  BY <1>1, RowInit, RowStep, PTL DEF Spec
=============================================================================
