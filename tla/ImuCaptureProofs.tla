-------------------------- MODULE ImuCaptureProofs ---------------------------
(***************************************************************************)
(* Proofs about ImuCapture for any number of pads, controllers and runs.   *)
(* The argument goes resource by resource: where the board differs from    *)
(* what the run found, either the process holds the old value and has not  *)
(* come to the step of the cleanup that writes it back, or a failure is on *)
(* record.  Nothing can be on record before the cleanup (StageInv), so the *)
(* values that are read while the board is taken are the original ones.    *)
(***************************************************************************)
EXTENDS ImuCapture, TLAPS

\* The control points of the try block, before and after the step that
\* takes the chip select, and those of the cleanup.
Looking == {"lock", "users", "pads"}
Selected == {"mux", "spi", "identify", "icmCheck", "icmConfigure", "icmStart",
             "icmBank4", "icmOffsets", "bmiCheck", "bmiLoad", "bmiWake",
             "bmiStart", "plan", "poll"}
Front == Looking \cup {"unbind"} \cup Selected
Stopping == {"stopBmi", "stopIcm", "retryBmi", "retryIcm"}
Points == Front \cup Cleanup \cup {"exit", "dead"}

\* What has been started, by control point.
IcmStarted == {"icmStart", "icmBank4", "icmOffsets", "bmiCheck", "bmiLoad",
               "bmiWake", "bmiStart"}
BmiStarted == {"bmiWake", "bmiStart"}
Capturing == {"plan", "poll"}

Failed == report.errors \/ report.masked

Parts == Phases \cup {"open", "failed", "estimate", "profile", "static"}
Functions == {"linux", "imu"}
Settings == UNION {[S -> Functions] : S \in SUBSET Buses}
Boards == [pad : [Pads -> Functions], bound : SUBSET Nodes,
           out : BOOLEAN, low : BOOLEAN, spi : [Buses -> Functions],
           icm : {"rest", "mixed", "sampling"}, bank : {0, 4},
           bmi : {"suspend", "asleep", "awake", "sampling"}]
Fields == {"lock", "pads", "k", "detached", "cs", "spi", "icm", "bmi", "oldIcm",
           "gap"}
Held == /\ DOMAIN own = Fields /\ own.pads \in Seq(Functions)
        /\ own.k \in 0 .. NPads /\ own.detached \in SUBSET Nodes
        /\ own.spi \in Settings /\ own.oldIcm \in {"rest", "mixed"}
        /\ own.gap \in {2, 450}
Reports == [sick : BOOLEAN, ok : BOOLEAN, errors : BOOLEAN,
            masked : BOOLEAN, rc : {0, 1, 2, 130}]

OwnType == Held /\ Len(own.pads) \in 0 .. NPads
WorldType == world \in Boards /\ found \in Boards
ReportType == report \in Reports
FlowType ==
  /\ pc \in Points /\ plan \in Seq(Parts) /\ runs \in 1 .. MaxRuns
  /\ interrupted \in BOOLEAN /\ early \in BOOLEAN
  /\ pc = "poll" => plan # <<>>

\* What a run has done when it stands at a control point.
StageInv ==
  /\ pc \in Front => ~report.errors /\ ~report.masked
  /\ pc \in Front \ (IcmStarted \cup Capturing) => ~own.icm
  /\ pc \in IcmStarted => own.icm
  /\ pc \in Front \ (BmiStarted \cup Capturing) => ~own.bmi
  /\ pc \in BmiStarted => own.bmi
  /\ pc = "dead" => own = Nothing

\* The verdict.
VerdictInv ==
  /\ report.sick => pc = "poll"
  /\ early => interrupted
  /\ report.ok => /\ pc \in Cleanup \cup {"exit"}
                  /\ plan = <<>> /\ ~early /\ ~report.masked
                  /\ own.icm => world.bank = 0
  /\ pc \in {"bmiCheck", "bmiLoad", "bmiWake", "bmiStart"} \cup Capturing
        /\ own.icm => world.bank = 0
  /\ pc # "exit" => report.rc = 2
  /\ pc = "exit" /\ report.rc = 0 => report.ok /\ ~report.errors
  /\ pc \in {"save", "exit"} => ~own.lock

\* The pads: what has been read of them, and how far they are written back.
PadInv ==
  /\ \A p \in 1 .. Len(own.pads) : own.pads[p] = found.pad[p]
  /\ pc \in Looking => own.pads = <<>>
  /\ pc \in {"unbind"} \cup Selected => Len(own.pads) = NPads
  /\ pc \in Looking \cup {"unbind", "mux"} =>
       \A p \in Pads : p > own.k => world.pad[p] = found.pad[p]
  /\ pc \in Looking \cup {"unbind"} => own.k = 0
  /\ pc = "mux" => own.k < NPads
  /\ pc = "padsBack" =>
       /\ own.k <= Len(own.pads)
       /\ \A p \in Pads : p > own.k =>
            world.pad[p] = found.pad[p] \/ report.errors
  /\ pc \in Cleanup => \A p \in Pads : p > Len(own.pads) =>
       world.pad[p] = found.pad[p] \/ report.errors
  /\ pc \in {"bind", "save", "exit"} =>
       world.pad = found.pad \/ report.errors

\* The drivers: a controller is without its driver exactly as long as it is
\* on the list, and a pad is somebody else's only with all of them on it.
DriverInv ==
  /\ pc # "dead" /\ ~report.errors =>
       /\ own.detached \subseteq found.bound
       /\ world.bound = found.bound \ own.detached
  /\ pc \in Looking => own.detached = {}
  /\ pc \in Selected => own.detached = Nodes
  /\ pc \in Points \ {"dead"} /\ ~report.errors =>
       world.pad = found.pad \/ own.detached = Nodes
  /\ world.bound # {} => world.pad = found.pad \/ report.errors
  /\ pc \in {"save", "exit"} => own.detached = {}

\* The chip select and its level.
SelectInv ==
  /\ ~world.out => ~world.low
  /\ pc \in Looking \cup {"unbind"} => ~own.cs
  /\ pc \in Selected => own.cs
  /\ pc \in Stopping /\ own.bmi => own.cs
  /\ own.cs => ~found.out /\ ~found.low /\ world.out
  /\ pc # "dead" /\ ~own.cs /\ ~report.errors =>
       (world.out <=> found.out) /\ (world.low <=> found.low)
  /\ pc \in {"bind", "save", "exit"} => ~own.cs

\* The settings of the buses.
BusInv ==
  /\ \A s \in Buses \cap DOMAIN own.spi : own.spi[s] = found.spi[s]
  /\ pc # "dead" /\ ~Failed =>
       \A s \in Buses \ DOMAIN own.spi : world.spi[s] = found.spi[s]
  /\ pc \in {"padsBack", "bind", "save", "exit"} => DOMAIN own.spi = {}

\* The two sensors.
SensorInv ==
  /\ own.icm \/ pc = "icmConfigure" =>
       found.icm # "sampling" /\ own.oldIcm = found.icm /\ found.bank = 0
  /\ own.bmi \/ pc \in {"bmiLoad", "bmiWake", "bmiStart"} =>
       found.bmi = "suspend"
  /\ pc # "dead" /\ ~own.icm /\ ~Failed =>
       world.icm = found.icm /\ world.bank = found.bank
  /\ pc # "dead" /\ ~own.bmi /\ ~report.errors => world.bmi = found.bmi
  /\ found.icm = "sampling" => world.icm = "sampling" /\ ~own.icm
  /\ found.bmi # "suspend" => world.bmi = found.bmi /\ ~own.bmi
  /\ own.bmi /\ pc \in Cleanup \cup {"exit"} /\ pc # "stopBmi" => report.errors
  /\ own.icm /\ pc \in (Cleanup \cup {"exit"}) \ {"stopBmi", "stopIcm"} =>
       report.errors

\* The wait after a transfer to the BMI.
GapInv ==
  /\ own.gap = 2 => world.bmi \in {"awake", "sampling"}
  /\ pc = "bmiLoad" => world.bmi = "suspend"
  /\ pc = "bmiWake" => world.bmi = "asleep"
  /\ pc = "bmiStart" => world.bmi = "awake"

IInv == /\ FlowType /\ OwnType /\ WorldType /\ ReportType
        /\ StageInv /\ VerdictInv /\ PadInv /\ DriverInv /\ SelectInv
        /\ BusInv /\ SensorInv /\ GapInv


-----------------------------------------------------------------------------
(***************************************************************************)
(* What the actions do, resource by resource.                              *)
(***************************************************************************)
KeepsLock == own'.lock = own.lock
KeepsPads == own'.pads = own.pads /\ own'.k = own.k
KeepsList == own'.detached = own.detached
KeepsLine == own'.cs = own.cs
KeepsBuses == own'.spi = own.spi
KeepsIcm == own'.icm = own.icm /\ own'.oldIcm = own.oldIcm
KeepsBmi == own'.bmi = own.bmi /\ own'.gap = own.gap
SamePads == world'.pad = world.pad
SameDrivers == world'.bound = world.bound
SameLines == world'.out = world.out /\ world'.low = world.low
SameBuses == world'.spi = world.spi
SameIcm == world'.icm = world.icm /\ world'.bank = world.bank
SameBmi == world'.bmi = world.bmi
\* The bookkeeping of the cleanup is a matter of its own.
KeepsCarrier == KeepsLock /\ KeepsPads /\ KeepsList /\ KeepsLine
SameCarrier == SamePads /\ SameDrivers /\ SameLines
SameSensors == SameIcm /\ SameBmi
KeepsSensors == KeepsIcm /\ KeepsBmi
aside == <<interrupted, found, early, runs>>

\* The try block is left, or the cleanup goes on.
Quits == /\ pc' = "stopBmi" /\ plan' = <<"failed">> /\ ~report'.sick
         /\ report'.ok = report.ok /\ report'.rc = report.rc
         /\ report'.errors = report.errors /\ report'.masked = report.masked
         /\ report' \in Reports /\ UNCHANGED aside
Continues(point) ==
  /\ pc' = point /\ UNCHANGED plan /\ report'.sick = report.sick
  /\ report'.ok = report.ok /\ report'.rc = report.rc
  /\ report'.masked = report.masked /\ (report.errors => report'.errors)
  /\ report' \in Reports /\ UNCHANGED aside

LEMMA RaiseQuits ==
  ASSUME report \in Reports, Raise
  PROVE  Quits
BY DEF Reports, Raise, Left, Goto, Quits, aside

LEMMA AttemptContinues ==
  ASSUME report \in Reports, NEW ok \in BOOLEAN, NEW point, Attempt(ok, point)
  PROVE  Continues(point) /\ (ok \/ report'.errors)
<1> DEFINE e == report.errors \/ ~ok
<1>1. report' = [report EXCEPT !.errors = e]
  BY DEF Attempt
<1>2. e \in BOOLEAN /\ (e <=> report.errors \/ ~ok)
  OBVIOUS
<1>3. pc' = point /\ UNCHANGED <<plan, interrupted, found, early, runs>>
  BY DEF Attempt, Goto
<1> HIDE DEF e
<1>4. report' \in Reports /\ (report'.errors <=> e)
  BY <1>1, <1>2 DEF Reports
<1>5. /\ report'.sick = report.sick /\ report'.ok = report.ok
      /\ report'.rc = report.rc /\ report'.masked = report.masked
  BY <1>1 DEF Reports
<1> QED
  BY <1>2, <1>3, <1>4, <1>5 DEF Continues, aside

(* A failed transfer to the BMI leaves one of these states.                *)
Fails(states) ==
  /\ Quits /\ world' \in Boards /\ world'.bmi \in states
  /\ SamePads /\ SameDrivers /\ world'.out = world.out /\ SameBuses /\ SameIcm

BmiStates == {"suspend", "asleep", "awake", "sampling"}
LEMMA BmiFailsFails ==
  ASSUME report \in Reports, world \in Boards, NEW states \in SUBSET BmiStates,
         BmiFails(states)
  PROVE  Fails(states)
<1>1. PICK m \in states, low \in BOOLEAN :
        Raise /\ world' = [world EXCEPT !.bmi = m, !.low = low]
  BY DEF BmiFails
<1>2. m \in BmiStates
  OBVIOUS
<1>3. /\ world' \in Boards /\ world'.bmi = m /\ world'.out = world.out
      /\ SamePads /\ SameDrivers /\ SameBuses /\ SameIcm
  BY <1>1, <1>2 DEF Boards, BmiStates, SamePads, SameDrivers, SameBuses, SameIcm
<1> QED
  BY <1>1, <1>3, RaiseQuits DEF Fails

-----------------------------------------------------------------------------
(* Taking the carrier.                                                     *)
Typed == Held /\ world \in Boards /\ report \in Reports
Goes(point) == pc' = point /\ UNCHANGED <<plan, report>> /\ UNCHANGED aside

LEMMA LockDoes ==
  ASSUME Typed, Lock
  PROVE  /\ Typed' /\ pc = "lock" /\ UNCHANGED world
         /\ KeepsPads /\ KeepsList /\ KeepsLine /\ KeepsBuses /\ KeepsSensors
         /\ Goes("users") \/ Quits
<1>1. CASE own' = [own EXCEPT !.lock = TRUE] /\ Go("users") /\ UNCHANGED world
  <2>1. Held'
    BY <1>1 DEF Typed, Held, Fields
  <2>2. /\ KeepsPads /\ KeepsList /\ KeepsLine /\ KeepsBuses /\ KeepsSensors
    BY <1>1 DEF Typed, Held, Fields, KeepsPads, KeepsList, KeepsLine, KeepsBuses,
       KeepsSensors, KeepsIcm, KeepsBmi
  <2> QED
    BY <1>1, <2>1, <2>2 DEF Lock, Go, Goto, Goes, aside, Typed
<1>2. CASE Throw
  BY <1>2, RaiseQuits DEF Lock, Throw, Typed, Held, Quits, KeepsPads, KeepsList,
     KeepsLine, KeepsBuses, KeepsSensors, KeepsIcm, KeepsBmi
<1> QED
  BY <1>1, <1>2 DEF Lock

LEMMA CheckUsersDoes ==
  ASSUME Typed, CheckUsers
  PROVE  /\ Typed' /\ pc = "users" /\ UNCHANGED <<own, world>>
         /\ Goes("pads") \/ Quits
BY RaiseQuits DEF CheckUsers, Go, Goto, Throw, Typed, Held, Goes, aside, Quits

LEMMA SavePadsDoes ==
  ASSUME Typed, SavePads
  PROVE  /\ Typed' /\ pc = "pads" /\ UNCHANGED world
         /\ KeepsLock /\ KeepsList /\ KeepsLine /\ KeepsBuses /\ KeepsSensors
         /\ own'.k = own.k /\ Len(own'.pads) \in 0 .. NPads
         /\ \A p \in 1 .. Len(own'.pads) : own'.pads[p] = world.pad[p]
         /\ (Len(own'.pads) = NPads /\ Goes("unbind")) \/ Quits
<1>1. PICK n \in 0 .. NPads :
        /\ own' = [own EXCEPT !.pads = [p \in 1 .. n |-> world.pad[p]]]
        /\ (n = NPads /\ Go("unbind")) \/ Raise
  BY DEF SavePads
<1> DEFINE read == [p \in 1 .. n |-> world.pad[p]]
<1>2. read \in Seq(Functions) /\ Len(read) = n
  BY CaptureAssumption DEF Typed, Boards, Pads
<1>3. \A p \in 1 .. Len(read) : read[p] = world.pad[p]
  BY <1>2
<1>0. own' = [own EXCEPT !.pads = read]
  BY <1>1
<1> HIDE DEF read
<1>4. Held' /\ own'.pads = read
  BY <1>0, <1>2 DEF Typed, Held, Fields
<1>5. /\ KeepsLock /\ KeepsList /\ KeepsLine /\ KeepsBuses /\ KeepsSensors
      /\ own'.k = own.k
  BY <1>1 DEF Typed, Held, Fields, KeepsLock, KeepsList, KeepsLine, KeepsBuses,
     KeepsSensors, KeepsIcm, KeepsBmi
<1>6. (n = NPads /\ Goes("unbind")) \/ Quits
  BY <1>1, RaiseQuits DEF Typed, Go, Goto, Goes, aside
<1>7. report' \in Reports
  BY <1>6 DEF Typed, Goes, Quits
<1> QED
  BY <1>2, <1>3, <1>4, <1>5, <1>6, <1>7 DEF SavePads, Typed

LEMMA UnbindDoes ==
  ASSUME Typed, NEW n \in Nodes, Unbind(n)
  PROVE  /\ Typed' /\ pc = "unbind"
         /\ KeepsLock /\ KeepsPads /\ KeepsLine /\ KeepsBuses /\ KeepsSensors
         /\ SamePads /\ SameLines /\ SameBuses /\ SameSensors
         /\ \/ /\ n \in world.bound /\ Goes("unbind")
               /\ world'.bound = world.bound \ {n}
               /\ own'.detached = own.detached \cup {n}
            \/ Quits /\ UNCHANGED <<own, world>>
<1>1. CASE Throw
  BY <1>1, RaiseQuits DEF Throw, Unbind, Typed, Held, Quits, KeepsLock, KeepsPads,
     KeepsLine, KeepsBuses, KeepsSensors, KeepsIcm, KeepsBmi, SamePads,
     SameLines, SameBuses, SameSensors, SameIcm, SameBmi
<1>2. CASE /\ n \in world.bound /\ Go("unbind")
           /\ world' = [world EXCEPT !.bound = @ \ {n}]
           /\ own' = [own EXCEPT !.detached = @ \cup {n}]
  <2>1. /\ Held' /\ own'.detached = own.detached \cup {n}
        /\ KeepsLock /\ KeepsPads /\ KeepsLine /\ KeepsBuses /\ KeepsSensors
    BY <1>2 DEF Typed, Held, Fields, KeepsLock, KeepsPads, KeepsLine, KeepsBuses,
       KeepsSensors, KeepsIcm, KeepsBmi
  <2>2. /\ world' \in Boards /\ world'.bound = world.bound \ {n}
        /\ SamePads /\ SameLines /\ SameBuses /\ SameSensors
    BY <1>2 DEF Typed, Boards, SamePads, SameLines, SameBuses, SameSensors,
       SameIcm, SameBmi
  <2> QED
    BY <1>2, <2>1, <2>2 DEF Unbind, Go, Goto, Goes, aside, Typed
<1> QED
  BY <1>1, <1>2 DEF Unbind

LEMMA RequestCsDoes ==
  ASSUME Typed, RequestCs
  PROVE  /\ Typed' /\ pc = "unbind" /\ own.detached = Nodes
         /\ KeepsLock /\ KeepsPads /\ KeepsList /\ KeepsBuses /\ KeepsSensors
         /\ SamePads /\ SameDrivers /\ SameBuses /\ SameSensors
         /\ \/ /\ ~world.out /\ world'.out /\ ~world'.low /\ own'.cs
               /\ Goes("mux") \/ Quits
            \/ Quits /\ UNCHANGED <<own, world>>
<1>1. CASE Throw
  BY <1>1, RaiseQuits DEF Throw, RequestCs, Typed, Held, Quits, KeepsLock, KeepsPads,
     KeepsList, KeepsBuses, KeepsSensors, KeepsIcm, KeepsBmi, SamePads,
     SameDrivers, SameBuses, SameSensors, SameIcm, SameBmi
<1>2. CASE /\ ~world.out /\ world' = [world EXCEPT !.out = TRUE, !.low = FALSE]
           /\ own' = [own EXCEPT !.cs = TRUE]
           /\ Go("mux") \/ Raise
  <2>0. Held' /\ own'.cs
    BY <1>2 DEF Typed, Held, Fields
  <2>1. KeepsLock /\ KeepsPads /\ KeepsList /\ KeepsBuses /\ KeepsSensors
    BY <1>2 DEF Typed, Held, Fields, KeepsLock, KeepsPads, KeepsList, KeepsBuses,
       KeepsSensors, KeepsIcm, KeepsBmi
  <2>2. /\ world' \in Boards /\ world'.out /\ ~world'.low
        /\ SamePads /\ SameDrivers /\ SameBuses /\ SameSensors
    BY <1>2 DEF Typed, Boards, SamePads, SameDrivers, SameBuses, SameSensors,
       SameIcm, SameBmi
  <2>3. Goes("mux") \/ Quits
    BY <1>2, RaiseQuits DEF Go, Goto, Goes, aside, Typed
  <2>4. report' \in Reports
    BY <2>3 DEF Typed, Goes, Quits
  <2> QED
    BY <1>2, <2>0, <2>1, <2>2, <2>3, <2>4 DEF RequestCs, Typed
<1> QED
  BY <1>1, <1>2 DEF RequestCs

LEMMA MuxPadDoes ==
  ASSUME Typed, MuxPad, own.k < NPads
  PROVE  /\ Typed' /\ pc = "mux" /\ own'.pads = own.pads /\ own'.k = own.k + 1
         /\ KeepsLock /\ KeepsList /\ KeepsLine /\ KeepsBuses /\ KeepsSensors
         /\ SameDrivers /\ SameLines /\ SameBuses /\ SameSensors
         /\ \A p \in Pads : p # own.k + 1 => world'.pad[p] = world.pad[p]
         /\ \/ Quits
            \/ Goes("spi") /\ own'.k = NPads
            \/ Goes("mux") /\ own'.k < NPads
<1> DEFINE p == own.k + 1
<1>1. p \in 1 .. NPads /\ p \in Pads
  BY CaptureAssumption DEF Typed, Held, Fields, Pads
<1> HIDE DEF p
<1>2. pc = "mux" /\ own' = [own EXCEPT !.k = p]
  BY DEF MuxPad, p
<1>3. /\ Held' /\ own'.pads = own.pads /\ own'.k = p
      /\ KeepsLock /\ KeepsList /\ KeepsLine /\ KeepsBuses /\ KeepsSensors
  BY <1>1, <1>2 DEF Typed, Held, Fields, KeepsLock, KeepsList, KeepsLine,
     KeepsBuses, KeepsSensors, KeepsIcm, KeepsBmi
<1>4. \/ world' = [world EXCEPT !.pad[p] = "imu"] \/ UNCHANGED world
  BY DEF MuxPad, p
<1>5. /\ world' \in Boards
      /\ SameDrivers /\ SameLines /\ SameBuses /\ SameSensors
      /\ \A q \in Pads : q # p => world'.pad[q] = world.pad[q]
  <2>1. CASE UNCHANGED world
    BY <2>1 DEF Typed, SameDrivers, SameLines, SameBuses, SameSensors, SameIcm,
       SameBmi
  <2>2. CASE world' = [world EXCEPT !.pad[p] = "imu"]
    <3>1. [world.pad EXCEPT ![p] = "imu"] \in [Pads -> Functions]
      BY <1>1 DEF Typed, Boards, Functions
    <3>2. world' = [world EXCEPT !.pad = [world.pad EXCEPT ![p] = "imu"]]
      BY <2>2
    <3>3. /\ world' \in Boards /\ world'.pad = [world.pad EXCEPT ![p] = "imu"]
          /\ SameDrivers /\ SameLines /\ SameBuses /\ SameSensors
      BY <3>1, <3>2 DEF Typed, Boards, SameDrivers, SameLines, SameBuses,
         SameSensors, SameIcm, SameBmi
    <3>4. \A q \in Pads : q # p => world'.pad[q] = world.pad[q]
      BY <1>1, <3>3 DEF Typed, Boards
    <3> QED
      BY <3>3, <3>4
  <2> QED
    BY <1>4, <2>1, <2>2
<1>6. \/ Quits \/ (Goes("spi") /\ p = NPads) \/ (Goes("mux") /\ p # NPads)
  <2>1. Go(IF p = NPads THEN "spi" ELSE "mux") \/ Raise
    BY DEF MuxPad, p
  <2> QED
    BY <2>1, RaiseQuits DEF Go, Goto, Goes, aside, Typed
<1>7. report' \in Reports
  BY <1>6 DEF Typed, Goes, Quits
<1>8. p = own.k + 1
  BY DEF p
<1>9. p # NPads => p < NPads
  BY <1>1, CaptureAssumption
<1> QED
  BY <1>2, <1>3, <1>5, <1>6, <1>7, <1>8, <1>9 DEF Typed

LEMMA OpenSpiDoes ==
  ASSUME Typed, NEW s \in Buses, OpenSpi(s)
  PROVE  /\ Typed' /\ pc = "spi" /\ s \notin DOMAIN own.spi
         /\ KeepsCarrier /\ KeepsSensors /\ SameCarrier /\ SameSensors
         /\ \A b \in Buses : b # s => world'.spi[b] = world.spi[b]
         /\ \/ /\ DOMAIN own'.spi = DOMAIN own.spi \cup {s}
               /\ own'.spi[s] = world.spi[s]
               /\ \A b \in DOMAIN own.spi : own'.spi[b] = own.spi[b]
               /\ Goes("identify") \/ Goes("spi")
            \/ UNCHANGED <<own, world>> /\ Quits
            \/ /\ UNCHANGED own /\ pc' = "stopBmi" /\ plan' = <<"failed">>
               /\ report'.sick = report.sick /\ report'.ok = report.ok
               /\ report'.rc = report.rc /\ report'.errors = report.errors
               /\ report'.masked /\ UNCHANGED aside
<1>1. pc = "spi" /\ s \notin DOMAIN own.spi
  BY DEF OpenSpi, Buses
<1>2. CASE Throw
  BY <1>1, <1>2, RaiseQuits DEF Throw, Typed, Held, Quits, KeepsCarrier, KeepsLock,
     KeepsPads, KeepsList, KeepsLine, KeepsSensors, KeepsIcm, KeepsBmi,
     SameCarrier, SamePads, SameDrivers, SameLines, SameSensors, SameIcm, SameBmi
<1>3. ASSUME world' = [world EXCEPT !.spi[s] = "imu"]
      PROVE  /\ world' \in Boards /\ SameCarrier /\ SameSensors
             /\ \A b \in Buses : b # s => world'.spi[b] = world.spi[b]
  <2>1. [world.spi EXCEPT ![s] = "imu"] \in [Buses -> Functions]
    BY DEF Typed, Boards, Functions
  <2>2. world' = [world EXCEPT !.spi = [world.spi EXCEPT ![s] = "imu"]]
    BY <1>3
  <2>3. /\ world' \in Boards /\ SameCarrier /\ SameSensors
        /\ world'.spi = [world.spi EXCEPT ![s] = "imu"]
    BY <2>1, <2>2 DEF Typed, Boards, SameCarrier, SamePads, SameDrivers,
       SameLines, SameSensors, SameIcm, SameBmi
  <2> QED
    BY <2>3 DEF Typed, Boards
<1>4. CASE /\ own' = [own EXCEPT !.spi = [b \in DOMAIN @ \cup {s} |->
                                         IF b = s THEN world.spi[s] ELSE @[b]]]
           /\ world' = [world EXCEPT !.spi[s] = "imu"]
           /\ Go(IF s = "bmi" THEN "identify" ELSE "spi")
  <2> DEFINE settings == [b \in DOMAIN own.spi \cup {s} |->
                            IF b = s THEN world.spi[s] ELSE own.spi[b]]
  <2>1. own.spi \in Settings /\ world.spi[s] \in Functions
    BY DEF Typed, Held, Fields, Boards
  <2>2. PICK S \in SUBSET Buses : own.spi \in [S -> Functions]
    BY <2>1 DEF Settings
  <2>3. settings \in [S \cup {s} -> Functions] /\ S \cup {s} \in SUBSET Buses
    BY <2>1, <2>2
  <2>4. settings \in Settings
    BY <2>3 DEF Settings
  <2>5. /\ DOMAIN settings = DOMAIN own.spi \cup {s}
        /\ settings[s] = world.spi[s]
        /\ \A b \in DOMAIN own.spi : settings[b] = own.spi[b]
    BY <1>1
  <2>6. own' = [own EXCEPT !.spi = settings]
    BY <1>4
  <2> HIDE DEF settings
  <2>7. /\ Held' /\ KeepsCarrier /\ KeepsSensors
        /\ own'.spi = settings
    BY <2>4, <2>6 DEF Typed, Held, Fields, KeepsCarrier, KeepsLock, KeepsPads,
       KeepsList, KeepsLine, KeepsSensors, KeepsIcm, KeepsBmi
  <2>8. Goes("identify") \/ Goes("spi")
    BY <1>4 DEF Go, Goto, Goes, aside
  <2> QED
    BY <1>1, <1>3, <1>4, <2>5, <2>7, <2>8 DEF Typed, Goes
<1>5. CASE /\ world' = [world EXCEPT !.spi[s] = "imu"] /\ UNCHANGED own
           /\ Left /\ report' = [report EXCEPT !.masked = TRUE]
  <2>1. /\ report' \in Reports
        /\ report'.sick = report.sick /\ report'.ok = report.ok
        /\ report'.rc = report.rc /\ report'.errors = report.errors
        /\ report'.masked
    BY <1>5 DEF Typed, Reports
  <2>2. KeepsCarrier /\ KeepsSensors
    BY <1>5 DEF KeepsCarrier, KeepsLock, KeepsPads, KeepsList, KeepsLine,
       KeepsSensors, KeepsIcm, KeepsBmi
  <2> QED
    BY <1>1, <1>3, <1>5, <2>1, <2>2 DEF Typed, Held, Left, Goto, aside
<1> QED
  BY <1>2, <1>4, <1>5 DEF OpenSpi

-----------------------------------------------------------------------------
(* The sensors and the capture.                                            *)
LEMMA IdentifyDoes ==
  ASSUME Typed, Identify
  PROVE  /\ Typed' /\ pc = "identify" /\ UNCHANGED own
         /\ \/ /\ plan' \in Plans /\ UNCHANGED <<world, report>>
               /\ pc' = (IF plan' = <<>> THEN "plan" ELSE "icmCheck")
               /\ UNCHANGED aside
            \/ Fails({world.bmi})
<1>1. {world.bmi} \in SUBSET BmiStates
  BY DEF Typed, Boards, BmiStates
<1>2. CASE BmiFails({world.bmi})
  BY <1>1, <1>2, BmiFailsFails DEF Identify, Typed, Held, Fails, Quits
<1>3. CASE ~BmiFails({world.bmi})
  BY <1>3 DEF Identify, Typed, Held, Goto, aside
<1> QED
  BY <1>2, <1>3

LEMMA IcmCheckDoes ==
  ASSUME Typed, IcmCheck
  PROVE  /\ Typed' /\ pc = "icmCheck" /\ UNCHANGED world
         /\ KeepsCarrier /\ KeepsBuses /\ KeepsBmi /\ own'.icm = own.icm
         /\ \/ /\ world.bank = 0 /\ world.icm # "sampling"
               /\ own'.oldIcm = world.icm /\ Goes("icmConfigure")
            \/ UNCHANGED own /\ Quits
<1> USE DEF KeepsCarrier, KeepsLock, KeepsPads, KeepsList, KeepsLine,
            KeepsBuses, KeepsBmi
<1>1. CASE Throw
  BY <1>1, RaiseQuits DEF Throw, IcmCheck, Typed, Held, Quits
<1>2. CASE /\ world.bank = 0 /\ world.icm # "sampling" /\ Go("icmConfigure")
           /\ UNCHANGED world /\ own' = [own EXCEPT !.oldIcm = world.icm]
  <2>1. world.icm \in {"rest", "mixed"}
    BY <1>2 DEF Typed, Boards
  <2>2. Held' /\ own'.oldIcm = world.icm
    BY <1>2, <2>1 DEF Typed, Held, Fields
  <2>3. KeepsCarrier /\ KeepsBuses /\ KeepsBmi /\ own'.icm = own.icm
    BY <1>2 DEF Typed, Held, Fields
  <2> QED
    BY <1>2, <2>2, <2>3 DEF IcmCheck, Go, Goto, Goes, aside, Typed
<1> QED
  BY <1>1, <1>2 DEF IcmCheck

\* A write to the ICM reaches its registers or not.
LEMMA IcmSet ==
  ASSUME Typed, NEW i \in {"mixed", "sampling"},
         world' = [world EXCEPT !.icm = i] \/ UNCHANGED world
  PROVE  /\ world' \in Boards /\ SameCarrier /\ SameBuses /\ SameBmi
         /\ world'.bank = world.bank
BY DEF Typed, Boards, SameCarrier, SamePads, SameDrivers, SameLines, SameBuses,
   SameBmi

LEMMA IcmConfigureDoes ==
  ASSUME Typed, IcmConfigure
  PROVE  /\ Typed' /\ pc = "icmConfigure" /\ own'.icm /\ own'.oldIcm = own.oldIcm
         /\ KeepsCarrier /\ KeepsBuses /\ KeepsBmi
         /\ SameCarrier /\ SameBuses /\ SameBmi /\ world'.bank = world.bank
         /\ Goes("icmStart") \/ Quits
<1>1. own' = [own EXCEPT !.icm = TRUE]
  BY DEF IcmConfigure
<1>2. /\ Held' /\ own'.icm /\ own'.oldIcm = own.oldIcm
      /\ KeepsCarrier /\ KeepsBuses /\ KeepsBmi
  BY <1>1 DEF Typed, Held, Fields, KeepsCarrier, KeepsLock, KeepsPads,
     KeepsList, KeepsLine, KeepsBuses, KeepsBmi
<1>3. world' = [world EXCEPT !.icm = "mixed"] \/ UNCHANGED world
  BY DEF IcmConfigure
<1>4. Goes("icmStart") \/ Quits
  BY RaiseQuits DEF IcmConfigure, Go, Goto, Goes, aside, Typed
<1>5. report' \in Reports
  BY <1>4 DEF Typed, Goes, Quits
<1> QED
  BY <1>2, <1>3, <1>4, <1>5, IcmSet DEF Typed, IcmConfigure

LEMMA IcmStartDoes ==
  ASSUME Typed, IcmStart
  PROVE  /\ Typed' /\ pc = "icmStart" /\ UNCHANGED own
         /\ SameCarrier /\ SameBuses /\ SameBmi /\ world'.bank = world.bank
         /\ Goes("icmBank4") \/ Quits
<1>1. world' = [world EXCEPT !.icm = "sampling"] \/ UNCHANGED world
  BY DEF IcmStart
<1>2. Goes("icmBank4") \/ Quits
  BY RaiseQuits DEF IcmStart, Go, Goto, Goes, aside, Typed
<1>3. Held' /\ report' \in Reports
  BY <1>2 DEF Typed, Held, Goes, Quits, IcmStart
<1> QED
  BY <1>1, <1>2, <1>3, IcmSet DEF Typed, IcmStart

LEMMA BankSet ==
  ASSUME Typed, NEW b \in {0, 4},
         world' = [world EXCEPT !.bank = b] \/ UNCHANGED world
  PROVE  /\ world' \in Boards /\ SameCarrier /\ SameBuses /\ SameBmi
         /\ world'.icm = world.icm
BY DEF Typed, Boards, SameCarrier, SamePads, SameDrivers, SameLines, SameBuses,
   SameBmi

LEMMA IcmBank4Does ==
  ASSUME Typed, IcmBank4
  PROVE  /\ Typed' /\ pc = "icmBank4" /\ UNCHANGED own
         /\ SameCarrier /\ SameBuses /\ SameBmi /\ world'.icm = world.icm
         /\ Goes("icmOffsets") \/ Quits
<1>1. world' = [world EXCEPT !.bank = 4] \/ UNCHANGED world
  BY DEF IcmBank4, Throw
<1>2. Goes("icmOffsets") \/ Quits
  BY RaiseQuits DEF IcmBank4, Throw, Go, Goto, Goes, aside, Typed
<1>3. Held' /\ report' \in Reports
  BY <1>2 DEF Typed, Held, Goes, Quits, IcmBank4
<1> QED
  BY <1>1, <1>2, <1>3, BankSet DEF Typed, IcmBank4

LEMMA IcmOffsetsDoes ==
  ASSUME Typed, IcmOffsets
  PROVE  /\ Typed' /\ pc = "icmOffsets" /\ UNCHANGED own
         /\ SameCarrier /\ SameBuses /\ SameBmi /\ world'.icm = world.icm
         /\ (Goes("bmiCheck") /\ world'.bank = 0) \/ Quits
<1>1. world' = [world EXCEPT !.bank = 0] \/ UNCHANGED world
  BY DEF IcmOffsets, Throw
<1>2. (Goes("bmiCheck") /\ world' = [world EXCEPT !.bank = 0]) \/ Quits
  BY RaiseQuits DEF IcmOffsets, Throw, Go, Goto, Goes, aside, Typed
<1>3. world' = [world EXCEPT !.bank = 0] => world'.bank = 0
  BY DEF Typed, Boards
<1>4. Held' /\ report' \in Reports
  BY <1>2 DEF Typed, Held, Goes, Quits, IcmOffsets
<1> QED
  BY <1>1, <1>2, <1>3, <1>4, BankSet DEF Typed, IcmOffsets

LEMMA BmiCheckDoes ==
  ASSUME Typed, BmiCheck
  PROVE  /\ Typed' /\ pc = "bmiCheck" /\ UNCHANGED own
         /\ \/ world.bmi = "suspend" /\ Goes("bmiLoad") /\ UNCHANGED world
            \/ Fails({world.bmi})
<1>1. {world.bmi} \in SUBSET BmiStates
  BY DEF Typed, Boards, BmiStates
<1>2. CASE BmiFails({world.bmi})
  BY <1>1, <1>2, BmiFailsFails DEF BmiCheck, Typed, Held, Fails, Quits
<1>3. CASE ~BmiFails({world.bmi})
  BY <1>3 DEF BmiCheck, Typed, Held, Go, Goto, Goes, aside
<1> QED
  BY <1>2, <1>3

\* A transfer to the BMI that succeeds.
LEMMA BmiReached ==
  ASSUME Typed, NEW m \in BmiStates, world' = [world EXCEPT !.bmi = m]
  PROVE  /\ world' \in Boards /\ world'.bmi = m /\ SameCarrier /\ SameBuses
         /\ SameIcm
BY DEF Typed, Boards, BmiStates, SameCarrier, SamePads, SameDrivers, SameLines,
   SameBuses, SameIcm

LEMMA BmiLoadDoes ==
  ASSUME Typed, BmiLoad
  PROVE  /\ Typed' /\ pc = "bmiLoad" /\ own'.bmi /\ own'.gap = own.gap
         /\ KeepsCarrier /\ KeepsBuses /\ KeepsIcm
         /\ \/ /\ world'.bmi = "asleep" /\ SameCarrier /\ SameBuses /\ SameIcm
               /\ Goes("bmiWake")
            \/ Fails({"suspend", "asleep"})
<1>1. pc = "bmiLoad" /\ own' = [own EXCEPT !.bmi = TRUE]
  BY DEF BmiLoad
<1>2. /\ Held' /\ own'.bmi /\ own'.gap = own.gap
      /\ KeepsCarrier /\ KeepsBuses /\ KeepsIcm
  BY <1>1 DEF Typed, Held, Fields, KeepsCarrier, KeepsLock, KeepsPads,
     KeepsList, KeepsLine, KeepsBuses, KeepsIcm
<1>3. {"suspend", "asleep"} \in SUBSET BmiStates /\ "asleep" \in BmiStates
  BY DEF BmiStates
<1>4. CASE BmiFails({"suspend", "asleep"})
  BY <1>1, <1>2, <1>3, <1>4, BmiFailsFails DEF Typed, Fails, Quits
<1>5. CASE world' = [world EXCEPT !.bmi = "asleep"] /\ Go("bmiWake")
  <2>1. Goes("bmiWake")
    BY <1>5 DEF Go, Goto, Goes, aside
  <2> QED
    BY <1>1, <1>2, <1>3, <1>5, <2>1, BmiReached DEF Typed, Goes
<1> QED
  BY <1>4, <1>5 DEF BmiLoad

LEMMA BmiWakeDoes ==
  ASSUME Typed, BmiWake
  PROVE  /\ Typed' /\ pc = "bmiWake"
         /\ KeepsCarrier /\ KeepsBuses /\ KeepsIcm /\ own'.bmi = own.bmi
         /\ \/ /\ own'.gap = 2 /\ world'.bmi = "awake"
               /\ SameCarrier /\ SameBuses /\ SameIcm /\ Goes("bmiStart")
            \/ Fails({"asleep", "awake"}) /\ UNCHANGED own
<1>1. {"asleep", "awake"} \in SUBSET BmiStates /\ "awake" \in BmiStates
  BY DEF BmiStates
<1>2. CASE BmiFails({"asleep", "awake"}) /\ UNCHANGED own
  BY <1>1, <1>2, BmiFailsFails DEF BmiWake, Typed, Held, Fails, Quits,
     KeepsCarrier, KeepsLock, KeepsPads, KeepsList, KeepsLine, KeepsBuses,
     KeepsIcm
<1>3. CASE /\ world' = [world EXCEPT !.bmi = "awake"] /\ Go("bmiStart")
           /\ own' = [own EXCEPT !.gap = 2]
  <2>1. /\ Held' /\ own'.gap = 2 /\ own'.bmi = own.bmi
        /\ KeepsCarrier /\ KeepsBuses /\ KeepsIcm
    BY <1>3 DEF Typed, Held, Fields, KeepsCarrier, KeepsLock, KeepsPads,
       KeepsList, KeepsLine, KeepsBuses, KeepsIcm
  <2>2. Goes("bmiStart")
    BY <1>3 DEF Go, Goto, Goes, aside
  <2> QED
    BY <1>1, <1>3, <2>1, <2>2, BmiReached DEF BmiWake, Typed, Goes
<1> QED
  BY <1>2, <1>3 DEF BmiWake

LEMMA BmiStartDoes ==
  ASSUME Typed, BmiStart
  PROVE  /\ Typed' /\ pc = "bmiStart" /\ UNCHANGED own
         /\ \/ /\ world'.bmi = "sampling" /\ SameCarrier /\ SameBuses /\ SameIcm
               /\ Goes("plan")
            \/ Fails({"awake", "sampling"})
<1>1. {"awake", "sampling"} \in SUBSET BmiStates /\ "sampling" \in BmiStates
  BY DEF BmiStates
<1>2. CASE BmiFails({"awake", "sampling"})
  BY <1>1, <1>2, BmiFailsFails DEF BmiStart, Typed, Held, Fails, Quits
<1>3. CASE world' = [world EXCEPT !.bmi = "sampling"] /\ Go("plan")
  <2>1. Goes("plan")
    BY <1>3 DEF Go, Goto, Goes, aside
  <2> QED
    BY <1>1, <1>3, <2>1, BmiReached DEF BmiStart, Typed, Held, Goes
<1> QED
  BY <1>2, <1>3 DEF BmiStart

\* The verdict stays as it is; a sample may have been bad.
SameVerdict ==
  /\ report'.ok = report.ok /\ report'.errors = report.errors
  /\ report'.masked = report.masked /\ report'.rc = report.rc

LEMMA PollDoes ==
  ASSUME Typed, Poll
  PROVE  /\ Typed' /\ pc = "poll" /\ UNCHANGED own
         /\ \/ /\ pc' = "poll" /\ UNCHANGED <<plan, world>> /\ UNCHANGED aside
               /\ SameVerdict
            \/ Fails({world.bmi})
<1>1. {world.bmi} \in SUBSET BmiStates
  BY DEF Typed, Boards, BmiStates
<1>2. CASE BmiFails({world.bmi})
  BY <1>1, <1>2, BmiFailsFails DEF Poll, Typed, Held, Fails, Quits
<1>3. CASE ~BmiFails({world.bmi})
  <2>1. PICK bad \in BOOLEAN :
          /\ Goto("poll") /\ UNCHANGED <<plan, world>>
          /\ report' = [report EXCEPT !.sick = @ \/ bad]
    BY <1>3 DEF Poll
  <2>2. SameVerdict /\ report' \in Reports
    BY <2>1 DEF Typed, Reports, SameVerdict
  <2> QED
    BY <2>1, <2>2 DEF Poll, Typed, Held, Goto, aside
<1> QED
  BY <1>2, <1>3

LEMMA BeginPhaseDoes ==
  ASSUME Typed, BeginPhase
  PROVE  /\ Typed' /\ pc = "plan" /\ UNCHANGED <<own, world>>
         /\ \/ /\ pc' = "poll" /\ UNCHANGED plan /\ plan # <<>>
               /\ UNCHANGED aside /\ SameVerdict /\ ~report'.sick
            \/ Quits
<1>1. ASSUME report' = [report EXCEPT !.sick = FALSE]
      PROVE  report' \in Reports /\ SameVerdict /\ ~report'.sick
  <2>1. report \in Reports
    BY DEF Typed
  <2>2. report' \in Reports /\ ~report'.sick
    BY <1>1, <2>1 DEF Reports
  <2>3. SameVerdict
    BY <1>1, <2>1 DEF Reports, SameVerdict
  <2> QED
    BY <2>2, <2>3
<1>2. plan # <<>>
  BY DEF BeginPhase, Ahead, Phases
<1> QED
  BY <1>1, <1>2, RaiseQuits DEF BeginPhase, Goto, aside, Typed, Held, Quits

\* Goes on with the plan, after one of its parts.
Proceeds == /\ pc' = "plan" /\ plan' = Tail(plan) /\ UNCHANGED report
            /\ UNCHANGED aside
LEMMA EndPhaseDoes ==
  ASSUME Typed, EndPhase
  PROVE  /\ Typed' /\ pc = "poll" /\ UNCHANGED <<own, world>>
         /\ (~report.sick /\ Proceeds) \/ Quits
BY RaiseQuits DEF EndPhase, Done, Goto, aside, Proceeds, Typed, Held, Quits

LEMMA PartsDo ==
  ASSUME Typed, Estimate \/ UseProfile \/ StaticValidation
  PROVE  /\ Typed' /\ pc = "plan" /\ UNCHANGED <<own, world>>
         /\ (plan # <<>> /\ Proceeds) \/ Quits
BY RaiseQuits DEF Estimate, UseProfile, StaticValidation, Ahead, Done, Goto,
   aside, Proceeds, Typed, Held, Quits

LEMMA FinishDoes ==
  ASSUME Typed, Finish
  PROVE  /\ Typed' /\ pc = "plan" /\ Ahead = "end" /\ pc' = "stopBmi"
         /\ UNCHANGED <<plan, own, world>> /\ UNCHANGED aside
         /\ (report'.ok <=> ~interrupted) /\ report'.sick = report.sick
         /\ report'.errors = report.errors /\ report'.masked = report.masked
         /\ report'.rc = report.rc
<1>1. report' = [report EXCEPT !.ok = ~interrupted]
  BY DEF Finish
<1>2. report' \in Reports
  BY <1>1 DEF Typed, Reports
<1>3. /\ (report'.ok <=> ~interrupted) /\ report'.sick = report.sick
      /\ report'.errors = report.errors /\ report'.masked = report.masked
      /\ report'.rc = report.rc
  BY <1>1 DEF Typed, Reports
<1> QED
  BY <1>2, <1>3 DEF Finish, Goto, aside, Typed, Held

(* A process that starts holds nothing. *)
LEMMA NothingHeld == own' = Nothing => Held'
<1>1. <<>> \in Settings
  <2>1. <<>> \in [{} -> Functions]
    OBVIOUS
  <2> QED
    BY <2>1 DEF Settings
<1>2. <<>> \in Seq(Functions) /\ 0 \in 0 .. NPads
  BY CaptureAssumption
<1> QED
  BY <1>1, <1>2 DEF Held, Fields, Nothing

-----------------------------------------------------------------------------
(* The cleanup.                                                            *)
LEMMA StopBmiDoes ==
  ASSUME Typed, StopBmi
  PROVE  /\ Typed' /\ KeepsCarrier /\ KeepsBuses /\ KeepsIcm
         /\ SamePads /\ SameDrivers /\ world'.out = world.out /\ SameBuses
         /\ SameIcm
         /\ \/ pc = "stopBmi" /\ Continues("stopIcm")
            \/ pc = "retryBmi" /\ Continues("retryIcm")
         /\ \/ /\ ~own.bmi /\ ~own'.bmi /\ UNCHANGED world
               /\ own'.gap = own.gap
            \/ /\ own.bmi /\ ~own'.bmi /\ own'.gap = 450
               /\ world'.bmi = "suspend" /\ ~world'.low
            \/ /\ own.bmi /\ own'.bmi /\ own'.gap = 450
               /\ world'.bmi \in {world.bmi, "suspend"}
               /\ pc = "stopBmi" => report'.errors
<1>1. PICK s \in Stops : \E ok \in {TRUE, ~own.bmi} :
    /\ pc = s[1] /\ Attempt(ok \/ s[1] = "retryBmi", s[2])
    /\ own' = [own EXCEPT !.bmi = @ /\ ~ok,
                          !.gap = IF own.bmi THEN 450 ELSE @]
    /\ \/ ~own.bmi /\ UNCHANGED world
       \/ ok /\ own.bmi /\ world' = [world EXCEPT !.bmi = "suspend", !.low = FALSE]
       \/ \E m \in {world.bmi, "suspend"}, low \in BOOLEAN :
            ~ok /\ world' = [world EXCEPT !.bmi = m, !.low = low]
  BY DEF StopBmi
<1>2. PICK ok \in {TRUE, ~own.bmi} :
    /\ pc = s[1] /\ Attempt(ok \/ s[1] = "retryBmi", s[2])
    /\ own' = [own EXCEPT !.bmi = @ /\ ~ok,
                          !.gap = IF own.bmi THEN 450 ELSE @]
    /\ \/ ~own.bmi /\ UNCHANGED world
       \/ ok /\ own.bmi /\ world' = [world EXCEPT !.bmi = "suspend", !.low = FALSE]
       \/ \E m \in {world.bmi, "suspend"}, low \in BOOLEAN :
            ~ok /\ world' = [world EXCEPT !.bmi = m, !.low = low]
  BY <1>1
<1>3. /\ Held' /\ KeepsCarrier /\ KeepsBuses /\ KeepsIcm
      /\ (own'.bmi <=> own.bmi /\ ~ok)
      /\ own'.gap = IF own.bmi THEN 450 ELSE own.gap
  <2> DEFINE b == own.bmi /\ ~ok
             g == IF own.bmi THEN 450 ELSE own.gap
  <2>1. own' = [own EXCEPT !.bmi = b, !.gap = g]
    BY <1>2 DEF Typed, Held, Fields
  <2>2. g \in {2, 450}
    BY DEF Typed, Held
  <2> HIDE DEF b, g
  <2>3. Held' /\ own'.gap = g /\ (own'.bmi <=> b)
    BY <2>1, <2>2 DEF Typed, Held, Fields
  <2>4. KeepsCarrier /\ KeepsBuses /\ KeepsIcm
    BY <2>1 DEF Typed, Held, Fields, KeepsCarrier, KeepsLock, KeepsPads,
       KeepsList, KeepsLine, KeepsBuses, KeepsIcm
  <2> QED
    BY <2>3, <2>4 DEF b, g
<1>4. /\ \/ pc = "stopBmi" /\ Continues("stopIcm")
         \/ pc = "retryBmi" /\ Continues("retryIcm")
      /\ pc = "stopBmi" => ok \/ report'.errors
  <2>1. s = <<"stopBmi", "stopIcm">> \/ s = <<"retryBmi", "retryIcm">>
    BY DEF Stops
  <2> DEFINE e == ok \/ s[1] = "retryBmi"
  <2>2. e \in BOOLEAN
    OBVIOUS
  <2>3. Attempt(e, s[2])
    BY <1>2
  <2>4. pc = s[1] /\ (e => ok \/ pc = "retryBmi")
    BY <1>2
  <2> HIDE DEF e
  <2>5. Continues(s[2]) /\ (e \/ report'.errors)
    BY <2>2, <2>3, AttemptContinues DEF Typed
  <2> QED
    BY <2>1, <2>4, <2>5
<1>5. /\ world' \in Boards /\ SamePads /\ SameDrivers /\ world'.out = world.out
      /\ SameBuses /\ SameIcm
      /\ \/ ~own.bmi /\ UNCHANGED world
         \/ own.bmi /\ ok /\ world'.bmi = "suspend" /\ ~world'.low
         \/ ~ok /\ world'.bmi \in {world.bmi, "suspend"}
  <2> USE DEF SamePads, SameDrivers, SameBuses, SameIcm
  <2>1. CASE ~own.bmi /\ UNCHANGED world
    BY <2>1 DEF Typed
  <2>2. CASE /\ ok /\ own.bmi
             /\ world' = [world EXCEPT !.bmi = "suspend", !.low = FALSE]
    BY <2>2 DEF Typed, Boards
  <2>3. ASSUME NEW m \in {world.bmi, "suspend"}, NEW low \in BOOLEAN, ~ok,
               world' = [world EXCEPT !.bmi = m, !.low = low]
        PROVE  /\ world' \in Boards /\ SamePads /\ SameDrivers
               /\ world'.out = world.out /\ SameBuses /\ SameIcm
               /\ world'.bmi \in {world.bmi, "suspend"}
    <3>1. m \in BmiStates
      BY DEF Typed, Boards, BmiStates
    <3> QED
      BY <2>3, <3>1 DEF Typed, Boards, BmiStates
  <2> QED
    BY <1>2, <2>1, <2>2, <2>3
<1> QED
  BY <1>3, <1>4, <1>5 DEF Typed, Continues

LEMMA StopIcmDoes ==
  ASSUME Typed, StopIcm
  PROVE  /\ Typed' /\ own.icm /\ own'.oldIcm = own.oldIcm
         /\ KeepsCarrier /\ KeepsBuses /\ KeepsBmi
         /\ SameCarrier /\ SameBuses /\ SameBmi /\ world'.bank = world.bank
         /\ \/ pc = "stopIcm" /\ pc' = "retryBmi"
            \/ pc = "retryIcm" /\ pc' = "closeSpi"
         /\ UNCHANGED plan /\ UNCHANGED aside /\ report'.sick = report.sick
         /\ report'.ok = report.ok /\ report'.rc = report.rc
         /\ report.errors => report'.errors
         /\ report'.masked <=> report.masked \/ (~own'.icm /\ world.bank # 0)
         /\ \/ /\ ~own'.icm /\ (world.bank = 0 => world'.icm = own.oldIcm)
               /\ world.bank # 0 => UNCHANGED world
            \/ own'.icm /\ (pc = "stopIcm" => report'.errors)
<1>1. PICK point \in {"stopIcm", "retryIcm"}, ok \in BOOLEAN :
    /\ pc = point /\ own.icm
    /\ IcmStopped(ok) /\ own' = [own EXCEPT !.icm = ~ok]
    /\ Goto(IF point = "stopIcm" THEN "retryBmi" ELSE "closeSpi")
    /\ UNCHANGED plan
    /\ report' = [report EXCEPT
         !.errors = @ \/ (~ok /\ point = "stopIcm"),
         !.masked = @ \/ (ok /\ world.bank # 0)]
  BY DEF StopIcm
<1>2. /\ Held' /\ KeepsCarrier /\ KeepsBuses /\ KeepsBmi
      /\ (own'.icm <=> ~ok) /\ own'.oldIcm = own.oldIcm
  BY <1>1 DEF Typed, Held, Fields, KeepsCarrier, KeepsLock, KeepsPads,
     KeepsList, KeepsLine, KeepsBuses, KeepsBmi
<1> DEFINE e == report.errors \/ (~ok /\ point = "stopIcm")
           m == report.masked \/ (ok /\ world.bank # 0)
<1>0. e \in BOOLEAN /\ m \in BOOLEAN
  OBVIOUS
<1>8. report' = [report EXCEPT !.errors = e, !.masked = m]
  BY <1>1
<1> HIDE DEF e, m
<1>3. /\ report' \in Reports /\ report'.sick = report.sick
      /\ report'.ok = report.ok /\ report'.rc = report.rc
      /\ (report'.errors <=> e) /\ (report'.masked <=> m)
  BY <1>0, <1>8 DEF Typed, Reports
<1>4. /\ report'.errors <=> report.errors \/ (~ok /\ pc = "stopIcm")
      /\ report'.masked <=> report.masked \/ (~own'.icm /\ world.bank # 0)
  BY <1>1, <1>2, <1>3 DEF e, m
<1>5. /\ world' \in Boards /\ SameCarrier /\ SameBuses /\ SameBmi
      /\ world'.bank = world.bank
      /\ ok /\ world.bank = 0 => world'.icm = own.oldIcm
      /\ ok /\ world.bank # 0 => UNCHANGED world
  <2>1. CASE world.bank # 0
    BY <1>1, <2>1 DEF IcmStopped, Typed, SameCarrier, SamePads, SameDrivers,
       SameLines, SameBuses, SameBmi
  <2>2. CASE world.bank = 0
    <3>1. PICK i \in (IF ok THEN {own.oldIcm}
                      ELSE {world.icm, "mixed", "rest", own.oldIcm}) :
            world' = [world EXCEPT !.icm = i]
      BY <1>1, <2>2 DEF IcmStopped
    <3>2. i \in {"rest", "mixed", "sampling"} /\ (ok => i = own.oldIcm)
      BY <3>1 DEF Typed, Held, Boards
    <3> QED
      BY <2>2, <3>1, <3>2 DEF Typed, Boards, SameCarrier, SamePads,
         SameDrivers, SameLines, SameBuses, SameBmi
  <2> QED
    BY <2>1, <2>2
<1>6. /\ \/ pc = "stopIcm" /\ pc' = "retryBmi"
         \/ pc = "retryIcm" /\ pc' = "closeSpi"
      /\ UNCHANGED plan /\ UNCHANGED aside
  BY <1>1 DEF Goto, aside
<1>7. own.icm
  BY <1>1
<1>9. \/ /\ ~own'.icm /\ (world.bank = 0 => world'.icm = own.oldIcm)
         /\ world.bank # 0 => UNCHANGED world
      \/ own'.icm /\ (pc = "stopIcm" => report'.errors)
  <2>1. CASE ok
    BY <1>2, <1>5, <2>1
  <2>2. CASE ~ok
    BY <1>2, <1>4, <2>2
  <2> QED
    BY <2>1, <2>2
<1>10. report.errors => report'.errors
  BY <1>4
<1> QED
  BY <1>2, <1>3, <1>4, <1>5, <1>6, <1>7, <1>9, <1>10 DEF Typed

LEMMA SkipIcmDoes ==
  ASSUME Typed, SkipIcm
  PROVE  /\ Typed' /\ ~own.icm /\ UNCHANGED <<own, world>>
         /\ \/ pc = "stopIcm" /\ Goes("retryBmi")
            \/ pc = "retryIcm" /\ Goes("closeSpi")
BY DEF SkipIcm, Go, Goto, Goes, aside, Typed, Held

LEMMA CloseSpiDoes ==
  ASSUME Typed, NEW s \in Buses, CloseSpi(s)
  PROVE  /\ Typed' /\ pc = "closeSpi" /\ s \in DOMAIN own.spi
         /\ KeepsCarrier /\ KeepsSensors /\ SameCarrier /\ SameSensors
         /\ DOMAIN own'.spi = DOMAIN own.spi \ {s}
         /\ \A b \in DOMAIN own'.spi : own'.spi[b] = own.spi[b]
         /\ \A b \in Buses : b # s => world'.spi[b] = world.spi[b]
         /\ Continues("closeSpi")
         /\ report'.errors \/ world'.spi[s] = own.spi[s]
<1> DEFINE settings == [b \in DOMAIN own.spi \ {s} |-> own.spi[b]]
<1>1. /\ pc = "closeSpi" /\ s \in DOMAIN own.spi
      /\ own' = [own EXCEPT !.spi = settings]
  BY DEF CloseSpi
<1>2. PICK S \in SUBSET Buses : own.spi \in [S -> Functions]
  <2>1. own.spi \in Settings
    BY DEF Typed, Held
  <2> QED
    BY <2>1 DEF Settings
<1>3. settings \in [S \ {s} -> Functions] /\ S \ {s} \in SUBSET Buses
  BY <1>2
<1>4. settings \in Settings
  BY <1>3 DEF Settings
<1>5. /\ DOMAIN settings = DOMAIN own.spi \ {s}
      /\ \A b \in DOMAIN settings : settings[b] = own.spi[b]
  OBVIOUS
<1>6. own.spi[s] \in Functions
  BY <1>1, <1>2
<1> HIDE DEF settings
<1>7. Held' /\ own'.spi = settings /\ KeepsCarrier /\ KeepsSensors
  BY <1>1, <1>4 DEF Typed, Held, Fields, KeepsCarrier, KeepsLock, KeepsPads,
     KeepsList, KeepsLine, KeepsSensors, KeepsIcm, KeepsBmi
<1>8. PICK ok \in BOOLEAN :
        /\ Attempt(ok, "closeSpi")
        /\ world' = IF ok THEN [world EXCEPT !.spi[s] = own.spi[s]] ELSE world
  BY DEF CloseSpi
<1>9. Continues("closeSpi") /\ (ok \/ report'.errors)
  BY <1>8, AttemptContinues DEF Typed
<1>10. /\ world' \in Boards /\ SameCarrier /\ SameSensors
       /\ \A b \in Buses : b # s => world'.spi[b] = world.spi[b]
       /\ ok => world'.spi[s] = own.spi[s]
  <2>1. CASE ~ok
    BY <1>8, <2>1 DEF Typed, SameCarrier, SamePads, SameDrivers, SameLines,
       SameSensors, SameIcm, SameBmi
  <2>2. CASE ok
    <3> DEFINE back == [world.spi EXCEPT ![s] = own.spi[s]]
    <3>1. back \in [Buses -> Functions]
      BY <1>6 DEF Typed, Boards
    <3>2. back[s] = own.spi[s] /\ \A b \in Buses : b # s => back[b] = world.spi[b]
      BY DEF Typed, Boards
    <3>3. world' = [world EXCEPT !.spi = back]
      BY <1>8, <2>2
    <3> HIDE DEF back
    <3>4. /\ world' \in Boards /\ SameCarrier /\ SameSensors /\ world'.spi = back
      BY <3>1, <3>3 DEF Typed, Boards, SameCarrier, SamePads, SameDrivers,
         SameLines, SameSensors, SameIcm, SameBmi
    <3> QED
      BY <3>2, <3>4
  <2> QED
    BY <2>1, <2>2
<1> QED
  BY <1>1, <1>5, <1>7, <1>9, <1>10 DEF Typed, Continues

LEMMA DeselectDoes ==
  ASSUME Typed, Deselect, Len(own.pads) \in 0 .. NPads
  PROVE  /\ Typed' /\ pc = "closeSpi" /\ own.spi = <<>>
         /\ own'.pads = own.pads /\ own'.k = Len(own.pads)
         /\ KeepsLock /\ KeepsList /\ KeepsLine /\ KeepsBuses /\ KeepsSensors
         /\ SamePads /\ SameDrivers /\ SameBuses /\ SameSensors
         /\ world'.out = world.out
         /\ UNCHANGED world \/ (own.cs /\ ~world'.low)
         /\ Continues("padsBack")
<1>1. PICK ok \in {TRUE, ~own.cs} :
        /\ Attempt(ok, "padsBack")
        /\ world' = IF ok /\ own.cs THEN [world EXCEPT !.low = FALSE] ELSE world
  BY DEF Deselect
<1>2. Continues("padsBack")
  BY <1>1, AttemptContinues DEF Typed
<1>3. /\ pc = "closeSpi" /\ own.spi = <<>>
      /\ own' = [own EXCEPT !.k = Len(own.pads)]
  BY DEF Deselect
<1>4. /\ Held' /\ own'.pads = own.pads /\ own'.k = Len(own.pads)
      /\ KeepsLock /\ KeepsList /\ KeepsLine /\ KeepsBuses /\ KeepsSensors
  BY <1>3 DEF Typed, Held, Fields, KeepsLock, KeepsList, KeepsLine, KeepsBuses,
     KeepsSensors, KeepsIcm, KeepsBmi
<1>5. /\ world' \in Boards /\ world'.out = world.out
      /\ SamePads /\ SameDrivers /\ SameBuses /\ SameSensors
      /\ UNCHANGED world \/ (own.cs /\ ~world'.low)
  <2> USE DEF SamePads, SameDrivers, SameBuses, SameSensors, SameIcm, SameBmi
  <2>1. CASE own.cs /\ world' = [world EXCEPT !.low = FALSE]
    BY <2>1 DEF Typed, Boards
  <2>2. CASE UNCHANGED world
    BY <2>2 DEF Typed
  <2> QED
    BY <1>1, <2>1, <2>2
<1> QED
  BY <1>2, <1>3, <1>4, <1>5 DEF Typed, Continues

LEMMA PadBackDoes ==
  ASSUME Typed, PadBack, own.k <= Len(own.pads)
  PROVE  /\ Typed' /\ pc = "padsBack" /\ own.k > 0 /\ own.k \in Pads
         /\ own'.pads = own.pads /\ own'.k = own.k - 1
         /\ KeepsLock /\ KeepsList /\ KeepsLine /\ KeepsBuses /\ KeepsSensors
         /\ SameDrivers /\ SameLines /\ SameBuses /\ SameSensors
         /\ \A p \in Pads : p # own.k => world'.pad[p] = world.pad[p]
         /\ report'.errors \/ world'.pad[own.k] = own.pads[own.k]
         /\ Continues("padsBack")
<1>1. PICK ok \in BOOLEAN :
        /\ Attempt(ok, "padsBack")
        /\ world' = IF ok THEN [world EXCEPT !.pad[own.k] = own.pads[own.k]]
                          ELSE world
  BY DEF PadBack
<1>2. Continues("padsBack") /\ (ok \/ report'.errors)
  BY <1>1, AttemptContinues DEF Typed
<1>3. pc = "padsBack" /\ own.k > 0 /\ own' = [own EXCEPT !.k = own.k - 1]
  BY DEF PadBack
<1>4. own.k \in Pads /\ own.k - 1 \in 0 .. NPads
  BY <1>3, CaptureAssumption DEF Typed, Held, Pads
<1>5. own.pads[own.k] \in Functions
  BY <1>3 DEF Typed, Held
<1>6. /\ Held' /\ own'.pads = own.pads /\ own'.k = own.k - 1
      /\ KeepsLock /\ KeepsList /\ KeepsLine /\ KeepsBuses /\ KeepsSensors
  BY <1>3, <1>4 DEF Typed, Held, Fields, KeepsLock, KeepsList, KeepsLine,
     KeepsBuses, KeepsSensors, KeepsIcm, KeepsBmi
<1>7. /\ world' \in Boards
      /\ SameDrivers /\ SameLines /\ SameBuses /\ SameSensors
      /\ \A p \in Pads : p # own.k => world'.pad[p] = world.pad[p]
      /\ ok => world'.pad[own.k] = own.pads[own.k]
  <2>1. CASE ~ok
    BY <1>1, <2>1 DEF Typed, SameDrivers, SameLines, SameBuses, SameSensors,
       SameIcm, SameBmi
  <2>2. CASE ok
    <3> DEFINE back == [world.pad EXCEPT ![own.k] = own.pads[own.k]]
    <3>1. back \in [Pads -> Functions]
      BY <1>5 DEF Typed, Boards
    <3>2. /\ back[own.k] = own.pads[own.k]
          /\ \A p \in Pads : p # own.k => back[p] = world.pad[p]
      BY <1>4 DEF Typed, Boards
    <3>3. world' = [world EXCEPT !.pad = back]
      BY <1>1, <2>2
    <3> HIDE DEF back
    <3>4. /\ world' \in Boards /\ world'.pad = back
          /\ SameDrivers /\ SameLines /\ SameBuses /\ SameSensors
      BY <3>1, <3>3 DEF Typed, Boards, SameDrivers, SameLines, SameBuses,
         SameSensors, SameIcm, SameBmi
    <3> QED
      BY <3>2, <3>4
  <2> QED
    BY <2>1, <2>2
<1> QED
  BY <1>2, <1>3, <1>4, <1>6, <1>7 DEF Typed, Continues

LEMMA ReleaseCsDoes ==
  ASSUME Typed, ReleaseCs
  PROVE  /\ Typed' /\ pc = "padsBack" /\ own.k = 0 /\ ~own'.cs
         /\ KeepsLock /\ KeepsPads /\ KeepsList /\ KeepsBuses /\ KeepsSensors
         /\ SamePads /\ SameDrivers /\ SameBuses /\ SameSensors
         /\ \/ UNCHANGED world /\ (own.cs => report'.errors)
            \/ own.cs /\ ~world'.out /\ ~world'.low
         /\ Continues("bind")
<1>1. PICK ok \in {TRUE, ~own.cs} :
        /\ Attempt(ok, "bind")
        /\ world' = IF ok /\ own.cs
                      THEN [world EXCEPT !.out = FALSE, !.low = FALSE] ELSE world
  BY DEF ReleaseCs
<1>2. Continues("bind") /\ (ok \/ report'.errors)
  BY <1>1, AttemptContinues DEF Typed
<1>3. pc = "padsBack" /\ own.k = 0 /\ own' = [own EXCEPT !.cs = FALSE]
  BY DEF ReleaseCs
<1>4. /\ Held' /\ ~own'.cs
      /\ KeepsLock /\ KeepsPads /\ KeepsList /\ KeepsBuses /\ KeepsSensors
  BY <1>3 DEF Typed, Held, Fields, KeepsLock, KeepsPads, KeepsList, KeepsBuses,
     KeepsSensors, KeepsIcm, KeepsBmi
<1>5. /\ world' \in Boards /\ SamePads /\ SameDrivers /\ SameBuses /\ SameSensors
      /\ \/ UNCHANGED world /\ (own.cs => ~ok)
         \/ own.cs /\ ~world'.out /\ ~world'.low
  <2> USE DEF SamePads, SameDrivers, SameBuses, SameSensors, SameIcm, SameBmi
  <2>1. CASE ok /\ own.cs
    BY <1>1, <2>1 DEF Typed, Boards
  <2>2. CASE ~(ok /\ own.cs)
    BY <1>1, <2>2 DEF Typed
  <2> QED
    BY <2>1, <2>2
<1> QED
  BY <1>2, <1>3, <1>4, <1>5 DEF Typed, Continues

LEMMA BindDoes ==
  ASSUME Typed, NEW n \in Nodes, Bind(n)
  PROVE  /\ Typed' /\ pc = "bind" /\ n \in own.detached
         /\ own'.detached = own.detached \ {n}
         /\ KeepsLock /\ KeepsPads /\ KeepsLine /\ KeepsBuses /\ KeepsSensors
         /\ SamePads /\ SameLines /\ SameBuses /\ SameSensors
         /\ \/ UNCHANGED world /\ report'.errors
            \/ world'.bound = world.bound \cup {n}
         /\ Continues("bind")
<1>1. PICK ok \in BOOLEAN :
        /\ Attempt(ok, "bind")
        /\ world' = IF ok THEN [world EXCEPT !.bound = @ \cup {n}] ELSE world
  BY DEF Bind
<1>2. Continues("bind") /\ (ok \/ report'.errors)
  BY <1>1, AttemptContinues DEF Typed
<1>3. /\ pc = "bind" /\ n \in own.detached
      /\ own' = [own EXCEPT !.detached = @ \ {n}]
  BY DEF Bind
<1>4. /\ Held' /\ own'.detached = own.detached \ {n}
      /\ KeepsLock /\ KeepsPads /\ KeepsLine /\ KeepsBuses /\ KeepsSensors
  BY <1>3 DEF Typed, Held, Fields, KeepsLock, KeepsPads, KeepsLine, KeepsBuses,
     KeepsSensors, KeepsIcm, KeepsBmi
<1>5. /\ world' \in Boards /\ SamePads /\ SameLines /\ SameBuses /\ SameSensors
      /\ \/ UNCHANGED world /\ ~ok
         \/ world'.bound = world.bound \cup {n}
  <2> USE DEF SamePads, SameLines, SameBuses, SameSensors, SameIcm, SameBmi
  <2>1. CASE ok
    BY <1>1, <2>1 DEF Typed, Boards
  <2>2. CASE ~ok
    BY <1>1, <2>2 DEF Typed
  <2> QED
    BY <2>1, <2>2
<1> QED
  BY <1>2, <1>3, <1>4, <1>5 DEF Typed, Continues

LEMMA VerifyPadsDoes ==
  ASSUME Typed, VerifyPads
  PROVE  /\ Typed' /\ pc = "bind" /\ own.detached = {} /\ UNCHANGED world
         /\ own'.pads = <<>> /\ ~own'.lock /\ own'.k = own.k
         /\ KeepsList /\ KeepsLine /\ KeepsBuses /\ KeepsSensors
         /\ Continues("save")
<1>1. PICK ok \in BOOLEAN : Attempt(ok \/ own.pads = <<>>, "save")
  BY DEF VerifyPads
<1>2. Continues("save")
  <2> DEFINE e == ok \/ own.pads = <<>>
  <2>1. e \in BOOLEAN /\ Attempt(e, "save")
    BY <1>1
  <2> HIDE DEF e
  <2> QED
    BY <2>1, AttemptContinues DEF Typed
<1>3. /\ pc = "bind" /\ own.detached = {} /\ UNCHANGED world
      /\ own' = [own EXCEPT !.pads = <<>>, !.lock = FALSE]
  BY DEF VerifyPads
<1>4. <<>> \in Seq(Functions)
  OBVIOUS
<1>5. /\ Held' /\ own'.pads = <<>> /\ ~own'.lock /\ own'.k = own.k
      /\ KeepsList /\ KeepsLine /\ KeepsBuses /\ KeepsSensors
  BY <1>3, <1>4 DEF Typed, Held, Fields, KeepsList, KeepsLine, KeepsBuses,
     KeepsSensors, KeepsIcm, KeepsBmi
<1> QED
  BY <1>2, <1>3, <1>5 DEF Typed, Continues

LEMMA SaveDoes ==
  ASSUME Typed, Save
  PROVE  /\ Typed' /\ pc = "save" /\ pc' = "exit"
         /\ UNCHANGED <<plan, own, world>> /\ UNCHANGED aside
         /\ report'.sick = report.sick /\ report'.ok = report.ok
         /\ report'.errors = report.errors /\ report'.masked = report.masked
         /\ report'.rc = 0 => report.ok /\ ~report.errors
<1>1. PICK code \in {1, IF report.ok /\ ~report.errors THEN 0
                        ELSE IF interrupted THEN 130 ELSE 1} :
        report' = [report EXCEPT !.rc = code]
  BY DEF Save
<1>2. code \in {0, 1, 130} /\ (code = 0 => report.ok /\ ~report.errors)
  BY <1>1
<1>3. /\ report' \in Reports /\ report'.rc = code
      /\ report'.sick = report.sick /\ report'.ok = report.ok
      /\ report'.errors = report.errors /\ report'.masked = report.masked
  BY <1>1, <1>2 DEF Typed, Reports
<1> QED
  BY <1>2, <1>3 DEF Save, Goto, aside, Typed, Held

LEMMA KillDoes ==
  ASSUME Typed, Kill
  PROVE  /\ Typed' /\ pc \notin {"exit", "dead"} /\ pc' = "dead"
         /\ plan' = <<"failed">> /\ own' = Nothing /\ ~interrupted' /\ ~early'
         /\ interrupted' \in BOOLEAN /\ early' \in BOOLEAN
         /\ UNCHANGED <<world, found, runs>>
         /\ ~report'.sick /\ ~report'.ok /\ report'.rc = 2
         /\ report'.errors = report.errors /\ report'.masked = report.masked
<1>1. report' = [Silent EXCEPT !.errors = report.errors,
                               !.masked = report.masked]
  BY DEF Kill
<1>2. /\ report' \in Reports
      /\ ~report'.sick /\ ~report'.ok /\ report'.rc = 2
      /\ report'.errors = report.errors /\ report'.masked = report.masked
  <2>1. report.errors \in BOOLEAN /\ report.masked \in BOOLEAN
    BY DEF Typed, Reports
  <2> DEFINE e == report.errors
             m == report.masked
  <2>2. report' = [Silent EXCEPT !.errors = e, !.masked = m]
    BY <1>1
  <2> HIDE DEF e, m
  <2>3. e \in BOOLEAN /\ m \in BOOLEAN
    BY <2>1 DEF e, m
  <2>4. /\ report' \in Reports
        /\ ~report'.sick /\ ~report'.ok /\ report'.rc = 2
        /\ report'.errors = e /\ report'.masked = m
    BY <2>2, <2>3 DEF Reports, Silent
  <2> QED
    BY <2>4 DEF e, m
<1>3. Held'
  BY NothingHeld DEF Kill
<1> QED
  BY <1>2, <1>3 DEF Kill, Typed

LEMMA RestartDoes ==
  ASSUME Typed, Restart
  PROVE  /\ Typed' /\ pc \in {"exit", "dead"} /\ ~report.errors
         /\ pc' = "lock" /\ plan' = <<"open">> /\ own' = Nothing
         /\ report' = Silent /\ ~interrupted' /\ ~early'
         /\ interrupted' \in BOOLEAN /\ early' \in BOOLEAN
         /\ found' = world /\ UNCHANGED world
         /\ runs < MaxRuns /\ runs' = runs + 1
<1>1. Silent \in Reports
  BY DEF Silent, Reports
<1>2. own' = Nothing /\ report' = Silent
  BY DEF Restart, Start
<1>3. Held'
  BY <1>2, NothingHeld
<1> QED
  BY <1>1, <1>2, <1>3 DEF Restart, Start, Typed

LEMMA SignalDoes ==
  ASSUME Typed, Signal
  PROVE  /\ Typed' /\ pc \notin {"exit", "dead"} /\ ~interrupted /\ interrupted'
         /\ interrupted' \in BOOLEAN /\ early' \in BOOLEAN
         /\ early' <=> pc \notin Cleanup
         /\ UNCHANGED <<pc, plan, own, report, world, found, runs>>
BY DEF Signal, Typed, Held

-----------------------------------------------------------------------------
(***************************************************************************)
(* Each part of the strengthening is kept by each step.                    *)
(***************************************************************************)

LEMMA SamePadsEverywhere ==
  ASSUME NEW f \in [Pads -> Functions], NEW g \in [Pads -> Functions],
         \A p \in Pads : f[p] = g[p]
  PROVE  f = g
OBVIOUS

\* What the three actions that count pads need to know.
LEMMA Counted ==
  ASSUME IInv
  PROVE  /\ Typed /\ (MuxPad => own.k < NPads)
         /\ (PadBack => own.k <= Len(own.pads))
         /\ Len(own.pads) \in 0 .. NPads
BY DEF IInv, OwnType, WorldType, ReportType, Typed, PadInv, MuxPad, PadBack

\* What the plan is made of.
LEMMA TailsAndPlans ==
  /\ \A p \in Seq(Parts) : p # <<>> => Tail(p) \in Seq(Parts)
  /\ \A q \in Plans : q \in Seq(Parts)
  /\ <<"open">> \in Seq(Parts) /\ <<"failed">> \in Seq(Parts)
<1>1. \A p \in Seq(Parts) : p # <<>> => Tail(p) \in Seq(Parts)
  OBVIOUS
<1>2. \A o \in Parts : <<o>> \in Seq(Parts)
  OBVIOUS
<1>3. /\ "open" \in Parts /\ "failed" \in Parts /\ "validation" \in Parts
      /\ {"warmup", "profile", "static"} \subseteq Parts
  BY DEF Parts, Phases
<1>4. <<"warmup", "calibration", "estimate", "profile", "validation", "static">>
        \in Seq(Parts)
  BY DEF Parts, Phases
<1>5. ASSUME NEW w \in Seq(Parts), NEW p \in Seq(Parts), NEW s \in Seq(Parts)
      PROVE  w \o p \o <<"validation">> \o s \in Seq(Parts)
  BY <1>2, <1>3
<1>6. \A name \in {"warmup", "profile", "static"} :
        {<<>>} \cup {<<o>> : o \in Options \cap {name}} \subseteq Seq(Parts)
  <2>1. <<>> \in Seq(Parts)
    OBVIOUS
  <2> SUFFICES ASSUME NEW name \in {"warmup", "profile", "static"},
                      NEW o \in Options \cap {name}
               PROVE  <<o>> \in Seq(Parts)
    BY <2>1
  <2>2. o \in Parts
    BY <1>3
  <2> QED
    BY <1>2, <2>2
<1>7. <<>> \in Seq(Parts)
  OBVIOUS
<1>8. \A q \in Plans : q \in Seq(Parts)
  <2> DEFINE Part(name) == {<<>>} \cup {<<o>> : o \in Options \cap {name}}
             Long == <<"warmup", "calibration", "estimate", "profile",
                       "validation", "static">>
             Short(w, r, s) == w \o r \o <<"validation">> \o s
             Shorts == {Short(w, r, s) : w \in Part("warmup"),
                          r \in Part("profile"), s \in Part("static")}
  <2>1. Plans = {<<>>, Long} \cup Shorts
    BY DEF Plans
  <2>2. \A name \in {"warmup", "profile", "static"} :
          Part(name) \subseteq Seq(Parts)
    BY <1>6
  <2>3. \A w \in Seq(Parts), r \in Seq(Parts), s \in Seq(Parts) :
          Short(w, r, s) \in Seq(Parts)
    BY <1>5
  <2> HIDE DEF Short, Part, Plans
  <2>4. Shorts \subseteq Seq(Parts)
    BY <2>2, <2>3
  <2>5. Long \in Seq(Parts)
    BY <1>4
  <2> HIDE DEF Long, Shorts
  <2> QED
    BY <1>7, <2>1, <2>4, <2>5
<1> QED
  BY <1>1, <1>2, <1>3, <1>8

(* Control point, plan and flags keep their types. *)
LEMMA FlowTypeStep == IInv /\ [Next]_vars => FlowType'
<1> SUFFICES ASSUME IInv, [Next]_vars PROVE FlowType'
  OBVIOUS
<1>0. Typed /\ FlowType
  BY DEF IInv, OwnType, WorldType, ReportType, Typed
<1> USE DEF FlowType, Front, Looking, Selected, IcmStarted, BmiStarted,
       Capturing, Stopping, Cleanup, Points, Failed, Goes, Quits, Fails,
       Continues, Proceeds, SameVerdict, aside, Nothing, Silent
<1>1. CASE Lock
  BY <1>0, TailsAndPlans, <1>1, LockDoes
<1>2. CASE CheckUsers
  BY <1>0, TailsAndPlans, <1>2, CheckUsersDoes
<1>3. CASE SavePads
  BY <1>0, TailsAndPlans, <1>3, SavePadsDoes
<1>4. ASSUME NEW n \in Nodes, Unbind(n)
      PROVE FlowType'
  BY <1>0, TailsAndPlans, <1>4, UnbindDoes
<1>5. CASE RequestCs
  BY <1>0, TailsAndPlans, <1>5, RequestCsDoes
<1>6. CASE MuxPad
  <2>1. Quits \/ Goes("spi") \/ Goes("mux")
    BY <1>0, <1>6, Counted, MuxPadDoes
  <2> QED
    BY <1>0, TailsAndPlans, <2>1
<1>7. ASSUME NEW s \in Buses, OpenSpi(s)
      PROVE FlowType'
  BY <1>0, TailsAndPlans, <1>7, OpenSpiDoes
<1>8. CASE Identify
  BY <1>0, TailsAndPlans, <1>8, IdentifyDoes
<1>9. CASE IcmCheck
  BY <1>0, TailsAndPlans, <1>9, IcmCheckDoes
<1>10. CASE IcmConfigure
  BY <1>0, TailsAndPlans, <1>10, IcmConfigureDoes
<1>11. CASE IcmStart
  BY <1>0, TailsAndPlans, <1>11, IcmStartDoes
<1>12. CASE IcmBank4
  BY <1>0, TailsAndPlans, <1>12, IcmBank4Does
<1>13. CASE IcmOffsets
  BY <1>0, TailsAndPlans, <1>13, IcmOffsetsDoes
<1>14. CASE BmiCheck
  BY <1>0, TailsAndPlans, <1>14, BmiCheckDoes
<1>15. CASE BmiLoad
  BY <1>0, TailsAndPlans, <1>15, BmiLoadDoes
<1>16. CASE BmiWake
  BY <1>0, TailsAndPlans, <1>16, BmiWakeDoes
<1>17. CASE BmiStart
  BY <1>0, TailsAndPlans, <1>17, BmiStartDoes
<1>18. CASE BeginPhase
  BY <1>0, TailsAndPlans, <1>18, BeginPhaseDoes
<1>19. CASE Poll
  BY <1>0, TailsAndPlans, <1>19, PollDoes
<1>20. CASE EndPhase
  BY <1>0, TailsAndPlans, <1>20, EndPhaseDoes
<1>21. CASE Estimate
  BY <1>0, TailsAndPlans, <1>21, PartsDo
<1>22. CASE UseProfile
  BY <1>0, TailsAndPlans, <1>22, PartsDo
<1>23. CASE StaticValidation
  BY <1>0, TailsAndPlans, <1>23, PartsDo
<1>24. CASE Finish
  BY <1>0, TailsAndPlans, <1>24, FinishDoes
<1>25. CASE StopBmi
  BY <1>0, TailsAndPlans, <1>25, StopBmiDoes
<1>26. CASE StopIcm
  BY <1>0, TailsAndPlans, <1>26, StopIcmDoes
<1>27. CASE SkipIcm
  BY <1>0, TailsAndPlans, <1>27, SkipIcmDoes
<1>28. ASSUME NEW s \in Buses, CloseSpi(s)
      PROVE FlowType'
  BY <1>0, TailsAndPlans, <1>28, CloseSpiDoes
<1>29. CASE Deselect
  BY <1>0, <1>29, Counted, DeselectDoes
<1>30. CASE PadBack
  BY <1>0, <1>30, Counted, PadBackDoes
<1>31. CASE ReleaseCs
  BY <1>0, TailsAndPlans, <1>31, ReleaseCsDoes
<1>32. ASSUME NEW n \in Nodes, Bind(n)
      PROVE FlowType'
  BY <1>0, TailsAndPlans, <1>32, BindDoes
<1>33. CASE VerifyPads
  BY <1>0, TailsAndPlans, <1>33, VerifyPadsDoes
<1>34. CASE Save
  BY <1>0, TailsAndPlans, <1>34, SaveDoes
<1>35. CASE Signal
  BY <1>0, TailsAndPlans, <1>35, SignalDoes
<1>36. CASE Kill
  BY <1>0, TailsAndPlans, <1>36, KillDoes
<1>37. CASE Restart
  <2>1. runs' \in 1 .. MaxRuns
    BY <1>0, <1>37, RestartDoes, CaptureAssumption
  <2> QED
    BY <1>0, TailsAndPlans, <1>37, <2>1, RestartDoes
<1>38. CASE UNCHANGED vars
  BY <1>0, TailsAndPlans, <1>38 DEF vars
<1> HIDE DEF FlowType, Front, Looking, Selected, IcmStarted, BmiStarted,
       Capturing, Stopping, Cleanup, Points, Failed, Goes, Quits, Fails,
       Continues, Proceeds, SameVerdict, aside, Nothing, Silent
<1> QED
  BY <1>1, <1>2, <1>3, <1>4, <1>5, <1>6, <1>7, <1>8, <1>9, <1>10, <1>11,
     <1>12, <1>13, <1>14, <1>15, <1>16, <1>17, <1>18, <1>19, <1>20, <1>21,
     <1>22, <1>23, <1>24, <1>25, <1>26, <1>27, <1>28, <1>29, <1>30, <1>31,
     <1>32, <1>33, <1>34, <1>35, <1>36, <1>37, <1>38 DEF Next, Main,
     Acquire, Initialise, Capture, Restore

(* Each step leaves the process as the next control point expects it. *)
LEMMA StageInvStep == IInv /\ [Next]_vars => StageInv'
<1> SUFFICES ASSUME IInv, [Next]_vars PROVE StageInv'
  OBVIOUS
<1>0. Typed /\ StageInv
  BY DEF IInv, OwnType, WorldType, ReportType, Typed
<1> USE DEF StageInv, Front, Looking, Selected, IcmStarted, BmiStarted,
       Capturing, Stopping, Cleanup, Points, Failed, KeepsSensors, KeepsIcm,
       KeepsBmi, Goes, Quits, Fails, Continues, Proceeds, SameVerdict,
       aside, Nothing, Silent
<1>1. CASE Lock
  BY <1>0, <1>1, LockDoes
<1>2. CASE CheckUsers
  BY <1>0, <1>2, CheckUsersDoes
<1>3. CASE SavePads
  BY <1>0, <1>3, SavePadsDoes
<1>4. ASSUME NEW n \in Nodes, Unbind(n)
      PROVE StageInv'
  BY <1>0, <1>4, UnbindDoes
<1>5. CASE RequestCs
  BY <1>0, <1>5, RequestCsDoes
<1>6. CASE MuxPad
  BY <1>0, <1>6, Counted, MuxPadDoes
<1>7. ASSUME NEW s \in Buses, OpenSpi(s)
      PROVE StageInv'
  BY <1>0, <1>7, OpenSpiDoes
<1>8. CASE Identify
  BY <1>0, <1>8, IdentifyDoes
<1>9. CASE IcmCheck
  BY <1>0, <1>9, IcmCheckDoes
<1>10. CASE IcmConfigure
  BY <1>0, <1>10, IcmConfigureDoes
<1>11. CASE IcmStart
  BY <1>0, <1>11, IcmStartDoes
<1>12. CASE IcmBank4
  BY <1>0, <1>12, IcmBank4Does
<1>13. CASE IcmOffsets
  BY <1>0, <1>13, IcmOffsetsDoes
<1>14. CASE BmiCheck
  BY <1>0, <1>14, BmiCheckDoes
<1>15. CASE BmiLoad
  BY <1>0, <1>15, BmiLoadDoes
<1>16. CASE BmiWake
  BY <1>0, <1>16, BmiWakeDoes
<1>17. CASE BmiStart
  BY <1>0, <1>17, BmiStartDoes
<1>18. CASE BeginPhase
  BY <1>0, <1>18, BeginPhaseDoes
<1>19. CASE Poll
  BY <1>0, <1>19, PollDoes
<1>20. CASE EndPhase
  BY <1>0, <1>20, EndPhaseDoes
<1>21. CASE Estimate
  BY <1>0, <1>21, PartsDo
<1>22. CASE UseProfile
  BY <1>0, <1>22, PartsDo
<1>23. CASE StaticValidation
  BY <1>0, <1>23, PartsDo
<1>24. CASE Finish
  BY <1>0, <1>24, FinishDoes
<1>25. CASE StopBmi
  BY <1>0, <1>25, StopBmiDoes
<1>26. CASE StopIcm
  BY <1>0, <1>26, StopIcmDoes
<1>27. CASE SkipIcm
  BY <1>0, <1>27, SkipIcmDoes
<1>28. ASSUME NEW s \in Buses, CloseSpi(s)
      PROVE StageInv'
  BY <1>0, <1>28, CloseSpiDoes
<1>29. CASE Deselect
  BY <1>0, <1>29, Counted, DeselectDoes
<1>30. CASE PadBack
  BY <1>0, <1>30, Counted, PadBackDoes
<1>31. CASE ReleaseCs
  BY <1>0, <1>31, ReleaseCsDoes
<1>32. ASSUME NEW n \in Nodes, Bind(n)
      PROVE StageInv'
  BY <1>0, <1>32, BindDoes
<1>33. CASE VerifyPads
  BY <1>0, <1>33, VerifyPadsDoes
<1>34. CASE Save
  BY <1>0, <1>34, SaveDoes
<1>35. CASE Signal
  BY <1>0, <1>35, SignalDoes
<1>36. CASE Kill
  BY <1>0, <1>36, KillDoes
<1>37. CASE Restart
  BY <1>0, <1>37, RestartDoes
<1>38. CASE UNCHANGED vars
  BY <1>0, <1>38 DEF vars
<1> HIDE DEF StageInv, Front, Looking, Selected, IcmStarted, BmiStarted,
       Capturing, Stopping, Cleanup, Points, Failed, KeepsSensors, KeepsIcm,
       KeepsBmi, Goes, Quits, Fails, Continues, Proceeds, SameVerdict,
       aside, Nothing, Silent
<1> QED
  BY <1>1, <1>2, <1>3, <1>4, <1>5, <1>6, <1>7, <1>8, <1>9, <1>10, <1>11,
     <1>12, <1>13, <1>14, <1>15, <1>16, <1>17, <1>18, <1>19, <1>20, <1>21,
     <1>22, <1>23, <1>24, <1>25, <1>26, <1>27, <1>28, <1>29, <1>30, <1>31,
     <1>32, <1>33, <1>34, <1>35, <1>36, <1>37, <1>38 DEF Next, Main,
     Acquire, Initialise, Capture, Restore

(* The short wait is used only with a running BMI. *)
LEMMA GapInvStep == IInv /\ [Next]_vars => GapInv'
<1> SUFFICES ASSUME IInv, [Next]_vars PROVE GapInv'
  OBVIOUS
<1>0. Typed /\ GapInv
  BY DEF IInv, OwnType, WorldType, ReportType, Typed
<1> USE DEF GapInv, KeepsSensors, KeepsBmi, SameSensors, SameBmi, Goes,
       Quits, Fails, Continues, Proceeds, SameVerdict, aside, Nothing,
       Silent
<1>1. CASE Lock
  BY <1>0, <1>1, LockDoes
<1>2. CASE CheckUsers
  BY <1>0, <1>2, CheckUsersDoes
<1>3. CASE SavePads
  BY <1>0, <1>3, SavePadsDoes
<1>4. ASSUME NEW n \in Nodes, Unbind(n)
      PROVE GapInv'
  BY <1>0, <1>4, UnbindDoes
<1>5. CASE RequestCs
  BY <1>0, <1>5, RequestCsDoes
<1>6. CASE MuxPad
  BY <1>0, <1>6, Counted, MuxPadDoes
<1>7. ASSUME NEW s \in Buses, OpenSpi(s)
      PROVE GapInv'
  BY <1>0, <1>7, OpenSpiDoes
<1>8. CASE Identify
  BY <1>0, <1>8, IdentifyDoes
<1>9. CASE IcmCheck
  BY <1>0, <1>9, IcmCheckDoes
<1>10. CASE IcmConfigure
  BY <1>0, <1>10, IcmConfigureDoes
<1>11. CASE IcmStart
  BY <1>0, <1>11, IcmStartDoes
<1>12. CASE IcmBank4
  BY <1>0, <1>12, IcmBank4Does
<1>13. CASE IcmOffsets
  BY <1>0, <1>13, IcmOffsetsDoes
<1>14. CASE BmiCheck
  BY <1>0, <1>14, BmiCheckDoes
<1>15. CASE BmiLoad
  BY <1>0, <1>15, BmiLoadDoes
<1>16. CASE BmiWake
  BY <1>0, <1>16, BmiWakeDoes
<1>17. CASE BmiStart
  BY <1>0, <1>17, BmiStartDoes
<1>18. CASE BeginPhase
  BY <1>0, <1>18, BeginPhaseDoes
<1>19. CASE Poll
  BY <1>0, <1>19, PollDoes
<1>20. CASE EndPhase
  BY <1>0, <1>20, EndPhaseDoes
<1>21. CASE Estimate
  BY <1>0, <1>21, PartsDo
<1>22. CASE UseProfile
  BY <1>0, <1>22, PartsDo
<1>23. CASE StaticValidation
  BY <1>0, <1>23, PartsDo
<1>24. CASE Finish
  BY <1>0, <1>24, FinishDoes
<1>25. CASE StopBmi
  BY <1>0, <1>25, StopBmiDoes
<1>26. CASE StopIcm
  BY <1>0, <1>26, StopIcmDoes
<1>27. CASE SkipIcm
  BY <1>0, <1>27, SkipIcmDoes
<1>28. ASSUME NEW s \in Buses, CloseSpi(s)
      PROVE GapInv'
  BY <1>0, <1>28, CloseSpiDoes
<1>29. CASE Deselect
  BY <1>0, <1>29, Counted, DeselectDoes
<1>30. CASE PadBack
  BY <1>0, <1>30, Counted, PadBackDoes
<1>31. CASE ReleaseCs
  BY <1>0, <1>31, ReleaseCsDoes
<1>32. ASSUME NEW n \in Nodes, Bind(n)
      PROVE GapInv'
  BY <1>0, <1>32, BindDoes
<1>33. CASE VerifyPads
  BY <1>0, <1>33, VerifyPadsDoes
<1>34. CASE Save
  BY <1>0, <1>34, SaveDoes
<1>35. CASE Signal
  BY <1>0, <1>35, SignalDoes
<1>36. CASE Kill
  BY <1>0, <1>36, KillDoes
<1>37. CASE Restart
  BY <1>0, <1>37, RestartDoes
<1>38. CASE UNCHANGED vars
  BY <1>0, <1>38 DEF vars
<1> HIDE DEF GapInv, KeepsSensors, KeepsBmi, SameSensors, SameBmi, Goes,
       Quits, Fails, Continues, Proceeds, SameVerdict, aside, Nothing,
       Silent
<1> QED
  BY <1>1, <1>2, <1>3, <1>4, <1>5, <1>6, <1>7, <1>8, <1>9, <1>10, <1>11,
     <1>12, <1>13, <1>14, <1>15, <1>16, <1>17, <1>18, <1>19, <1>20, <1>21,
     <1>22, <1>23, <1>24, <1>25, <1>26, <1>27, <1>28, <1>29, <1>30, <1>31,
     <1>32, <1>33, <1>34, <1>35, <1>36, <1>37, <1>38 DEF Next, Main,
     Acquire, Initialise, Capture, Restore

(* What has been started is stopped with the values found, or an error is on  *)
(* record.                                                                    *)
LEMMA SensorInvStep == IInv /\ [Next]_vars => SensorInv'
<1> SUFFICES ASSUME IInv, [Next]_vars PROVE SensorInv'
  OBVIOUS
<1>0. Typed /\ StageInv /\ SensorInv /\ GapInv
  BY DEF IInv, OwnType, WorldType, ReportType, Typed
<1> USE DEF StageInv, SensorInv, GapInv, Front, Looking, Selected,
       IcmStarted, BmiStarted, Capturing, Stopping, Cleanup, Points, Failed,
       KeepsSensors, KeepsIcm, KeepsBmi, SameSensors, SameIcm, SameBmi,
       Goes, Quits, Fails, Continues, Proceeds, SameVerdict, aside, Nothing,
       Silent
<1>1. CASE Lock
  BY <1>0, <1>1, LockDoes
<1>2. CASE CheckUsers
  BY <1>0, <1>2, CheckUsersDoes
<1>3. CASE SavePads
  BY <1>0, <1>3, SavePadsDoes
<1>4. ASSUME NEW n \in Nodes, Unbind(n)
      PROVE SensorInv'
  BY <1>0, <1>4, UnbindDoes
<1>5. CASE RequestCs
  BY <1>0, <1>5, RequestCsDoes
<1>6. CASE MuxPad
  BY <1>0, <1>6, Counted, MuxPadDoes
<1>7. ASSUME NEW s \in Buses, OpenSpi(s)
      PROVE SensorInv'
  BY <1>0, <1>7, OpenSpiDoes
<1>8. CASE Identify
  BY <1>0, <1>8, IdentifyDoes
<1>9. CASE IcmCheck
  BY <1>0, <1>9, IcmCheckDoes
<1>10. CASE IcmConfigure
  BY <1>0, <1>10, IcmConfigureDoes
<1>11. CASE IcmStart
  BY <1>0, <1>11, IcmStartDoes
<1>12. CASE IcmBank4
  BY <1>0, <1>12, IcmBank4Does
<1>13. CASE IcmOffsets
  BY <1>0, <1>13, IcmOffsetsDoes
<1>14. CASE BmiCheck
  BY <1>0, <1>14, BmiCheckDoes
<1>15. CASE BmiLoad
  BY <1>0, <1>15, BmiLoadDoes
<1>16. CASE BmiWake
  BY <1>0, <1>16, BmiWakeDoes
<1>17. CASE BmiStart
  BY <1>0, <1>17, BmiStartDoes
<1>18. CASE BeginPhase
  BY <1>0, <1>18, BeginPhaseDoes
<1>19. CASE Poll
  BY <1>0, <1>19, PollDoes
<1>20. CASE EndPhase
  BY <1>0, <1>20, EndPhaseDoes
<1>21. CASE Estimate
  BY <1>0, <1>21, PartsDo
<1>22. CASE UseProfile
  BY <1>0, <1>22, PartsDo
<1>23. CASE StaticValidation
  BY <1>0, <1>23, PartsDo
<1>24. CASE Finish
  BY <1>0, <1>24, FinishDoes
<1>25. CASE StopBmi
  BY <1>0, <1>25, StopBmiDoes
<1>26. CASE StopIcm
  BY <1>0, <1>26, StopIcmDoes
<1>27. CASE SkipIcm
  BY <1>0, <1>27, SkipIcmDoes
<1>28. ASSUME NEW s \in Buses, CloseSpi(s)
      PROVE SensorInv'
  BY <1>0, <1>28, CloseSpiDoes
<1>29. CASE Deselect
  BY <1>0, <1>29, Counted, DeselectDoes
<1>30. CASE PadBack
  BY <1>0, <1>30, Counted, PadBackDoes
<1>31. CASE ReleaseCs
  BY <1>0, <1>31, ReleaseCsDoes
<1>32. ASSUME NEW n \in Nodes, Bind(n)
      PROVE SensorInv'
  BY <1>0, <1>32, BindDoes
<1>33. CASE VerifyPads
  BY <1>0, <1>33, VerifyPadsDoes
<1>34. CASE Save
  BY <1>0, <1>34, SaveDoes
<1>35. CASE Signal
  BY <1>0, <1>35, SignalDoes
<1>36. CASE Kill
  BY <1>0, <1>36, KillDoes
<1>37. CASE Restart
  BY <1>0, <1>37, RestartDoes
<1>38. CASE UNCHANGED vars
  BY <1>0, <1>38 DEF vars
<1> HIDE DEF StageInv, SensorInv, GapInv, Front, Looking, Selected,
       IcmStarted, BmiStarted, Capturing, Stopping, Cleanup, Points, Failed,
       KeepsSensors, KeepsIcm, KeepsBmi, SameSensors, SameIcm, SameBmi,
       Goes, Quits, Fails, Continues, Proceeds, SameVerdict, aside, Nothing,
       Silent
<1> QED
  BY <1>1, <1>2, <1>3, <1>4, <1>5, <1>6, <1>7, <1>8, <1>9, <1>10, <1>11,
     <1>12, <1>13, <1>14, <1>15, <1>16, <1>17, <1>18, <1>19, <1>20, <1>21,
     <1>22, <1>23, <1>24, <1>25, <1>26, <1>27, <1>28, <1>29, <1>30, <1>31,
     <1>32, <1>33, <1>34, <1>35, <1>36, <1>37, <1>38 DEF Next, Main,
     Acquire, Initialise, Capture, Restore

(* The chip select. *)
LEMMA SelectInvStep == IInv /\ [Next]_vars => SelectInv'
<1> SUFFICES ASSUME IInv, [Next]_vars PROVE SelectInv'
  OBVIOUS
<1>0. Typed /\ StageInv /\ SelectInv
  BY DEF IInv, OwnType, WorldType, ReportType, Typed
<1> USE DEF StageInv, SelectInv, Front, Looking, Selected, IcmStarted,
       BmiStarted, Capturing, Stopping, Cleanup, Points, Failed,
       KeepsCarrier, KeepsSensors, KeepsLine, KeepsBmi, SameCarrier,
       SameLines, Goes, Quits, Fails, Continues, Proceeds, SameVerdict,
       aside, Nothing, Silent
<1>1. CASE Lock
  BY <1>0, <1>1, LockDoes
<1>2. CASE CheckUsers
  BY <1>0, <1>2, CheckUsersDoes
<1>3. CASE SavePads
  BY <1>0, <1>3, SavePadsDoes
<1>4. ASSUME NEW n \in Nodes, Unbind(n)
      PROVE SelectInv'
  BY <1>0, <1>4, UnbindDoes
<1>5. CASE RequestCs
  BY <1>0, <1>5, RequestCsDoes
<1>6. CASE MuxPad
  BY <1>0, <1>6, Counted, MuxPadDoes
<1>7. ASSUME NEW s \in Buses, OpenSpi(s)
      PROVE SelectInv'
  BY <1>0, <1>7, OpenSpiDoes
<1>8. CASE Identify
  BY <1>0, <1>8, IdentifyDoes
<1>9. CASE IcmCheck
  BY <1>0, <1>9, IcmCheckDoes
<1>10. CASE IcmConfigure
  BY <1>0, <1>10, IcmConfigureDoes
<1>11. CASE IcmStart
  BY <1>0, <1>11, IcmStartDoes
<1>12. CASE IcmBank4
  BY <1>0, <1>12, IcmBank4Does
<1>13. CASE IcmOffsets
  BY <1>0, <1>13, IcmOffsetsDoes
<1>14. CASE BmiCheck
  BY <1>0, <1>14, BmiCheckDoes
<1>15. CASE BmiLoad
  BY <1>0, <1>15, BmiLoadDoes
<1>16. CASE BmiWake
  BY <1>0, <1>16, BmiWakeDoes
<1>17. CASE BmiStart
  BY <1>0, <1>17, BmiStartDoes
<1>18. CASE BeginPhase
  BY <1>0, <1>18, BeginPhaseDoes
<1>19. CASE Poll
  BY <1>0, <1>19, PollDoes
<1>20. CASE EndPhase
  BY <1>0, <1>20, EndPhaseDoes
<1>21. CASE Estimate
  BY <1>0, <1>21, PartsDo
<1>22. CASE UseProfile
  BY <1>0, <1>22, PartsDo
<1>23. CASE StaticValidation
  BY <1>0, <1>23, PartsDo
<1>24. CASE Finish
  BY <1>0, <1>24, FinishDoes
<1>25. CASE StopBmi
  BY <1>0, <1>25, StopBmiDoes
<1>26. CASE StopIcm
  BY <1>0, <1>26, StopIcmDoes
<1>27. CASE SkipIcm
  BY <1>0, <1>27, SkipIcmDoes
<1>28. ASSUME NEW s \in Buses, CloseSpi(s)
      PROVE SelectInv'
  BY <1>0, <1>28, CloseSpiDoes
<1>29. CASE Deselect
  BY <1>0, <1>29, Counted, DeselectDoes
<1>30. CASE PadBack
  BY <1>0, <1>30, Counted, PadBackDoes
<1>31. CASE ReleaseCs
  BY <1>0, <1>31, ReleaseCsDoes
<1>32. ASSUME NEW n \in Nodes, Bind(n)
      PROVE SelectInv'
  BY <1>0, <1>32, BindDoes
<1>33. CASE VerifyPads
  BY <1>0, <1>33, VerifyPadsDoes
<1>34. CASE Save
  BY <1>0, <1>34, SaveDoes
<1>35. CASE Signal
  BY <1>0, <1>35, SignalDoes
<1>36. CASE Kill
  BY <1>0, <1>36, KillDoes
<1>37. CASE Restart
  BY <1>0, <1>37, RestartDoes
<1>38. CASE UNCHANGED vars
  BY <1>0, <1>38 DEF vars
<1> HIDE DEF StageInv, SelectInv, Front, Looking, Selected, IcmStarted,
       BmiStarted, Capturing, Stopping, Cleanup, Points, Failed,
       KeepsCarrier, KeepsSensors, KeepsLine, KeepsBmi, SameCarrier,
       SameLines, Goes, Quits, Fails, Continues, Proceeds, SameVerdict,
       aside, Nothing, Silent
<1> QED
  BY <1>1, <1>2, <1>3, <1>4, <1>5, <1>6, <1>7, <1>8, <1>9, <1>10, <1>11,
     <1>12, <1>13, <1>14, <1>15, <1>16, <1>17, <1>18, <1>19, <1>20, <1>21,
     <1>22, <1>23, <1>24, <1>25, <1>26, <1>27, <1>28, <1>29, <1>30, <1>31,
     <1>32, <1>33, <1>34, <1>35, <1>36, <1>37, <1>38 DEF Next, Main,
     Acquire, Initialise, Capture, Restore

(* The settings of the buses. *)
LEMMA BusInvStep == IInv /\ [Next]_vars => BusInv'
<1> SUFFICES ASSUME IInv, [Next]_vars PROVE BusInv'
  OBVIOUS
<1>0. Typed /\ StageInv /\ BusInv
  BY DEF IInv, OwnType, WorldType, ReportType, Typed
<1> USE DEF StageInv, BusInv, Front, Looking, Selected, IcmStarted,
       BmiStarted, Capturing, Stopping, Cleanup, Points, Failed, KeepsBuses,
       SameBuses, Goes, Quits, Fails, Continues, Proceeds, SameVerdict,
       aside, Nothing, Silent
<1>1. CASE Lock
  BY <1>0, <1>1, LockDoes
<1>2. CASE CheckUsers
  BY <1>0, <1>2, CheckUsersDoes
<1>3. CASE SavePads
  BY <1>0, <1>3, SavePadsDoes
<1>4. ASSUME NEW n \in Nodes, Unbind(n)
      PROVE BusInv'
  BY <1>0, <1>4, UnbindDoes
<1>5. CASE RequestCs
  BY <1>0, <1>5, RequestCsDoes
<1>6. CASE MuxPad
  BY <1>0, <1>6, Counted, MuxPadDoes
<1>7. ASSUME NEW s \in Buses, OpenSpi(s)
      PROVE BusInv'
  BY <1>0, <1>7, OpenSpiDoes
<1>8. CASE Identify
  BY <1>0, <1>8, IdentifyDoes
<1>9. CASE IcmCheck
  BY <1>0, <1>9, IcmCheckDoes
<1>10. CASE IcmConfigure
  BY <1>0, <1>10, IcmConfigureDoes
<1>11. CASE IcmStart
  BY <1>0, <1>11, IcmStartDoes
<1>12. CASE IcmBank4
  BY <1>0, <1>12, IcmBank4Does
<1>13. CASE IcmOffsets
  BY <1>0, <1>13, IcmOffsetsDoes
<1>14. CASE BmiCheck
  BY <1>0, <1>14, BmiCheckDoes
<1>15. CASE BmiLoad
  BY <1>0, <1>15, BmiLoadDoes
<1>16. CASE BmiWake
  BY <1>0, <1>16, BmiWakeDoes
<1>17. CASE BmiStart
  BY <1>0, <1>17, BmiStartDoes
<1>18. CASE BeginPhase
  BY <1>0, <1>18, BeginPhaseDoes
<1>19. CASE Poll
  BY <1>0, <1>19, PollDoes
<1>20. CASE EndPhase
  BY <1>0, <1>20, EndPhaseDoes
<1>21. CASE Estimate
  BY <1>0, <1>21, PartsDo
<1>22. CASE UseProfile
  BY <1>0, <1>22, PartsDo
<1>23. CASE StaticValidation
  BY <1>0, <1>23, PartsDo
<1>24. CASE Finish
  BY <1>0, <1>24, FinishDoes
<1>25. CASE StopBmi
  BY <1>0, <1>25, StopBmiDoes
<1>26. CASE StopIcm
  BY <1>0, <1>26, StopIcmDoes
<1>27. CASE SkipIcm
  BY <1>0, <1>27, SkipIcmDoes
<1>28. ASSUME NEW s \in Buses, CloseSpi(s)
      PROVE BusInv'
  BY <1>0, <1>28, CloseSpiDoes
<1>29. CASE Deselect
  BY <1>0, <1>29, Counted, DeselectDoes
<1>30. CASE PadBack
  BY <1>0, <1>30, Counted, PadBackDoes
<1>31. CASE ReleaseCs
  BY <1>0, <1>31, ReleaseCsDoes
<1>32. ASSUME NEW n \in Nodes, Bind(n)
      PROVE BusInv'
  BY <1>0, <1>32, BindDoes
<1>33. CASE VerifyPads
  BY <1>0, <1>33, VerifyPadsDoes
<1>34. CASE Save
  BY <1>0, <1>34, SaveDoes
<1>35. CASE Signal
  BY <1>0, <1>35, SignalDoes
<1>36. CASE Kill
  BY <1>0, <1>36, KillDoes
<1>37. CASE Restart
  BY <1>0, <1>37, RestartDoes
<1>38. CASE UNCHANGED vars
  BY <1>0, <1>38 DEF vars
<1> HIDE DEF StageInv, BusInv, Front, Looking, Selected, IcmStarted,
       BmiStarted, Capturing, Stopping, Cleanup, Points, Failed, KeepsBuses,
       SameBuses, Goes, Quits, Fails, Continues, Proceeds, SameVerdict,
       aside, Nothing, Silent
<1> QED
  BY <1>1, <1>2, <1>3, <1>4, <1>5, <1>6, <1>7, <1>8, <1>9, <1>10, <1>11,
     <1>12, <1>13, <1>14, <1>15, <1>16, <1>17, <1>18, <1>19, <1>20, <1>21,
     <1>22, <1>23, <1>24, <1>25, <1>26, <1>27, <1>28, <1>29, <1>30, <1>31,
     <1>32, <1>33, <1>34, <1>35, <1>36, <1>37, <1>38 DEF Next, Main,
     Acquire, Initialise, Capture, Restore

(* The drivers. *)
LEMMA DriverInvStep == IInv /\ [Next]_vars => DriverInv'
<1> SUFFICES ASSUME IInv, [Next]_vars PROVE DriverInv'
  OBVIOUS
<1>0. Typed /\ StageInv /\ DriverInv /\ PadInv /\ found \in Boards
  BY DEF IInv, OwnType, WorldType, ReportType, Typed
<1> USE DEF StageInv, DriverInv, PadInv, Boards, Typed, Front, Looking,
       Selected, IcmStarted, BmiStarted, Capturing, Stopping, Cleanup,
       Points, Failed, KeepsCarrier, KeepsPads, KeepsList, SameCarrier,
       SamePads, SameDrivers, Goes, Quits, Fails, Continues, Proceeds,
       SameVerdict, aside, Nothing, Silent
<1>1. CASE Lock
  BY <1>0, <1>1, LockDoes
<1>2. CASE CheckUsers
  BY <1>0, <1>2, CheckUsersDoes
<1>3. CASE SavePads
  BY <1>0, <1>3, SavePadsDoes
<1>4. ASSUME NEW n \in Nodes, Unbind(n)
      PROVE DriverInv'
  BY <1>0, <1>4, UnbindDoes
<1>5. CASE RequestCs
  BY <1>0, <1>5, RequestCsDoes
<1>6. CASE MuxPad
  BY <1>0, <1>6, Counted, MuxPadDoes
<1>7. ASSUME NEW s \in Buses, OpenSpi(s)
      PROVE DriverInv'
  BY <1>0, <1>7, OpenSpiDoes
<1>8. CASE Identify
  BY <1>0, <1>8, IdentifyDoes
<1>9. CASE IcmCheck
  BY <1>0, <1>9, IcmCheckDoes
<1>10. CASE IcmConfigure
  BY <1>0, <1>10, IcmConfigureDoes
<1>11. CASE IcmStart
  BY <1>0, <1>11, IcmStartDoes
<1>12. CASE IcmBank4
  BY <1>0, <1>12, IcmBank4Does
<1>13. CASE IcmOffsets
  BY <1>0, <1>13, IcmOffsetsDoes
<1>14. CASE BmiCheck
  BY <1>0, <1>14, BmiCheckDoes
<1>15. CASE BmiLoad
  BY <1>0, <1>15, BmiLoadDoes
<1>16. CASE BmiWake
  BY <1>0, <1>16, BmiWakeDoes
<1>17. CASE BmiStart
  BY <1>0, <1>17, BmiStartDoes
<1>18. CASE BeginPhase
  BY <1>0, <1>18, BeginPhaseDoes
<1>19. CASE Poll
  BY <1>0, <1>19, PollDoes
<1>20. CASE EndPhase
  BY <1>0, <1>20, EndPhaseDoes
<1>21. CASE Estimate
  BY <1>0, <1>21, PartsDo
<1>22. CASE UseProfile
  BY <1>0, <1>22, PartsDo
<1>23. CASE StaticValidation
  BY <1>0, <1>23, PartsDo
<1>24. CASE Finish
  BY <1>0, <1>24, FinishDoes
<1>25. CASE StopBmi
  BY <1>0, <1>25, StopBmiDoes
<1>26. CASE StopIcm
  BY <1>0, <1>26, StopIcmDoes
<1>27. CASE SkipIcm
  BY <1>0, <1>27, SkipIcmDoes
<1>28. ASSUME NEW s \in Buses, CloseSpi(s)
      PROVE DriverInv'
  BY <1>0, <1>28, CloseSpiDoes
<1>29. CASE Deselect
  BY <1>0, <1>29, Counted, DeselectDoes
<1>30. CASE PadBack
  <2>1. own.k \in 1 .. Len(own.pads) /\ own.pads[own.k] = found.pad[own.k]
    BY <1>0, <1>30, CaptureAssumption, Counted, PadBackDoes DEF Held
  <2>2. world.pad = found.pad /\ ~report'.errors => world'.pad = found.pad
    <3>1. \A p \in Pads : world.pad = found.pad /\ ~report'.errors =>
             world'.pad[p] = found.pad[p]
      BY <2>1, <1>30, <1>0, Counted, PadBackDoes
    <3>2. world' \in Boards
      BY <1>30, Counted, PadBackDoes
    <3>3. world'.pad \in [Pads -> Functions] /\ found.pad \in [Pads -> Functions]
      BY <1>0, <3>2
    <3> QED
      BY <3>1, <3>3
  <2>3. /\ pc = "padsBack" /\ pc' = "padsBack" /\ UNCHANGED found
        /\ own'.detached = own.detached /\ world'.bound = world.bound
        /\ (report.errors => report'.errors)
    BY <1>0, <1>30, Counted, PadBackDoes
  <2> QED
    BY <1>0, <2>2, <2>3
<1>31. CASE ReleaseCs
  BY <1>0, <1>31, ReleaseCsDoes
<1>32. ASSUME NEW n \in Nodes, Bind(n)
      PROVE DriverInv'
  BY <1>0, <1>32, BindDoes
<1>33. CASE VerifyPads
  BY <1>0, <1>33, VerifyPadsDoes
<1>34. CASE Save
  BY <1>0, <1>34, SaveDoes
<1>35. CASE Signal
  BY <1>0, <1>35, SignalDoes
<1>36. CASE Kill
  BY <1>0, <1>36, KillDoes
<1>37. CASE Restart
  BY <1>0, <1>37, RestartDoes
<1>38. CASE UNCHANGED vars
  BY <1>0, <1>38 DEF vars
<1> HIDE DEF StageInv, DriverInv, PadInv, Boards, Typed, Front, Looking,
       Selected, IcmStarted, BmiStarted, Capturing, Stopping, Cleanup,
       Points, Failed, KeepsCarrier, KeepsPads, KeepsList, SameCarrier,
       SamePads, SameDrivers, Goes, Quits, Fails, Continues, Proceeds,
       SameVerdict, aside, Nothing, Silent
<1> QED
  BY <1>1, <1>2, <1>3, <1>4, <1>5, <1>6, <1>7, <1>8, <1>9, <1>10, <1>11,
     <1>12, <1>13, <1>14, <1>15, <1>16, <1>17, <1>18, <1>19, <1>20, <1>21,
     <1>22, <1>23, <1>24, <1>25, <1>26, <1>27, <1>28, <1>29, <1>30, <1>31,
     <1>32, <1>33, <1>34, <1>35, <1>36, <1>37, <1>38 DEF Next, Main,
     Acquire, Initialise, Capture, Restore

(* The pads. *)
LEMMA PadInvStep == IInv /\ [Next]_vars => PadInv'
<1> SUFFICES ASSUME IInv, [Next]_vars PROVE PadInv'
  OBVIOUS
<1>0. Typed /\ StageInv /\ PadInv /\ found \in Boards
  BY DEF IInv, OwnType, WorldType, ReportType, Typed
<1> USE DEF StageInv, PadInv, Boards, Typed, Pads, Front, Looking, Selected,
       IcmStarted, BmiStarted, Capturing, Stopping, Cleanup, Points, Failed,
       KeepsCarrier, KeepsPads, SameCarrier, SamePads, Goes, Quits, Fails,
       Continues, Proceeds, SameVerdict, aside, Nothing, Silent
<1>1. CASE Lock
  BY <1>0, CaptureAssumption, <1>1, LockDoes
<1>2. CASE CheckUsers
  BY <1>0, CaptureAssumption, <1>2, CheckUsersDoes
<1>3. CASE SavePads
  <2>1. \A p \in Pads : world.pad[p] = found.pad[p]
    BY <1>0, <1>3, CaptureAssumption, SavePadsDoes
  <2>2. \A p \in 1 .. Len(own'.pads) : p \in Pads
    BY <1>0, <1>3, CaptureAssumption, SavePadsDoes
  <2>3. /\ \A p \in 1 .. Len(own'.pads) : own'.pads[p] = found'.pad[p]
        /\ \A p \in Pads : world'.pad[p] = found'.pad[p]
    BY <1>0, <1>3, <2>1, <2>2, SavePadsDoes
  <2>4. /\ own'.k = 0
        /\ (pc' = "unbind" /\ Len(own'.pads) = NPads) \/ pc' = "stopBmi"
    BY <1>0, <1>3, SavePadsDoes
  <2> QED
    BY <2>3, <2>4
<1>4. ASSUME NEW n \in Nodes, Unbind(n)
      PROVE PadInv'
  BY <1>0, CaptureAssumption, <1>4, UnbindDoes
<1>5. CASE RequestCs
  BY <1>0, CaptureAssumption, <1>5, RequestCsDoes
<1>6. CASE MuxPad
  <2>1. own.k \in Nat /\ own.k < NPads /\ Len(own.pads) = NPads
    BY <1>0, <1>6, Counted, MuxPadDoes DEF Held
  <2>2. \A p \in Pads : p > own.k + 1 => p > own.k /\ p # own.k + 1
    BY <2>1
  <2>3. \A p \in Pads : p > own'.k => world'.pad[p] = found'.pad[p]
    BY <1>0, <1>6, <2>1, <2>2, MuxPadDoes
  <2>4. \A p \in Pads : ~(p > Len(own'.pads))
    BY <1>0, <1>6, <2>1, CaptureAssumption, MuxPadDoes
  <2> QED
    BY <1>0, <1>6, <2>1, <2>3, <2>4, MuxPadDoes
<1>7. ASSUME NEW s \in Buses, OpenSpi(s)
      PROVE PadInv'
  BY <1>0, CaptureAssumption, <1>7, OpenSpiDoes
<1>8. CASE Identify
  BY <1>0, CaptureAssumption, <1>8, IdentifyDoes
<1>9. CASE IcmCheck
  BY <1>0, CaptureAssumption, <1>9, IcmCheckDoes
<1>10. CASE IcmConfigure
  BY <1>0, CaptureAssumption, <1>10, IcmConfigureDoes
<1>11. CASE IcmStart
  BY <1>0, CaptureAssumption, <1>11, IcmStartDoes
<1>12. CASE IcmBank4
  BY <1>0, CaptureAssumption, <1>12, IcmBank4Does
<1>13. CASE IcmOffsets
  BY <1>0, CaptureAssumption, <1>13, IcmOffsetsDoes
<1>14. CASE BmiCheck
  BY <1>0, CaptureAssumption, <1>14, BmiCheckDoes
<1>15. CASE BmiLoad
  BY <1>0, CaptureAssumption, <1>15, BmiLoadDoes
<1>16. CASE BmiWake
  BY <1>0, CaptureAssumption, <1>16, BmiWakeDoes
<1>17. CASE BmiStart
  BY <1>0, CaptureAssumption, <1>17, BmiStartDoes
<1>18. CASE BeginPhase
  BY <1>0, CaptureAssumption, <1>18, BeginPhaseDoes
<1>19. CASE Poll
  BY <1>0, CaptureAssumption, <1>19, PollDoes
<1>20. CASE EndPhase
  BY <1>0, CaptureAssumption, <1>20, EndPhaseDoes
<1>21. CASE Estimate
  BY <1>0, CaptureAssumption, <1>21, PartsDo
<1>22. CASE UseProfile
  BY <1>0, CaptureAssumption, <1>22, PartsDo
<1>23. CASE StaticValidation
  BY <1>0, CaptureAssumption, <1>23, PartsDo
<1>24. CASE Finish
  BY <1>0, CaptureAssumption, <1>24, FinishDoes
<1>25. CASE StopBmi
  BY <1>0, CaptureAssumption, <1>25, StopBmiDoes
<1>26. CASE StopIcm
  BY <1>0, CaptureAssumption, <1>26, StopIcmDoes
<1>27. CASE SkipIcm
  BY <1>0, CaptureAssumption, <1>27, SkipIcmDoes
<1>28. ASSUME NEW s \in Buses, CloseSpi(s)
      PROVE PadInv'
  BY <1>0, CaptureAssumption, <1>28, CloseSpiDoes
<1>29. CASE Deselect
  BY <1>0, <1>29, CaptureAssumption, Counted, DeselectDoes
<1>30. CASE PadBack
  <2>1. own.k \in 1 .. Len(own.pads) /\ own.k \in Nat /\ Len(own.pads) \in Nat
    BY <1>0, <1>30, CaptureAssumption, Counted, PadBackDoes DEF Held
  <2>2. own.pads[own.k] = found.pad[own.k]
    BY <1>0, <2>1
  <2>3. \A p \in Pads : p > own.k - 1 => p = own.k \/ p > own.k
    BY <2>1
  <2>4. \A p \in Pads : p > own'.k => world'.pad[p] = found.pad[p] \/ report'.errors
    BY <1>0, <1>30, <2>2, <2>3, Counted, PadBackDoes
  <2>5. \A p \in Pads : p > Len(own.pads) => p # own.k
    BY <2>1
  <2> QED
    BY <1>0, <1>30, <2>1, <2>4, <2>5, Counted, PadBackDoes
<1>31. CASE ReleaseCs
  <2>1. \A p \in Pads : p > own.k
    BY <1>31, CaptureAssumption, <1>0, ReleaseCsDoes
  <2>2. world.pad = found.pad \/ report.errors
    <3>1. \A p \in Pads : world.pad[p] = found.pad[p] \/ report.errors
      BY <1>0, <1>31, <2>1, ReleaseCsDoes
    <3>2. world.pad \in [Pads -> Functions] /\ found.pad \in [Pads -> Functions]
      BY <1>0
    <3>3. ~report.errors => world.pad = found.pad
      BY <3>1, <3>2, SamePadsEverywhere
    <3> QED
      BY <3>3
  <2> QED
    BY <1>0, <1>31, <2>2, ReleaseCsDoes
<1>32. ASSUME NEW n \in Nodes, Bind(n)
      PROVE PadInv'
  BY <1>0, CaptureAssumption, <1>32, BindDoes
<1>33. CASE VerifyPads
  BY <1>0, CaptureAssumption, <1>33, VerifyPadsDoes
<1>34. CASE Save
  BY <1>0, CaptureAssumption, <1>34, SaveDoes
<1>35. CASE Signal
  BY <1>0, CaptureAssumption, <1>35, SignalDoes
<1>36. CASE Kill
  BY <1>0, CaptureAssumption, <1>36, KillDoes
<1>37. CASE Restart
  BY <1>0, CaptureAssumption, <1>37, RestartDoes
<1>38. CASE UNCHANGED vars
  BY <1>0, CaptureAssumption, <1>38 DEF vars
<1> HIDE DEF StageInv, PadInv, Boards, Typed, Pads, Front, Looking,
       Selected, IcmStarted, BmiStarted, Capturing, Stopping, Cleanup,
       Points, Failed, KeepsCarrier, KeepsPads, SameCarrier, SamePads, Goes,
       Quits, Fails, Continues, Proceeds, SameVerdict, aside, Nothing,
       Silent
<1> QED
  BY <1>1, <1>2, <1>3, <1>4, <1>5, <1>6, <1>7, <1>8, <1>9, <1>10, <1>11,
     <1>12, <1>13, <1>14, <1>15, <1>16, <1>17, <1>18, <1>19, <1>20, <1>21,
     <1>22, <1>23, <1>24, <1>25, <1>26, <1>27, <1>28, <1>29, <1>30, <1>31,
     <1>32, <1>33, <1>34, <1>35, <1>36, <1>37, <1>38 DEF Next, Main,
     Acquire, Initialise, Capture, Restore

(* The verdict. *)
LEMMA VerdictInvStep == IInv /\ [Next]_vars => VerdictInv'
<1> SUFFICES ASSUME IInv, [Next]_vars PROVE VerdictInv'
  OBVIOUS
<1>0. Typed /\ FlowType /\ StageInv /\ VerdictInv
  BY DEF IInv, OwnType, WorldType, ReportType, Typed
<1> USE DEF FlowType, StageInv, VerdictInv, Front, Looking, Selected,
       IcmStarted, BmiStarted, Capturing, Stopping, Cleanup, Points, Failed,
       KeepsCarrier, KeepsSensors, KeepsLock, KeepsIcm, SameSensors,
       SameIcm, Goes, Quits, Fails, Continues, Proceeds, SameVerdict, aside,
       Nothing, Silent
<1>1. CASE Lock
  BY <1>0, <1>1, LockDoes
<1>2. CASE CheckUsers
  BY <1>0, <1>2, CheckUsersDoes
<1>3. CASE SavePads
  BY <1>0, <1>3, SavePadsDoes
<1>4. ASSUME NEW n \in Nodes, Unbind(n)
      PROVE VerdictInv'
  BY <1>0, <1>4, UnbindDoes
<1>5. CASE RequestCs
  BY <1>0, <1>5, RequestCsDoes
<1>6. CASE MuxPad
  BY <1>0, <1>6, Counted, MuxPadDoes
<1>7. ASSUME NEW s \in Buses, OpenSpi(s)
      PROVE VerdictInv'
  BY <1>0, <1>7, OpenSpiDoes
<1>8. CASE Identify
  BY <1>0, <1>8, IdentifyDoes
<1>9. CASE IcmCheck
  BY <1>0, <1>9, IcmCheckDoes
<1>10. CASE IcmConfigure
  BY <1>0, <1>10, IcmConfigureDoes
<1>11. CASE IcmStart
  BY <1>0, <1>11, IcmStartDoes
<1>12. CASE IcmBank4
  BY <1>0, <1>12, IcmBank4Does
<1>13. CASE IcmOffsets
  BY <1>0, <1>13, IcmOffsetsDoes
<1>14. CASE BmiCheck
  BY <1>0, <1>14, BmiCheckDoes
<1>15. CASE BmiLoad
  BY <1>0, <1>15, BmiLoadDoes
<1>16. CASE BmiWake
  BY <1>0, <1>16, BmiWakeDoes
<1>17. CASE BmiStart
  BY <1>0, <1>17, BmiStartDoes
<1>18. CASE BeginPhase
  BY <1>0, <1>18, BeginPhaseDoes
<1>19. CASE Poll
  BY <1>0, <1>19, PollDoes
<1>20. CASE EndPhase
  BY <1>0, <1>20, EndPhaseDoes
<1>21. CASE Estimate
  BY <1>0, <1>21, PartsDo
<1>22. CASE UseProfile
  BY <1>0, <1>22, PartsDo
<1>23. CASE StaticValidation
  BY <1>0, <1>23, PartsDo
<1>24. CASE Finish
  <2>1. plan = <<>>
    <3>1. plan # <<>> => Head(plan) \in Parts
      BY <1>0
    <3> QED
      BY <1>0, <1>24, <3>1, FinishDoes DEF Ahead, Parts, Phases
  <2> QED
    BY <1>0, <1>24, <2>1, FinishDoes
<1>25. CASE StopBmi
  BY <1>0, <1>25, StopBmiDoes
<1>26. CASE StopIcm
  BY <1>0, <1>26, StopIcmDoes
<1>27. CASE SkipIcm
  BY <1>0, <1>27, SkipIcmDoes
<1>28. ASSUME NEW s \in Buses, CloseSpi(s)
      PROVE VerdictInv'
  BY <1>0, <1>28, CloseSpiDoes
<1>29. CASE Deselect
  BY <1>0, <1>29, Counted, DeselectDoes
<1>30. CASE PadBack
  BY <1>0, <1>30, Counted, PadBackDoes
<1>31. CASE ReleaseCs
  BY <1>0, <1>31, ReleaseCsDoes
<1>32. ASSUME NEW n \in Nodes, Bind(n)
      PROVE VerdictInv'
  BY <1>0, <1>32, BindDoes
<1>33. CASE VerifyPads
  BY <1>0, <1>33, VerifyPadsDoes
<1>34. CASE Save
  BY <1>0, <1>34, SaveDoes
<1>35. CASE Signal
  BY <1>0, <1>35, SignalDoes
<1>36. CASE Kill
  BY <1>0, <1>36, KillDoes
<1>37. CASE Restart
  BY <1>0, <1>37, RestartDoes
<1>38. CASE UNCHANGED vars
  BY <1>0, <1>38 DEF vars
<1> HIDE DEF FlowType, StageInv, VerdictInv, Front, Looking, Selected,
       IcmStarted, BmiStarted, Capturing, Stopping, Cleanup, Points, Failed,
       KeepsCarrier, KeepsSensors, KeepsLock, KeepsIcm, SameSensors,
       SameIcm, Goes, Quits, Fails, Continues, Proceeds, SameVerdict, aside,
       Nothing, Silent
<1> QED
  BY <1>1, <1>2, <1>3, <1>4, <1>5, <1>6, <1>7, <1>8, <1>9, <1>10, <1>11,
     <1>12, <1>13, <1>14, <1>15, <1>16, <1>17, <1>18, <1>19, <1>20, <1>21,
     <1>22, <1>23, <1>24, <1>25, <1>26, <1>27, <1>28, <1>29, <1>30, <1>31,
     <1>32, <1>33, <1>34, <1>35, <1>36, <1>37, <1>38 DEF Next, Main,
     Acquire, Initialise, Capture, Restore

(* Every step keeps the types of what the process holds, of the board and of *)
(* the report.                                                               *)
LEMMA TypesStep == IInv /\ [Next]_vars => (OwnType /\ WorldType /\ ReportType)'
<1> SUFFICES ASSUME IInv, [Next]_vars PROVE (OwnType /\ WorldType /\ ReportType)'
  OBVIOUS
<1>0. Typed /\ WorldType /\ OwnType
  BY DEF IInv, OwnType, WorldType, ReportType, Typed
<1> USE DEF Typed, OwnType, WorldType, ReportType, KeepsCarrier, KeepsPads,
       Goes, Quits, Fails, Continues, Proceeds, SameVerdict, aside, Nothing,
       Silent
<1>1. CASE Lock
  BY <1>0, <1>1, LockDoes
<1>2. CASE CheckUsers
  BY <1>0, <1>2, CheckUsersDoes
<1>3. CASE SavePads
  BY <1>0, <1>3, SavePadsDoes
<1>4. ASSUME NEW n \in Nodes, Unbind(n)
      PROVE (OwnType /\ WorldType /\ ReportType)'
  BY <1>0, <1>4, UnbindDoes
<1>5. CASE RequestCs
  BY <1>0, <1>5, RequestCsDoes
<1>6. CASE MuxPad
  BY <1>0, <1>6, Counted, MuxPadDoes
<1>7. ASSUME NEW s \in Buses, OpenSpi(s)
      PROVE (OwnType /\ WorldType /\ ReportType)'
  BY <1>0, <1>7, OpenSpiDoes
<1>8. CASE Identify
  BY <1>0, <1>8, IdentifyDoes
<1>9. CASE IcmCheck
  BY <1>0, <1>9, IcmCheckDoes
<1>10. CASE IcmConfigure
  BY <1>0, <1>10, IcmConfigureDoes
<1>11. CASE IcmStart
  BY <1>0, <1>11, IcmStartDoes
<1>12. CASE IcmBank4
  BY <1>0, <1>12, IcmBank4Does
<1>13. CASE IcmOffsets
  BY <1>0, <1>13, IcmOffsetsDoes
<1>14. CASE BmiCheck
  BY <1>0, <1>14, BmiCheckDoes
<1>15. CASE BmiLoad
  BY <1>0, <1>15, BmiLoadDoes
<1>16. CASE BmiWake
  BY <1>0, <1>16, BmiWakeDoes
<1>17. CASE BmiStart
  BY <1>0, <1>17, BmiStartDoes
<1>18. CASE BeginPhase
  BY <1>0, <1>18, BeginPhaseDoes
<1>19. CASE Poll
  BY <1>0, <1>19, PollDoes
<1>20. CASE EndPhase
  BY <1>0, <1>20, EndPhaseDoes
<1>21. CASE Estimate
  BY <1>0, <1>21, PartsDo
<1>22. CASE UseProfile
  BY <1>0, <1>22, PartsDo
<1>23. CASE StaticValidation
  BY <1>0, <1>23, PartsDo
<1>24. CASE Finish
  BY <1>0, <1>24, FinishDoes
<1>25. CASE StopBmi
  BY <1>0, <1>25, StopBmiDoes
<1>26. CASE StopIcm
  BY <1>0, <1>26, StopIcmDoes
<1>27. CASE SkipIcm
  BY <1>0, <1>27, SkipIcmDoes
<1>28. ASSUME NEW s \in Buses, CloseSpi(s)
      PROVE (OwnType /\ WorldType /\ ReportType)'
  BY <1>0, <1>28, CloseSpiDoes
<1>29. CASE Deselect
  BY <1>0, <1>29, Counted, DeselectDoes
<1>30. CASE PadBack
  BY <1>0, <1>30, Counted, PadBackDoes
<1>31. CASE ReleaseCs
  BY <1>0, <1>31, ReleaseCsDoes
<1>32. ASSUME NEW n \in Nodes, Bind(n)
      PROVE (OwnType /\ WorldType /\ ReportType)'
  BY <1>0, <1>32, BindDoes
<1>33. CASE VerifyPads
  <2>1. Len(<<>>) \in 0 .. NPads
    BY CaptureAssumption
  <2> QED
    BY <1>0, <1>33, <2>1, VerifyPadsDoes
<1>34. CASE Save
  BY <1>0, <1>34, SaveDoes
<1>35. CASE Signal
  BY <1>0, <1>35, SignalDoes
<1>36. CASE Kill
  <2>1. Len(<<>>) \in 0 .. NPads
    BY CaptureAssumption
  <2> QED
    BY <1>0, <1>36, <2>1, KillDoes
<1>37. CASE Restart
  <2>1. Len(<<>>) \in 0 .. NPads
    BY CaptureAssumption
  <2> QED
    BY <1>0, <1>37, <2>1, RestartDoes
<1>38. CASE UNCHANGED vars
  BY <1>0, <1>38 DEF vars, Held
<1> HIDE DEF Typed, OwnType, WorldType, ReportType, KeepsCarrier, KeepsPads,
       Goes, Quits, Fails, Continues, Proceeds, SameVerdict, aside, Nothing,
       Silent
<1> QED
  BY <1>1, <1>2, <1>3, <1>4, <1>5, <1>6, <1>7, <1>8, <1>9, <1>10, <1>11,
     <1>12, <1>13, <1>14, <1>15, <1>16, <1>17, <1>18, <1>19, <1>20, <1>21,
     <1>22, <1>23, <1>24, <1>25, <1>26, <1>27, <1>28, <1>29, <1>30, <1>31,
     <1>32, <1>33, <1>34, <1>35, <1>36, <1>37, <1>38 DEF Next, Main,
     Acquire, Initialise, Capture, Restore

\* The plan is what is left of one of the plans.
Suffixes == UNION {{SubSeq(p, n + 1, Len(p)) : n \in 0 .. Len(p)} : p \in Plans}
PlanInv == plan \in {<<"open">>, <<"failed">>} \cup Suffixes


LEMMA SequencesEqual ==
  ASSUME NEW s \in Seq(Parts), NEW t \in Seq(Parts), Len(s) = Len(t),
         \A i \in 1 .. Len(t) : s[i] = t[i]
  PROVE  s = t
<1>1. s \in [1 .. Len(t) -> Parts] /\ t \in [1 .. Len(t) -> Parts]
  OBVIOUS
<1> QED
  BY <1>1

LEMMA LastPart ==
  ASSUME NEW p \in Seq(Parts), NEW n \in 0 .. Len(p),
         SubSeq(p, n + 1, Len(p)) # <<>>
  PROVE  /\ n + 1 \in 0 .. Len(p)
         /\ Tail(SubSeq(p, n + 1, Len(p))) = SubSeq(p, (n + 1) + 1, Len(p))
<1> DEFINE q == SubSeq(p, n + 1, Len(p))
<1>1. /\ q \in Seq(Parts) /\ Len(q) = Len(p) - n
      /\ \A i \in 1 .. Len(q) : q[i] = p[n + i]
  OBVIOUS
<1>2. Len(q) # 0
  BY <1>1
<1>3. n + 1 \in 0 .. Len(p)
  BY <1>1, <1>2
<1>4. /\ Tail(q) \in Seq(Parts) /\ Len(Tail(q)) = Len(p) - n - 1
      /\ \A i \in 1 .. Len(Tail(q)) : Tail(q)[i] = q[i + 1]
  BY <1>1, <1>2
<1> DEFINE r == SubSeq(p, (n + 1) + 1, Len(p))
<1>5. /\ r \in Seq(Parts) /\ Len(r) = Len(p) - n - 1
      /\ \A i \in 1 .. Len(r) : r[i] = p[n + 1 + i]
  BY <1>3
<1> HIDE DEF q, r
<1>6. \A i \in 1 .. Len(r) : Tail(q)[i] = r[i]
  <2> SUFFICES ASSUME NEW i \in 1 .. Len(r) PROVE Tail(q)[i] = r[i]
    OBVIOUS
  <2>1. /\ i \in 1 .. Len(Tail(q)) /\ i + 1 \in 1 .. Len(q)
        /\ n + (i + 1) = n + 1 + i
    BY <1>1, <1>3, <1>4, <1>5
  <2>2. Tail(q)[i] = q[i + 1] /\ q[i + 1] = p[n + (i + 1)] /\ r[i] = p[n + 1 + i]
    BY <1>1, <1>4, <1>5, <2>1
  <2> QED
    BY <2>1, <2>2
<1>7. Len(Tail(q)) = Len(r)
  BY <1>4, <1>5
<1>8. Tail(q) = r
  BY <1>4, <1>5, <1>6, <1>7, SequencesEqual
<1> QED
  BY <1>3, <1>8 DEF q, r

LEMMA SuffixesClosed ==
  /\ \A p \in Plans : p \in Suffixes
  /\ \A q \in Suffixes : q # <<>> => Tail(q) \in Suffixes
  /\ Tail(<<"open">>) \in Suffixes /\ Tail(<<"failed">>) \in Suffixes
<1>1. ASSUME NEW p \in Plans PROVE p \in Suffixes
  <2>1. p \in Seq(Parts)
    BY TailsAndPlans
  <2>2. SubSeq(p, 0 + 1, Len(p)) = p /\ 0 \in 0 .. Len(p)
    BY <2>1
  <2> QED
    BY <2>2 DEF Suffixes
<1>2. ASSUME NEW q \in Suffixes, q # <<>> PROVE Tail(q) \in Suffixes
  <2>1. PICK p \in Plans : \E n \in 0 .. Len(p) : q = SubSeq(p, n + 1, Len(p))
    BY DEF Suffixes
  <2>2. PICK n \in 0 .. Len(p) : q = SubSeq(p, n + 1, Len(p))
    BY <2>1
  <2>3. p \in Seq(Parts)
    BY TailsAndPlans
  <2>4. n + 1 \in 0 .. Len(p) /\ Tail(q) = SubSeq(p, (n + 1) + 1, Len(p))
    BY <1>2, <2>2, <2>3, LastPart
  <2> QED
    BY <2>4 DEF Suffixes
<1>3. <<>> \in Plans
  BY DEF Plans
<1>4. Tail(<<"open">>) = <<>> /\ Tail(<<"failed">>) = <<>>
  OBVIOUS
<1> QED
  BY <1>1, <1>2, <1>3, <1>4


\* One step further in the plan.
LEMMA PlanProceeds ==
  ASSUME PlanInv, plan # <<>> PROVE Tail(plan) \in Suffixes
BY SuffixesClosed DEF PlanInv

(* The plan is worked off from its front, and given up as a whole. *)
LEMMA PlanInvStep == PlanInv /\ IInv /\ [Next]_vars => PlanInv'
<1> SUFFICES ASSUME PlanInv, IInv, [Next]_vars PROVE PlanInv'
  OBVIOUS
<1>0. Typed /\ FlowType /\ PlanInv
  BY DEF IInv, OwnType, WorldType, ReportType, Typed
<1> USE DEF PlanInv, Goes, Quits, Fails, Continues, Proceeds, SameVerdict,
       aside, Nothing, Silent
<1>1. CASE Lock
  BY <1>0, <1>1, LockDoes
<1>2. CASE CheckUsers
  BY <1>0, <1>2, CheckUsersDoes
<1>3. CASE SavePads
  BY <1>0, <1>3, SavePadsDoes
<1>4. ASSUME NEW n \in Nodes, Unbind(n)
      PROVE PlanInv'
  BY <1>0, <1>4, UnbindDoes
<1>5. CASE RequestCs
  BY <1>0, <1>5, RequestCsDoes
<1>6. CASE MuxPad
  BY <1>0, <1>6, Counted, MuxPadDoes
<1>7. ASSUME NEW s \in Buses, OpenSpi(s)
      PROVE PlanInv'
  BY <1>0, <1>7, OpenSpiDoes
<1>8. CASE Identify
  BY <1>0, <1>8, IdentifyDoes, SuffixesClosed
<1>9. CASE IcmCheck
  BY <1>0, <1>9, IcmCheckDoes
<1>10. CASE IcmConfigure
  BY <1>0, <1>10, IcmConfigureDoes
<1>11. CASE IcmStart
  BY <1>0, <1>11, IcmStartDoes
<1>12. CASE IcmBank4
  BY <1>0, <1>12, IcmBank4Does
<1>13. CASE IcmOffsets
  BY <1>0, <1>13, IcmOffsetsDoes
<1>14. CASE BmiCheck
  BY <1>0, <1>14, BmiCheckDoes
<1>15. CASE BmiLoad
  BY <1>0, <1>15, BmiLoadDoes
<1>16. CASE BmiWake
  BY <1>0, <1>16, BmiWakeDoes
<1>17. CASE BmiStart
  BY <1>0, <1>17, BmiStartDoes
<1>18. CASE BeginPhase
  BY <1>0, <1>18, BeginPhaseDoes
<1>19. CASE Poll
  BY <1>0, <1>19, PollDoes
<1>20. CASE EndPhase
  <2>1. plan # <<>>
    BY <1>0, <1>20, EndPhaseDoes DEF FlowType
  <2> QED
    BY <1>0, <1>20, <2>1, EndPhaseDoes, PlanProceeds
<1>21. CASE Estimate
  BY <1>0, <1>21, PartsDo, PlanProceeds
<1>22. CASE UseProfile
  BY <1>0, <1>22, PartsDo, PlanProceeds
<1>23. CASE StaticValidation
  BY <1>0, <1>23, PartsDo, PlanProceeds
<1>24. CASE Finish
  BY <1>0, <1>24, FinishDoes
<1>25. CASE StopBmi
  BY <1>0, <1>25, StopBmiDoes
<1>26. CASE StopIcm
  BY <1>0, <1>26, StopIcmDoes
<1>27. CASE SkipIcm
  BY <1>0, <1>27, SkipIcmDoes
<1>28. ASSUME NEW s \in Buses, CloseSpi(s)
      PROVE PlanInv'
  BY <1>0, <1>28, CloseSpiDoes
<1>29. CASE Deselect
  BY <1>0, <1>29, Counted, DeselectDoes
<1>30. CASE PadBack
  BY <1>0, <1>30, Counted, PadBackDoes
<1>31. CASE ReleaseCs
  BY <1>0, <1>31, ReleaseCsDoes
<1>32. ASSUME NEW n \in Nodes, Bind(n)
      PROVE PlanInv'
  BY <1>0, <1>32, BindDoes
<1>33. CASE VerifyPads
  BY <1>0, <1>33, VerifyPadsDoes
<1>34. CASE Save
  BY <1>0, <1>34, SaveDoes
<1>35. CASE Signal
  BY <1>0, <1>35, SignalDoes
<1>36. CASE Kill
  BY <1>0, <1>36, KillDoes
<1>37. CASE Restart
  BY <1>0, <1>37, RestartDoes
<1>38. CASE UNCHANGED vars
  BY <1>0, <1>38 DEF vars
<1> HIDE DEF PlanInv, Goes, Quits, Fails, Continues, Proceeds, SameVerdict,
       aside, Nothing, Silent
<1> QED
  BY <1>1, <1>2, <1>3, <1>4, <1>5, <1>6, <1>7, <1>8, <1>9, <1>10, <1>11,
     <1>12, <1>13, <1>14, <1>15, <1>16, <1>17, <1>18, <1>19, <1>20, <1>21,
     <1>22, <1>23, <1>24, <1>25, <1>26, <1>27, <1>28, <1>29, <1>30, <1>31,
     <1>32, <1>33, <1>34, <1>35, <1>36, <1>37, <1>38 DEF Next, Main,
     Acquire, Initialise, Capture, Restore

\* While nothing is on record, a pad is moved before the sensors are started
\* or after they have been stopped.
LEMMA RestAtMux ==
  ASSUME IInv, pc \in {"mux", "padsBack"}
  PROVE  (world.icm = found.icm /\ world.bmi = found.bmi) \/ Failed
<1>1. StageInv /\ SensorInv
  BY DEF IInv
<1>2. CASE pc = "mux"
  <2>1. ~own.icm /\ ~own.bmi
    BY <1>1, <1>2 DEF StageInv, Front, Selected, IcmStarted, BmiStarted, Capturing
  <2> QED
    BY <1>1, <1>2, <2>1 DEF SensorInv, Failed
<1>3. CASE pc = "padsBack"
  BY <1>1, <1>3 DEF SensorInv, Failed, Cleanup
<1> QED
  BY <1>2, <1>3

(* The two actions that move pads are found at those points. *)
LEMMA PadsMoveStep == IInv /\ [Next]_vars => world'.pad = world.pad \/ pc \in {"mux", "padsBack"}
<1> SUFFICES ASSUME IInv, [Next]_vars PROVE world'.pad = world.pad \/ pc \in {"mux", "padsBack"}
  OBVIOUS
<1>0. Typed /\ TRUE
  BY DEF IInv, OwnType, WorldType, ReportType, Typed
<1> USE DEF Typed, KeepsCarrier, SameCarrier, SamePads, Goes, Quits, Fails,
       Continues, Proceeds, SameVerdict, aside, Nothing, Silent
<1>1. CASE Lock
  BY <1>0, <1>1, LockDoes
<1>2. CASE CheckUsers
  BY <1>0, <1>2, CheckUsersDoes
<1>3. CASE SavePads
  BY <1>0, <1>3, SavePadsDoes
<1>4. ASSUME NEW n \in Nodes, Unbind(n)
      PROVE world'.pad = world.pad \/ pc \in {"mux", "padsBack"}
  BY <1>0, <1>4, UnbindDoes
<1>5. CASE RequestCs
  BY <1>0, <1>5, RequestCsDoes
<1>6. CASE MuxPad
  BY <1>0, <1>6, Counted, MuxPadDoes
<1>7. ASSUME NEW s \in Buses, OpenSpi(s)
      PROVE world'.pad = world.pad \/ pc \in {"mux", "padsBack"}
  BY <1>0, <1>7, OpenSpiDoes
<1>8. CASE Identify
  BY <1>0, <1>8, IdentifyDoes
<1>9. CASE IcmCheck
  BY <1>0, <1>9, IcmCheckDoes
<1>10. CASE IcmConfigure
  BY <1>0, <1>10, IcmConfigureDoes
<1>11. CASE IcmStart
  BY <1>0, <1>11, IcmStartDoes
<1>12. CASE IcmBank4
  BY <1>0, <1>12, IcmBank4Does
<1>13. CASE IcmOffsets
  BY <1>0, <1>13, IcmOffsetsDoes
<1>14. CASE BmiCheck
  BY <1>0, <1>14, BmiCheckDoes
<1>15. CASE BmiLoad
  BY <1>0, <1>15, BmiLoadDoes
<1>16. CASE BmiWake
  BY <1>0, <1>16, BmiWakeDoes
<1>17. CASE BmiStart
  BY <1>0, <1>17, BmiStartDoes
<1>18. CASE BeginPhase
  BY <1>0, <1>18, BeginPhaseDoes
<1>19. CASE Poll
  BY <1>0, <1>19, PollDoes
<1>20. CASE EndPhase
  BY <1>0, <1>20, EndPhaseDoes
<1>21. CASE Estimate
  BY <1>0, <1>21, PartsDo
<1>22. CASE UseProfile
  BY <1>0, <1>22, PartsDo
<1>23. CASE StaticValidation
  BY <1>0, <1>23, PartsDo
<1>24. CASE Finish
  BY <1>0, <1>24, FinishDoes
<1>25. CASE StopBmi
  BY <1>0, <1>25, StopBmiDoes
<1>26. CASE StopIcm
  BY <1>0, <1>26, StopIcmDoes
<1>27. CASE SkipIcm
  BY <1>0, <1>27, SkipIcmDoes
<1>28. ASSUME NEW s \in Buses, CloseSpi(s)
      PROVE world'.pad = world.pad \/ pc \in {"mux", "padsBack"}
  BY <1>0, <1>28, CloseSpiDoes
<1>29. CASE Deselect
  BY <1>0, <1>29, Counted, DeselectDoes
<1>30. CASE PadBack
  BY <1>0, <1>30, Counted, PadBackDoes
<1>31. CASE ReleaseCs
  BY <1>0, <1>31, ReleaseCsDoes
<1>32. ASSUME NEW n \in Nodes, Bind(n)
      PROVE world'.pad = world.pad \/ pc \in {"mux", "padsBack"}
  BY <1>0, <1>32, BindDoes
<1>33. CASE VerifyPads
  BY <1>0, <1>33, VerifyPadsDoes
<1>34. CASE Save
  BY <1>0, <1>34, SaveDoes
<1>35. CASE Signal
  BY <1>0, <1>35, SignalDoes
<1>36. CASE Kill
  BY <1>0, <1>36, KillDoes
<1>37. CASE Restart
  BY <1>0, <1>37, RestartDoes
<1>38. CASE UNCHANGED vars
  BY <1>0, <1>38 DEF vars
<1> HIDE DEF Typed, KeepsCarrier, SameCarrier, SamePads, Goes, Quits, Fails,
       Continues, Proceeds, SameVerdict, aside, Nothing, Silent
<1> QED
  BY <1>1, <1>2, <1>3, <1>4, <1>5, <1>6, <1>7, <1>8, <1>9, <1>10, <1>11,
     <1>12, <1>13, <1>14, <1>15, <1>16, <1>17, <1>18, <1>19, <1>20, <1>21,
     <1>22, <1>23, <1>24, <1>25, <1>26, <1>27, <1>28, <1>29, <1>30, <1>31,
     <1>32, <1>33, <1>34, <1>35, <1>36, <1>37, <1>38 DEF Next, Main,
     Acquire, Initialise, Capture, Restore


-----------------------------------------------------------------------------
(* A run of the first process starts on a board like every later one.      *)
LEMMA InitIInv == Init => IInv
<1> SUFFICES ASSUME Init PROVE IInv
  OBVIOUS
<1>1. PICK b \in SUBSET Nodes, out \in BOOLEAN, i \in {"rest", "sampling"},
           m \in {"suspend", "sampling"} :
        world = [pad |-> [p \in Pads |-> "linux"], bound |-> b,
                 out |-> out, low |-> FALSE,
                 spi |-> [s \in Buses |-> "linux"],
                 icm |-> i, bank |-> 0, bmi |-> m]
  BY DEF Init
<1>2. /\ [p \in Pads |-> "linux"] \in [Pads -> Functions]
      /\ [s \in Buses |-> "linux"] \in [Buses -> Functions]
  BY DEF Functions
<1>3. world \in Boards /\ ~world.low
  BY <1>1, <1>2 DEF Boards
<1>4. /\ pc = "lock" /\ plan = <<"open">> /\ own = Nothing /\ report = Silent
      /\ ~interrupted /\ ~early /\ runs = 1 /\ found = world
      /\ interrupted \in BOOLEAN /\ early \in BOOLEAN
  BY DEF Init
<1>5. Held
  <2>1. <<>> \in [{} -> Functions]
    OBVIOUS
  <2>2. <<>> \in Settings
    BY <2>1 DEF Settings
  <2>3. <<>> \in Seq(Functions) /\ 0 \in 0 .. NPads
    BY CaptureAssumption
  <2> QED
    BY <1>4, <2>2, <2>3 DEF Held, Fields, Nothing
<1>6. Len(own.pads) = 0 /\ own.pads = <<>> /\ own.spi = <<>> /\ own.k = 0
  BY <1>4 DEF Nothing
<1>7. OwnType /\ WorldType /\ ReportType /\ FlowType
  <2>1. Silent \in Reports
    BY DEF Silent, Reports
  <2>2. 1 \in 1 .. MaxRuns /\ 0 \in 0 .. NPads
    BY CaptureAssumption
  <2> QED
    BY <1>3, <1>4, <1>5, <1>6, <2>1, <2>2, TailsAndPlans
       DEF OwnType, WorldType, ReportType, FlowType, Points, Front, Looking
<1>8. ~own.icm /\ ~own.bmi /\ ~own.cs /\ own.detached = {} /\ own.gap = 450
  BY <1>4 DEF Nothing
<1>9. /\ ~report.errors /\ ~report.masked /\ ~report.ok /\ ~report.sick
      /\ report.rc = 2
  BY <1>4 DEF Silent
<1>10. StageInv /\ VerdictInv /\ GapInv
  BY <1>4, <1>8, <1>9 DEF StageInv, VerdictInv, GapInv, IcmStarted, BmiStarted,
     Capturing, Cleanup
<1>11. PadInv /\ DriverInv
  BY <1>4, <1>6, <1>8 DEF PadInv, DriverInv, Looking, Selected, Cleanup
<1>12. SelectInv /\ BusInv /\ SensorInv
  BY <1>3, <1>4, <1>6, <1>8 DEF SelectInv, BusInv, SensorInv, Looking, Selected,
     Stopping, Cleanup
<1> QED
  BY <1>7, <1>10, <1>11, <1>12 DEF IInv

(* The strengthening is an invariant of the tool. *)
THEOREM Invariance == Spec => []IInv
<1>1. IInv /\ [Next]_vars => IInv'
  BY TypesStep, FlowTypeStep, StageInvStep, VerdictInvStep, PadInvStep,
     DriverInvStep, SelectInvStep, BusInvStep, SensorInvStep, GapInvStep
     DEF IInv
<1> QED
  BY <1>1, InitIInv, PTL DEF Spec

(* At the exit the board is as this run found it, or the exit code or the  *)
(* report say that it may not be, whatever failed on the way.              *)
LEMMA ExitGivesBack == IInv => ReportedOrRestored
<1> SUFFICES ASSUME IInv, pc = "exit", ~report.errors, ~report.masked
             PROVE  world = found
  BY DEF ReportedOrRestored
<1>1. world \in Boards /\ found \in Boards
  BY DEF IInv, WorldType
<1>2. ~own.icm /\ ~own.bmi /\ ~own.cs /\ own.detached = {}
      /\ DOMAIN own.spi = {}
  BY DEF IInv, SensorInv, SelectInv, DriverInv, BusInv
<1>3. world.pad = found.pad
  BY DEF IInv, PadInv
<1>4. world.bound = found.bound
  BY <1>2 DEF IInv, DriverInv
<1>5. (world.out <=> found.out) /\ (world.low <=> found.low)
  BY <1>2 DEF IInv, SelectInv
<1>6. world.spi = found.spi
  <2>1. \A s \in Buses : world.spi[s] = found.spi[s]
    BY <1>2 DEF IInv, BusInv, Failed
  <2>2. world.spi \in [Buses -> Functions] /\ found.spi \in [Buses -> Functions]
    BY <1>1 DEF Boards
  <2> QED
    BY <2>1, <2>2
<1>7. world.icm = found.icm /\ world.bank = found.bank /\ world.bmi = found.bmi
  BY <1>2 DEF IInv, SensorInv, Failed
<1>8. world.out = found.out /\ world.low = found.low
  BY <1>1, <1>5 DEF Boards
<1> QED
  BY <1>1, <1>3, <1>4, <1>6, <1>7, <1>8 DEF Boards

(* Every variable keeps its type.                                          *)
THEOREM TypeCorrect == Spec => []TypeOK
<1>1. PlanInv /\ IInv /\ [Next]_vars => PlanInv'
  BY PlanInvStep
<1>2. Init => PlanInv
  BY DEF Init, PlanInv
<1>3. PlanInv /\ IInv => TypeOK
  <2> SUFFICES ASSUME PlanInv, IInv PROVE TypeOK
    OBVIOUS
  <2>1. own.pads \in UNION {[1 .. n -> {"linux", "imu"}] : n \in 0 .. NPads}
    BY DEF IInv, OwnType, Held, Functions
  <2>2. DOMAIN own.spi \subseteq Buses
    BY DEF IInv, OwnType, Held, Settings
  <2>3. report \in [sick : BOOLEAN, ok : BOOLEAN, errors : BOOLEAN,
                    masked : BOOLEAN, rc : {0, 1, 2, 130}]
    BY DEF IInv, ReportType, Reports
  <2>4. world \in [pad : [Pads -> {"linux", "imu"}], bound : SUBSET Nodes,
          out : BOOLEAN, low : BOOLEAN, spi : [Buses -> {"linux", "imu"}],
          icm : {"rest", "mixed", "sampling"}, bank : {0, 4},
          bmi : {"suspend", "asleep", "awake", "sampling"}]
    BY DEF IInv, WorldType, Boards, Functions
  <2> QED
    BY <2>1, <2>2, <2>3, <2>4
       DEF TypeOK, PlanInv, Suffixes, IInv, FlowType, OwnType, Held
<1> QED
  BY <1>1, <1>2, <1>3, Invariance, PTL DEF Spec

(* Whatever failed and wherever, at the end the board is as this run found *)
(* it, or the cleanup has reported an error; the two exceptions are named  *)
(* by masked.                                                              *)
THEOREM BoardIsGivenBack == Spec => []ReportedOrRestored
  BY ExitGivesBack, Invariance, PTL

(* Exit code 0 is earned.                                                  *)
THEOREM PassingIsEarned == Spec => []PassedIsEarned
<1>1. IInv => PassedIsEarned
  BY ExitGivesBack DEF IInv, VerdictInv, PassedIsEarned, ReportedOrRestored
<1> QED
  BY <1>1, Invariance, PTL

(* No pad is switched under a driver, also when runs are killed.           *)
THEOREM DriversKeepPads == Spec => []DriversOwnPads
<1>1. IInv => DriversOwnPads
  BY DEF IInv, DriverInv, DriversOwnPads
<1> QED
  BY <1>1, Invariance, PTL

(* A sensor in use is left alone.                                          *)
THEOREM SensorsInUseAreLeft == Spec => []ForeignSensorsUntouched
<1>1. IInv => ForeignSensorsUntouched
  BY DEF IInv, SensorInv, ForeignSensorsUntouched
<1> QED
  BY <1>1, Invariance, PTL

(* A BMI that sleeps is never accessed with the short wait.                *)
THEOREM WaitIsLongEnough == Spec => []GapFitsSensor
<1>1. IInv => GapFitsSensor
  BY DEF IInv, OwnType, Held, GapInv, GapFitsSensor
<1> QED
  BY <1>1, Invariance, PTL

(* Pads move only while the sensors are as the run found them.             *)
THEOREM PadsMoveAtRest == Spec => PadsMoveWhenSensorsRest
<1>1. IInv /\ [Next]_vars
        => [world'.pad # world.pad =>
              \/ world.icm = found.icm /\ world.bmi = found.bmi
              \/ report.errors \/ report.masked]_vars
  BY PadsMoveStep, RestAtMux DEF Failed
<1> QED
  BY <1>1, Invariance, PTL DEF Spec, PadsMoveWhenSensorsRest
=============================================================================
