----------------------------- MODULE ImuCapture -----------------------------
(***************************************************************************)
(* One run after the other of the dual IMU tool (cpp/imu): main takes the  *)
(* carrier from Linux (CarrierV11), opens two SPI devices, starts the      *)
(* ICM-42688-P and the BMI270, captures phase by phase and gives all of it *)
(* back, from whichever line an exception leaves the try block.            *)
(*                                                                         *)
(* Every system call and every SPI transfer may fail. A failed transfer    *)
(* may or may not have reached the sensor. A signal may arrive and the     *)
(* process may be killed between any two steps; the next run finds what    *)
(* the killed one left. Samples are reduced to good and bad ones.          *)
(***************************************************************************)
EXTENDS Integers, Sequences

CONSTANTS
  NPads,        \* pads whose function is switched, in the order of the table
  NNodes,       \* I2C controllers that are unbound, in the order of the loop
  Options,      \* parts of a capture that the command line may add
  MaxRuns       \* bound: processes started one after the other

ASSUME CaptureAssumption ==
  NPads \in Nat \ {0} /\ NNodes \in Nat \ {0} /\ MaxRuns \in Nat \ {0}
  /\ Options \subseteq {"warmup", "profile", "static"}

VARIABLES
  pc,           \* where main is
  plan,         \* what is left to do after the initialisation
  own,          \* what the process holds and remembers
  report,       \* what it has to say
  interrupted,  \* the flag of the signal handler
  world,        \* pads, drivers, GPIO line, SPI settings and sensors
  found, early, runs  \* for the properties

vars == <<pc, plan, own, report, interrupted, world, found, early, runs>>

Pads == 1 .. NPads
Nodes == 1 .. NNodes
Buses == {"icm", "bmi"}

(* What main does after the initialisation, step by step. A new bias needs *)
(* a warm-up and a static validation; a probe captures nothing. The        *)
(* command line matters, and is chosen here, once the sensors have been    *)
(* identified.                                                             *)
Phases == {"warmup", "calibration", "validation"}
Plans ==
  LET Part(name) == {<<>>} \cup {<<o>> : o \in Options \cap {name}} IN
  {<<>>, <<"warmup", "calibration", "estimate", "profile", "validation", "static">>}
    \cup {w \o p \o <<"validation">> \o s :
            w \in Part("warmup"), p \in Part("profile"), s \in Part("static")}

(* pads and spi hold the values to restore; k counts pads; gap is the wait *)
(* after a transfer to the BMI in microseconds.                            *)
Nothing ==
  [lock |-> FALSE, pads |-> <<>>, k |-> 0, detached |-> {}, cs |-> FALSE,
   spi |-> <<>>, icm |-> FALSE, bmi |-> FALSE, oldIcm |-> "rest", gap |-> 450]

\* sick: bad samples in this phase; ok: complete; errors: of the cleanup.
Silent == [sick |-> FALSE, ok |-> FALSE, errors |-> FALSE,
           masked |-> FALSE, rc |-> 2]

Start ==
  /\ pc' = "lock" /\ plan' = <<"open">> /\ own' = Nothing /\ report' = Silent
  /\ interrupted' = FALSE /\ early' = FALSE

Init ==
  /\ pc = "lock" /\ plan = <<"open">> /\ own = Nothing /\ report = Silent
  /\ interrupted = FALSE /\ early = FALSE /\ runs = 1
  /\ \E b \in SUBSET Nodes, out \in BOOLEAN,
        i \in {"rest", "sampling"}, m \in {"suspend", "sampling"} :
       world = [pad |-> [p \in Pads |-> "linux"], bound |-> b,
                out |-> out, low |-> FALSE,
                spi |-> [s \in Buses |-> "linux"],
                icm |-> i, bank |-> 0, bmi |-> m]
  /\ found = world

-----------------------------------------------------------------------------
Goto(point) == pc' = point /\ UNCHANGED <<interrupted, found, early, runs>>
\* An exception leaves the try block of main; the cleanup begins.
Left == Goto("stopBmi") /\ plan' = <<"failed">>
Raise == Left /\ report' = [report EXCEPT !.sick = FALSE]
Go(point) == Goto(point) /\ UNCHANGED <<plan, report>>
Throw == Raise /\ UNCHANGED <<own, world>>

(* The first summary and the lock file.                                    *)
Lock ==
  /\ pc = "lock"
  /\ \/ own' = [own EXCEPT !.lock = TRUE] /\ Go("users") /\ UNCHANGED world
     \/ Throw

(* Nobody has a bus open, no I2C client is bound, PWM4/5 are off.          *)
CheckUsers ==
  /\ pc = "users"
  /\ (Go("pads") /\ UNCHANGED <<own, world>>) \/ Throw

(* All pads are read before anything is changed.                           *)
SavePads ==
  /\ pc = "pads" /\ UNCHANGED world
  /\ \E n \in 0 .. NPads :
       /\ own' = [own EXCEPT !.pads = [p \in 1 .. n |-> world.pad[p]]]
       /\ (n = NPads /\ Go("unbind")) \/ Raise

(* A controller without its driver is not what this tool expects.          *)
Unbind(n) ==
  /\ pc = "unbind" /\ n \notin own.detached /\ 1 .. n - 1 \subseteq own.detached
  /\ \/ /\ n \in world.bound /\ Go("unbind")
        /\ world' = [world EXCEPT !.bound = @ \ {n}]
        /\ own' = [own EXCEPT !.detached = @ \cup {n}]
     \/ Throw

(* Faulty variant: goes on after the first controller.                    *)
RequestCsEarly ==
  /\ pc = "unbind" /\ own.detached # {}
  /\ \/ /\ ~world.out /\ world' = [world EXCEPT !.out = TRUE, !.low = FALSE]
        /\ own' = [own EXCEPT !.cs = TRUE]
        /\ Go("mux") \/ Raise
     \/ Throw

(* Faulty variant: a line that is an output already is taken over.         *)
RequestCsAnyway ==
  /\ pc = "unbind" /\ own.detached = Nodes
  /\ \/ /\ world' = [world EXCEPT !.out = TRUE, !.low = FALSE]
        /\ own' = [own EXCEPT !.cs = TRUE]
        /\ Go("mux") \/ Raise
     \/ Throw

(* The chip select becomes an output, high; the four alternate lines       *)
(* become inputs. A chip select left as an output is somebody else's.      *)
RequestCs ==
  /\ pc = "unbind" /\ own.detached = Nodes
  /\ \/ /\ ~world.out /\ world' = [world EXCEPT !.out = TRUE, !.low = FALSE]
        /\ own' = [own EXCEPT !.cs = TRUE]
        /\ Go("mux") \/ Raise
     \/ Throw

(* write32 reads back what it wrote.                                       *)
MuxPad ==
  /\ pc = "mux"
  /\ LET p == own.k + 1 IN
     /\ own' = [own EXCEPT !.k = p]
     /\ \/ /\ world' = [world EXCEPT !.pad[p] = "imu"]
           /\ Go(IF p = NPads THEN "spi" ELSE "mux") \/ Raise
        \/ Raise /\ UNCHANGED world

(* The constructor of Spi: a failure after the first setting restores the  *)
(* old ones, and nobody hears of it when that fails as well.               *)
OpenSpi(s) ==
  /\ pc = "spi" /\ DOMAIN own.spi = (IF s = "icm" THEN {} ELSE {"icm"})
  /\ \/ /\ own' = [own EXCEPT !.spi = [b \in DOMAIN @ \cup {s} |->
                                         IF b = s THEN world.spi[s] ELSE @[b]]]
        /\ world' = [world EXCEPT !.spi[s] = "imu"]
        /\ Go(IF s = "bmi" THEN "identify" ELSE "spi")
     \/ Throw
     \/ /\ world' = [world EXCEPT !.spi[s] = "imu"] /\ UNCHANGED own
        /\ Left /\ report' = [report EXCEPT !.masked = TRUE]

-----------------------------------------------------------------------------
\* A failed BMI transfer may leave its chip select low.
BmiFails(states) ==
  \E m \in states, low \in BOOLEAN :
    Raise /\ world' = [world EXCEPT !.bmi = m, !.low = low]

(* A hundred identity reads of each sensor.                                *)
Identify ==
  /\ pc = "identify" /\ UNCHANGED own
  /\ \/ /\ plan' \in Plans /\ UNCHANGED <<world, report>>
        /\ Goto(IF plan' = <<>> THEN "plan" ELSE "icmCheck")
     \/ BmiFails({world.bmi})

(* Faulty variant: a sensor that samples already is configured anew.       *)
IcmCheckIdOnly ==
  /\ pc = "icmCheck"
  /\ \/ /\ world.bank = 0 /\ Go("icmConfigure") /\ UNCHANGED world
        /\ own' = [own EXCEPT !.oldIcm = world.icm]
     \/ Throw

(* Bank 0, not sampling; then its registers are remembered.                *)
IcmCheck ==
  /\ pc = "icmCheck"
  /\ \/ /\ world.bank = 0 /\ world.icm # "sampling"
        /\ Go("icmConfigure") /\ UNCHANGED world
        /\ own' = [own EXCEPT !.oldIcm = world.icm]
     \/ Throw

IcmConfigure ==
  /\ pc = "icmConfigure" /\ own' = [own EXCEPT !.icm = TRUE]
  /\ \/ world' = [world EXCEPT !.icm = "mixed"] /\ (Go("icmStart") \/ Raise)
     \/ Raise /\ UNCHANGED world

IcmStart ==
  /\ pc = "icmStart" /\ UNCHANGED own
  /\ \/ world' = [world EXCEPT !.icm = "sampling"] /\ (Go("icmBank4") \/ Raise)
     \/ Raise /\ UNCHANGED world

(* The offsets are in bank 4. A failed read tries to go back to bank 0;    *)
(* that write may fail too, like either of the others.                     *)
IcmBank4 ==
  /\ pc = "icmBank4" /\ UNCHANGED own
  /\ \/ world' = [world EXCEPT !.bank = 4] /\ (Go("icmOffsets") \/ Raise)
     \/ Throw
IcmOffsets ==
  /\ pc = "icmOffsets" /\ UNCHANGED own
  /\ \/ world' = [world EXCEPT !.bank = 0] /\ (Go("bmiCheck") \/ Raise)
     \/ Throw

(* Only a BMI that nobody has initialised since its last reset.            *)
BmiCheck ==
  /\ pc = "bmiCheck" /\ UNCHANGED own
  /\ \/ world.bmi = "suspend" /\ Go("bmiLoad") /\ UNCHANGED world
     \/ BmiFails({world.bmi})

BmiLoad ==
  /\ pc = "bmiLoad" /\ own' = [own EXCEPT !.bmi = TRUE]
  /\ \/ world' = [world EXCEPT !.bmi = "asleep"] /\ Go("bmiWake")
     \/ BmiFails({"suspend", "asleep"})

(* Power saving off; from then on a short wait is enough.                  *)
BmiWake ==
  /\ pc = "bmiWake"
  /\ \/ /\ world' = [world EXCEPT !.bmi = "awake"] /\ Go("bmiStart")
        /\ own' = [own EXCEPT !.gap = 2]
     \/ BmiFails({"asleep", "awake"}) /\ UNCHANGED own

BmiStart ==
  /\ pc = "bmiStart" /\ UNCHANGED own
  /\ \/ world' = [world EXCEPT !.bmi = "sampling"] /\ Go("plan")
     \/ BmiFails({"awake", "sampling"})

-----------------------------------------------------------------------------
Ahead == IF plan = <<>> THEN "end" ELSE Head(plan)
Done == Goto("plan") /\ plan' = Tail(plan) /\ UNCHANGED report

(* New streams for every phase; files and the summary may fail.            *)
BeginPhase ==
  /\ pc = "plan" /\ Ahead \in Phases /\ UNCHANGED <<own, world>>
  /\ \/ /\ Goto("poll") /\ UNCHANGED plan
        /\ report' = [report EXCEPT !.sick = FALSE]
     \/ Raise

(* One round of the polling loop: a sample may be invalid or saturated;    *)
(* a timeout, a health check, a temperature or a transfer may end the run. *)
Poll ==
  /\ pc = "poll" /\ ~interrupted /\ UNCHANGED own
  /\ \/ \E bad \in BOOLEAN : /\ Goto("poll") /\ UNCHANGED <<plan, world>>
                             /\ report' = [report EXCEPT !.sick = @ \/ bad]
     \/ BmiFails({world.bmi})

(* Time is up or a signal came. Too few samples, an output that never      *)
(* changes and a file that cannot be closed are failures as well.          *)
EndPhase ==
  /\ pc = "poll" /\ UNCHANGED <<own, world>>
  /\ \/ ~interrupted /\ ~report.sick /\ Done
     \/ Raise

(* The quality of the calibration decides whether there is a bias; the     *)
(* profile must fit both configurations, and it is written to its file.    *)
Estimate ==
  /\ pc = "plan" /\ Ahead = "estimate" /\ UNCHANGED <<own, world>>
  /\ Done \/ Raise
UseProfile ==
  /\ pc = "plan" /\ Ahead = "profile" /\ UNCHANGED <<own, world>>
  /\ Done \/ Raise
StaticValidation ==
  /\ pc = "plan" /\ Ahead = "static" /\ UNCHANGED <<own, world>>
  /\ Done \/ Raise

(* Faulty variant: whatever comes through to here is complete.             *)
FinishAlways ==
  /\ pc = "plan" /\ Ahead = "end"
  /\ report' = [report EXCEPT !.ok = TRUE]
  /\ Goto("stopBmi") /\ UNCHANGED <<plan, own, world>>

Finish ==
  /\ pc = "plan" /\ Ahead = "end"
  /\ report' = [report EXCEPT !.ok = ~interrupted]
  /\ Goto("stopBmi") /\ UNCHANGED <<plan, own, world>>

-----------------------------------------------------------------------------
(* The cleanup: every step is attempted, failures are collected.           *)
Attempt(ok, point) ==
  /\ Goto(point) /\ UNCHANGED plan
  /\ report' = [report EXCEPT !.errors = @ \/ ~ok]

\* The destructors run stop() once more; their failures are only printed.
Stops == {<<"stopBmi", "stopIcm">>, <<"retryBmi", "retryIcm">>}

(* Faulty variant: the reset is sent with the wait of a running sensor.    *)
StopBmiHasty ==
  \E s \in Stops : \E ok \in {TRUE, ~own.bmi} :
    /\ pc = s[1] /\ Attempt(ok \/ s[1] = "retryBmi", s[2])
    /\ own' = [own EXCEPT !.bmi = @ /\ ~ok]
    /\ \/ ~own.bmi /\ UNCHANGED world
       \/ ok /\ own.bmi /\ world' = [world EXCEPT !.bmi = "suspend", !.low = FALSE]
       \/ \E m \in {world.bmi, "suspend"}, low \in BOOLEAN :
            ~ok /\ world' = [world EXCEPT !.bmi = m, !.low = low]

(* A soft reset, with the long wait again, and a look at what it did.      *)
StopBmi ==
  \E s \in Stops : \E ok \in {TRUE, ~own.bmi} :
    /\ pc = s[1] /\ Attempt(ok \/ s[1] = "retryBmi", s[2])
    /\ own' = [own EXCEPT !.bmi = @ /\ ~ok,
                          !.gap = IF own.bmi THEN 450 ELSE @]
    /\ \/ ~own.bmi /\ UNCHANGED world
       \/ ok /\ own.bmi /\ world' = [world EXCEPT !.bmi = "suspend", !.low = FALSE]
       \/ \E m \in {world.bmi, "suspend"}, low \in BOOLEAN :
            ~ok /\ world' = [world EXCEPT !.bmi = m, !.low = low]

\* The transfers of Icm42688::stop may end anywhere. In bank 4 they do not
\* reach the registers in question, and may still read back as written.
IcmStopped(ok) ==
  IF world.bank = 0
    THEN \E i \in (IF ok THEN {own.oldIcm}
                  ELSE {world.icm, "mixed", "rest", own.oldIcm}) :
           world' = [world EXCEPT !.icm = i]
    ELSE UNCHANGED world

(* Faulty variant: only a run that succeeded stops its sensor.             *)
StopIcmOnSuccess ==
  \E point \in {"stopIcm", "retryIcm"}, ok \in BOOLEAN :
    /\ pc = point /\ own.icm /\ (ok => report.ok)
    /\ IcmStopped(ok) /\ own' = [own EXCEPT !.icm = ~ok]
    /\ Goto(IF point = "stopIcm" THEN "retryBmi" ELSE "closeSpi")
    /\ UNCHANGED <<plan, report>>

StopIcm ==
  \E point \in {"stopIcm", "retryIcm"}, ok \in BOOLEAN :
    /\ pc = point /\ own.icm
    /\ IcmStopped(ok) /\ own' = [own EXCEPT !.icm = ~ok]
    /\ Goto(IF point = "stopIcm" THEN "retryBmi" ELSE "closeSpi")
    /\ UNCHANGED plan
    /\ report' = [report EXCEPT
         !.errors = @ \/ (~ok /\ point = "stopIcm"),
         !.masked = @ \/ (ok /\ world.bank # 0)]

SkipIcm ==
  /\ pc \in {"stopIcm", "retryIcm"} /\ ~own.icm
  /\ Go(IF pc = "stopIcm" THEN "retryBmi" ELSE "closeSpi")
  /\ UNCHANGED <<own, world>>

(* Spi::close writes the old settings back and closes the device anyway.   *)
CloseSpi(s) ==
  /\ pc = "closeSpi" /\ s \in DOMAIN own.spi
  /\ s = "bmi" => "icm" \notin DOMAIN own.spi
  /\ own' = [own EXCEPT !.spi = [b \in DOMAIN @ \ {s} |-> @[b]]]
  /\ \E ok \in BOOLEAN :
       /\ Attempt(ok, "closeSpi")
       /\ world' = IF ok THEN [world EXCEPT !.spi[s] = own.spi[s]] ELSE world

(* CarrierV11::restore: first the chip select goes high.                   *)
Deselect ==
  /\ pc = "closeSpi" /\ own.spi = <<>>
  /\ own' = [own EXCEPT !.k = Len(own.pads)]
  /\ \E ok \in {TRUE, ~own.cs} :
       /\ Attempt(ok, "padsBack")
       /\ world' = IF ok /\ own.cs THEN [world EXCEPT !.low = FALSE] ELSE world

(* Faulty variant: after a failure the loop starts again.                  *)
PadBackUntilOk ==
  /\ pc = "padsBack" /\ own.k > 0
  /\ \E ok \in BOOLEAN :
       /\ Attempt(ok, "padsBack")
       /\ own' = [own EXCEPT !.k = IF ok THEN @ - 1 ELSE Len(own.pads)]
       /\ world' = IF ok THEN [world EXCEPT !.pad[own.k] = own.pads[own.k]]
                         ELSE world

(* The pads that were read, in reverse order, switched or not.             *)
PadBack ==
  /\ pc = "padsBack" /\ own.k > 0
  /\ own' = [own EXCEPT !.k = @ - 1]
  /\ \E ok \in BOOLEAN :
       /\ Attempt(ok, "padsBack")
       /\ world' = IF ok THEN [world EXCEPT !.pad[own.k] = own.pads[own.k]]
                         ELSE world

(* Closing the handle keeps the direction: the line is requested once more *)
(* as an input. The four alternate lines are inputs already.               *)
ReleaseCs ==
  /\ pc = "padsBack" /\ own.k = 0 /\ own' = [own EXCEPT !.cs = FALSE]
  /\ \E ok \in {TRUE, ~own.cs} :
       /\ Attempt(ok, "bind")
       /\ world' = IF ok /\ own.cs
                     THEN [world EXCEPT !.out = FALSE, !.low = FALSE] ELSE world

(* The controllers get their drivers back in reverse order.                *)
Bind(n) ==
  /\ pc = "bind" /\ n \in own.detached /\ \A m \in own.detached : m <= n
  /\ own' = [own EXCEPT !.detached = @ \ {n}]
  /\ \E ok \in BOOLEAN :
       /\ Attempt(ok, "bind")
       /\ world' = IF ok THEN [world EXCEPT !.bound = @ \cup {n}] ELSE world

(* Every pad is read once more; then the lock goes.                        *)
VerifyPads ==
  /\ pc = "bind" /\ own.detached = {} /\ UNCHANGED world
  /\ own' = [own EXCEPT !.pads = <<>>, !.lock = FALSE]
  /\ \E ok \in BOOLEAN :
       /\ ok => \A p \in DOMAIN own.pads : world.pad[p] = own.pads[p]
       /\ Attempt(ok \/ own.pads = <<>>, "save")

(* The verdict, and the exit code that follows from it; without a summary  *)
(* there is no success.                                                    *)
Save ==
  /\ pc = "save" /\ Goto("exit") /\ UNCHANGED <<plan, own, world>>
  /\ \E code \in {1, IF report.ok /\ ~report.errors THEN 0
                      ELSE IF interrupted THEN 130 ELSE 1} :
       report' = [report EXCEPT !.rc = code]

-----------------------------------------------------------------------------
Cleanup == {"stopBmi", "stopIcm", "retryBmi", "retryIcm", "closeSpi",
            "padsBack", "bind", "save"}

Signal ==
  /\ pc \notin {"exit", "dead"} /\ ~interrupted /\ interrupted' = TRUE
  /\ early' = (pc \notin Cleanup)
  /\ UNCHANGED <<pc, plan, own, report, world, found, runs>>

(* SIGKILL: what the process held in memory is gone, the lock with its     *)
(* file; everything else stays.                                            *)
Kill ==
  /\ pc \notin {"exit", "dead"} /\ pc' = "dead"
  /\ plan' = <<"failed">> /\ own' = Nothing
  /\ report' = [Silent EXCEPT !.errors = report.errors,
                             !.masked = report.masked]
  /\ interrupted' = FALSE /\ early' = FALSE /\ UNCHANGED <<world, found, runs>>

(* Bound: nobody starts the tool again after a run that reported errors.   *)
Restart ==
  /\ pc \in {"exit", "dead"} /\ ~report.errors
  /\ runs < MaxRuns /\ runs' = runs + 1
  /\ Start /\ found' = world /\ UNCHANGED world

Acquire ==
  \/ Lock \/ CheckUsers \/ SavePads \/ RequestCs \/ MuxPad
  \/ \E n \in Nodes : Unbind(n)
  \/ \E s \in Buses : OpenSpi(s)
Initialise ==
  \/ Identify \/ IcmCheck \/ IcmConfigure \/ IcmStart \/ IcmBank4
  \/ IcmOffsets \/ BmiCheck \/ BmiLoad \/ BmiWake \/ BmiStart
Capture ==
  BeginPhase \/ EndPhase \/ Estimate \/ UseProfile \/ StaticValidation \/ Finish
Restore ==
  \/ StopBmi \/ StopIcm \/ SkipIcm \/ Deselect \/ PadBack \/ ReleaseCs
  \/ VerifyPads \/ Save
  \/ \E s \in Buses : CloseSpi(s)
  \/ \E n \in Nodes : Bind(n)

Main == Acquire \/ Initialise \/ Capture \/ Restore
Next == Main \/ Poll \/ Signal \/ Kill \/ Restart
Spec == Init /\ [][Next]_vars
\* Calls return, and the time of a phase passes whatever its rounds do.
FairSpec == Spec /\ WF_vars(Main)

-----------------------------------------------------------------------------
(* The variables have the values described above.                          *)
TypeOK ==
  /\ plan \in {<<"open">>, <<"failed">>} \cup
       UNION {{SubSeq(p, n + 1, Len(p)) : n \in 0 .. Len(p)} : p \in Plans}
  /\ runs \in 1 .. MaxRuns
  /\ interrupted \in BOOLEAN /\ early \in BOOLEAN
  /\ report \in [sick : BOOLEAN, ok : BOOLEAN,
                 errors : BOOLEAN, masked : BOOLEAN,
                 rc : {0, 1, 2, 130}]
  /\ own.pads \in UNION {[1 .. n -> {"linux", "imu"}] : n \in 0 .. NPads}
  /\ own.k \in 0 .. NPads /\ own.gap \in {2, 450}
  /\ own.detached \subseteq Nodes /\ DOMAIN own.spi \subseteq Buses
  /\ own.oldIcm \in {"rest", "mixed"}
  /\ world \in [pad : [Pads -> {"linux", "imu"}], bound : SUBSET Nodes,
                out : BOOLEAN, low : BOOLEAN, spi : [Buses -> {"linux", "imu"}],
                icm : {"rest", "mixed", "sampling"}, bank : {0, 4},
                bmi : {"suspend", "asleep", "awake", "sampling"}]

(* Whatever failed and wherever, at the end the board is as this run found *)
(* it, or the cleanup has reported an error. The two exceptions are known: *)
(* the constructor of Spi swallows a failed restoration, and an ICM left   *)
(* in bank 4 may confirm values that went into the wrong bank              *)
(* (CarrierV11::restore, Icm42688::stop, main after the try block).        *)
ReportedOrRestored ==
  pc = "exit" => world = found \/ report.errors \/ report.masked

(* Exit code 0 says that every step of the plan succeeded, that no signal  *)
(* came before the capture was complete, and that the board and the lock   *)
(* are given back (the verdict at the end of main).                        *)
PassedIsEarned ==
  pc = "exit" /\ report.rc = 0 =>
    /\ plan = <<>> /\ ~report.sick /\ ~early
    /\ world = found /\ ~own.lock

(* What the README of cpp/imu says of signals: the run keeps passed=false. *)
(* The code looks at the flag before the cleanup and never again, so a     *)
(* signal during the cleanup leaves a run that has passed.                 *)
InterruptedIsFailure == pc = "exit" /\ interrupted => report.rc # 0

(* While a controller has its driver, no pad has another function than     *)
(* this run found, unless an error is on record: unbind all before the     *)
(* first switch, bind after the last one; also when the process is killed  *)
(* (CarrierV11::acquire and restore).                                      *)
DriversOwnPads ==
  world.bound # {} => world.pad = found.pad \/ report.errors

(* A sensor that somebody else uses, or that a killed run left running, is *)
(* refused and not written to (the first checks of both initialize).       *)
ForeignSensorsUntouched ==
  /\ found.icm = "sampling" => world.icm = "sampling"
  /\ found.bmi # "suspend" => world.bmi = found.bmi

(* A BMI that sleeps or is suspended is never accessed with the short wait *)
(* of a running one, also when a stop failed and is tried again.           *)
GapFitsSensor == world.bmi \in {"suspend", "asleep"} => own.gap = 450

(* Pads move only while the sensors are as the run found them, unless a    *)
(* failure to stop one of them is on record: the bus is not taken from     *)
(* under a sensor that this run has started.                               *)
PadsMoveWhenSensorsRest ==
  [][world'.pad # world.pad =>
       \/ world.icm = found.icm /\ world.bmi = found.bmi
       \/ report.errors \/ report.masked]_vars

(* Every run ends, however many steps of its cleanup fail.                 *)
RunEnds == pc = "lock" ~> pc \in {"exit", "dead"}
=============================================================================
