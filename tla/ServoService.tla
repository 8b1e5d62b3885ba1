---------------------------- MODULE ServoService ----------------------------
(***************************************************************************)
(* The E907 bare-metal PWM service: the loop of firmware/e907_live/servo.c *)
(* around servo_service_step (servo_service.h) and servo_pwm_set_us        *)
(* (pwm_us_extension.c.inc), against the shared page the A53 writes.       *)
(*                                                                         *)
(* The grain is one action per access the other side can tell apart: a     *)
(* read of the page, a write to a PWM channel, the publication of a reply. *)
(* The host of this module may write any of its words between any two of   *)
(* them, so what holds here holds for every sender; module BenchLink runs  *)
(* the same core against the one sender the repository has.                *)
(***************************************************************************)
EXTENDS Integers, FiniteSets

CONSTANTS
  NumChannels,  \* servo channels, mask bits 0 .. NumChannels-1 (4 on the board)
  Targets,      \* pulse widths in microseconds a host may put in m[13..16]
  HostOps,      \* commands a host may write
  HostMasks,    \* masks a host may write, sets of bit numbers
  TimerMod,     \* wrap of the free-running timer (2^32 ticks of 24 MHz)
  Timeout,      \* watchdog limit in ticks (24000000)
  MaxLoop,      \* most ticks between two timer samples of the service loop
  MaxSeq        \* bound: requests a host submits in one behaviour

Channels == 0 .. NumChannels - 1
\* Bit NumChannels of a mask stands for every bit outside the 15U the code allows.
MaskBits == 0 .. NumChannels
Ops == {"ping", "set", "stop", "status", "park", "unknown"}

ASSUME ServiceAssumption ==
  /\ NumChannels \in Nat \ {0}
  /\ Targets \subseteq Nat /\ HostOps \subseteq Ops
  /\ HostMasks \subseteq SUBSET MaskBits
  /\ TimerMod \in Nat /\ Timeout \in Nat \ {0} /\ MaxLoop \in Nat
  /\ Timeout + MaxLoop <= TimerMod
  /\ MaxSeq \in Nat

Min(a, b) == IF a < b THEN a ELSE b

MinPulse == 1400
MaxPulse == 1600
Cycle == 72072                   \* 24 MHz / 333 Hz
HighTicks(us) == 24 * us
InRange(us) == us >= MinPulse /\ us <= MaxPulse

Results == {"ok", "echo", "lease", "range", "opcode", "refused"}
Modes == {"stopped", "driving", "tripped", "refused"}

VARIABLES
  (* words the host writes *)
  op, seq, mask, target, lease,
  (* words the core writes; m[19] is the core's now *)
  magic, ack, result, shownActive, mode, trips, shown,
  (* registers of the four PWM channels *)
  pwm,
  (* locals of live_main, servo_service_step and servo_pwm_set_us *)
  pc, now, last, active, initialized, req, res, i, pulse,
  (* the timer; ticks since its last sample; ticks since the last renewal *)
  clock, elapsed, age

hostVars == <<op, seq, mask, target, lease>>
pageVars == <<magic, ack, result, shownActive, mode, trips, shown>>
coreVars == <<now, last, active, initialized, req, res, i, pulse>>
timeVars == <<clock, elapsed, age>>
vars == <<hostVars, pageVars, pwm, pc, coreVars, timeVars>>

\* age stops counting here: beyond every bound the properties speak of.
AgeCap == Timeout + 2 * MaxLoop
\* Faulty variant: a difference that saturates instead of wrapping.
SinceNoWrap(t, t0) == IF t >= t0 THEN t - t0 ELSE 0
\* The code's (uint32_t)(now - last).
Since(t, t0) == IF t >= t0 THEN t - t0 ELSE t + TimerMod - t0

Register == [en : BOOLEAN, mode : BOOLEAN, low : Nat, high : Nat]
Enabled == {c \in Channels : pwm[c].en}
\* pwm_stop clears one bit of the control register and keeps the rest.
Stopped(r) == [r EXCEPT !.en = FALSE]
AllStopped == [c \in Channels |-> Stopped(pwm[c])]
NoRequest == [seq |-> 0, cmd |-> "unknown", mask |-> {}]
ZeroRegister == [en |-> FALSE, mode |-> FALSE, low |-> 0, high |-> 0]

Halted == {"boot", "parked", "trapped"}
Tripping == {"trip", "tripMark", "tripCount"}
Reloading == {"low", "high", "start"}
Driving == {"drive"} \cup Reloading
Processing == {"decode", "check", "init", "drive", "stop", "publish", "ack"}
                \cup Reloading
PCs == Halted \cup Tripping \cup Processing \cup {"sample", "fetch"}

(* The loader zeroes the page before it releases the core and has refused  *)
(* a board with an enabled servo PWM; the other register bits are whatever *)
(* Linux left there.                                                       *)
Init ==
  /\ op = "unknown" /\ seq = 0 /\ mask = {} /\ lease = FALSE
  /\ target = [c \in Channels |-> 0]
  /\ magic = "none" /\ ack = 0 /\ result = "ok" /\ shownActive = {}
  /\ mode = "stopped" /\ trips = 0
  /\ shown = [c \in Channels |-> ZeroRegister]
  /\ pwm \in [Channels -> {ZeroRegister, [ZeroRegister EXCEPT !.mode = TRUE]}]
  /\ pc = "boot" /\ now = 0 /\ last = 0 /\ active = {}
  /\ initialized = FALSE
  /\ req = NoRequest
  /\ res = "ok" /\ i = 0 /\ pulse = 0
  /\ clock = 0 /\ elapsed = 0 /\ age = 0

-----------------------------------------------------------------------------
(* start.S and live_main: the state of the service is cleared, the ABI     *)
(* word and then the magic are published, the loop begins.                 *)
Boot ==
  /\ pc = "boot"
  /\ magic' = "servo" /\ pc' = "sample"
  /\ UNCHANGED <<hostVars, ack, result, shownActive, mode, trips, shown, pwm,
                 coreVars, timeVars>>

(* Faulty variant: the watchdog is looked at only when a request is there. *)
SampleOnRequest ==
  /\ pc = "sample"
  /\ now' = clock /\ elapsed' = 0
  /\ pc' = IF active # {} /\ seq # ack /\ Since(clock, last) >= Timeout
             THEN "trip" ELSE "fetch"
  /\ UNCHANGED <<hostVars, pageVars, pwm, last, active, initialized, req, res,
                 i, pulse, clock, age>>

(* The timer is read once per pass; the watchdog looks at that sample.     *)
Sample ==
  /\ pc = "sample"
  /\ now' = clock /\ elapsed' = 0
  /\ pc' = IF active # {} /\ Since(clock, last) >= Timeout
             THEN "trip" ELSE "fetch"
  /\ UNCHANGED <<hostVars, pageVars, pwm, last, active, initialized, req, res,
                 i, pulse, clock, age>>

(* A trip: outputs first, then the words that tell the host, in the order  *)
(* of the code. m[18] is visible before m[32] counts the trip.             *)
TripStop ==
  /\ pc = "trip"
  /\ pwm' = AllStopped /\ pc' = "tripMark"
  /\ UNCHANGED <<hostVars, pageVars, coreVars, timeVars>>

(* Faulty variant: the trip does not clear m[17].                          *)
TripMarkKeepsMask ==
  /\ pc = "tripMark"
  /\ active' = {} /\ mode' = "tripped"
  /\ pc' = "tripCount"
  /\ UNCHANGED <<hostVars, magic, ack, result, shownActive, trips, shown, pwm,
                 now, last, initialized, req, res, i, pulse, timeVars>>

TripMark ==
  /\ pc = "tripMark"
  /\ active' = {} /\ shownActive' = {} /\ mode' = "tripped"
  /\ pc' = "tripCount"
  /\ UNCHANGED <<hostVars, magic, ack, result, trips, shown, pwm, now, last,
                 initialized, req, res, i, pulse, timeVars>>

TripCount ==
  /\ pc = "tripCount"
  /\ trips' = trips + 1 /\ shown' = pwm /\ pc' = "fetch"
  /\ UNCHANGED <<hostVars, magic, ack, result, shownActive, mode, pwm,
                 coreVars, timeVars>>

(* seq == ack: nothing to do, the pass ends.                               *)
Fetch ==
  /\ pc = "fetch"
  /\ IF seq = ack
       THEN pc' = "sample" /\ UNCHANGED req
       ELSE pc' = "decode" /\ req' = [req EXCEPT !.seq = seq]
  /\ UNCHANGED <<hostVars, pageVars, pwm, now, last, active, initialized, res,
                 i, pulse, timeVars>>

(* After the fence the command word and the mask are read, once each.      *)
Decode ==
  /\ pc = "decode"
  /\ req' = [req EXCEPT !.cmd = op, !.mask = mask]
  /\ res' = CASE op = "ping" -> "echo"
              [] op = "unknown" -> "opcode"
              [] OTHER -> "ok"
  /\ pc' = CASE op = "set" -> "check"
             [] op \in {"stop", "park"} -> "stop"
             [] OTHER -> "publish"
  /\ i' = 0
  /\ UNCHANGED <<hostVars, pageVars, pwm, now, last, active, initialized,
                 pulse, timeVars>>

(* The validation of SET: a width out of range overrides a bad mask.       *)
Validated(m, t) ==
  IF \E c \in m \cap Channels : ~InRange(t[c]) THEN "range"
  ELSE IF ~lease \/ m = {} \/ ~(m \subseteq Channels) THEN "lease"
  ELSE "ok"

Check ==
  /\ pc = "check"
  /\ res' = Validated(req.mask, target)
  /\ pc' = IF res' # "ok" THEN "publish"
           ELSE IF initialized THEN "drive" ELSE "init"
  /\ UNCHANGED <<hostVars, pageVars, pwm, now, last, active, initialized, req,
                 i, pulse, timeVars>>

(* First accepted SET: clocks on, every channel stopped, then the pads are *)
(* switched to PWM and the channels declared configured. These are written *)
(* nowhere else, so initialized stands for them.                           *)
InitOutputs ==
  /\ pc = "init"
  /\ pwm' = AllStopped /\ initialized' = TRUE /\ pc' = "drive"
  /\ UNCHANGED <<hostVars, pageVars, now, last, active, req, res, i, pulse,
                 timeVars>>

(* Faulty variant: every SET reloads the channel.                          *)
RunningNever(r, us) == FALSE

(* The entry checks of servo_pwm_set_us on its own argument, and the test  *)
(* that skips a channel already running with exactly this width.           *)
Accepts(us) == initialized /\ InRange(us) /\ HighTicks(us) < Cycle
Running(r, us) ==
  /\ r.en /\ r.mode
  /\ r.low = Cycle - HighTicks(us) /\ r.high = HighTicks(us)

(* Faulty variant: the channel is reloaded without pwm_stop.               *)
DriveChannelNoStop ==
  /\ pc = "drive" /\ i < NumChannels
  /\ IF i \in req.mask /\ Accepts(target[i]) /\ ~Running(pwm[i], target[i])
       THEN pulse' = target[i] /\ pc' = "low" /\ UNCHANGED <<res, i>>
       ELSE /\ res' = IF i \in req.mask /\ ~Accepts(target[i])
                        THEN "refused" ELSE res
            /\ i' = i + 1
            /\ UNCHANGED <<pulse, pc>>
  /\ UNCHANGED <<hostVars, pageVars, pwm, now, last, active, initialized, req,
                 timeVars>>

(* One iteration of the loop over the channels. target[i] is read from the *)
(* page again here, after Check read it.                                   *)
DriveChannel ==
  /\ pc = "drive" /\ i < NumChannels
  /\ IF i \in req.mask /\ Accepts(target[i]) /\ ~Running(pwm[i], target[i])
       THEN /\ pwm' = [pwm EXCEPT ![i] = Stopped(@)]
            /\ pulse' = target[i]
            /\ pc' = "low"
            /\ UNCHANGED <<res, i>>
       ELSE /\ res' = IF i \in req.mask /\ ~Accepts(target[i])
                        THEN "refused" ELSE res
            /\ i' = i + 1
            /\ UNCHANGED <<pwm, pulse, pc>>
  /\ UNCHANGED <<hostVars, pageVars, now, last, active, initialized, req,
                 timeVars>>

LoadLow ==
  /\ pc = "low"
  /\ pwm' = [pwm EXCEPT ![i].low = Cycle - HighTicks(pulse)]
  /\ pc' = "high"
  /\ UNCHANGED <<hostVars, pageVars, coreVars, timeVars>>

LoadHigh ==
  /\ pc = "high"
  /\ pwm' = [pwm EXCEPT ![i].high = HighTicks(pulse)]
  /\ pc' = "start"
  /\ UNCHANGED <<hostVars, pageVars, coreVars, timeVars>>

(* PWM_MODE is written with the enable bit clear, then pwm_start sets it.  *)
StartChannel ==
  /\ pc = "start"
  /\ pwm' = [pwm EXCEPT ![i].mode = TRUE, ![i].en = TRUE]
  /\ i' = i + 1 /\ pc' = "drive"
  /\ UNCHANGED <<hostVars, pageVars, now, last, active, initialized, req, res,
                 pulse, timeVars>>

DriveDone ==
  /\ pc = "drive" /\ i = NumChannels /\ res = "ok"
  /\ active' = active \cup req.mask
  /\ last' = now /\ age' = elapsed
  /\ mode' = "driving" /\ pc' = "publish"
  /\ UNCHANGED <<hostVars, magic, ack, result, shownActive, trips, shown, pwm,
                 now, initialized, req, res, i, pulse, clock, elapsed>>

(* Faulty variant: a SET that failed half way leaves the outputs on.       *)
DriveFailedKeepsOutputs ==
  /\ pc = "drive" /\ i = NumChannels /\ res # "ok"
  /\ active' = {} /\ mode' = "refused" /\ pc' = "publish"
  /\ UNCHANGED <<hostVars, magic, ack, result, shownActive, trips, shown, pwm,
                 now, last, initialized, req, res, i, pulse, timeVars>>

DriveFailed ==
  /\ pc = "drive" /\ i = NumChannels /\ res # "ok"
  /\ pwm' = AllStopped
  /\ active' = {} /\ mode' = "refused" /\ pc' = "publish"
  /\ UNCHANGED <<hostVars, magic, ack, result, shownActive, trips, shown, now,
                 last, initialized, req, res, i, pulse, timeVars>>

StopOutputs ==
  /\ pc = "stop"
  /\ pwm' = IF initialized THEN AllStopped ELSE pwm
  /\ active' = {} /\ mode' = "stopped" /\ pc' = "publish"
  /\ UNCHANGED <<hostVars, magic, ack, result, shownActive, trips, shown, now,
                 last, initialized, req, res, i, pulse, timeVars>>

(* Everything the reply carries is written before the fence ...            *)
Publish ==
  /\ pc = "publish"
  /\ shown' = IF initialized THEN pwm ELSE shown
  /\ shownActive' = active /\ result' = res /\ pc' = "ack"
  /\ UNCHANGED <<hostVars, magic, ack, mode, trips, pwm, coreVars, timeVars>>

(* Faulty variant: a rejected request is not acknowledged.                 *)
AcknowledgeOnlySuccess ==
  /\ pc = "ack"
  /\ ack' = IF res = "ok" THEN req.seq ELSE ack
  /\ pc' = IF req.cmd = "park" THEN "parked" ELSE "sample"
  /\ req' = NoRequest /\ res' = "ok" /\ i' = 0 /\ pulse' = 0
  /\ UNCHANGED <<hostVars, magic, result, shownActive, mode, trips, shown, pwm,
                 now, last, active, initialized, timeVars>>

(* ... and the acknowledgement after it. The step returns and its locals   *)
(* are gone; PARK leaves the loop for good.                                *)
Acknowledge ==
  /\ pc = "ack"
  /\ ack' = req.seq
  /\ pc' = IF req.cmd = "park" THEN "parked" ELSE "sample"
  /\ req' = NoRequest /\ res' = "ok" /\ i' = 0 /\ pulse' = 0
  /\ UNCHANGED <<hostVars, magic, result, shownActive, mode, trips, shown, pwm,
                 now, last, active, initialized, timeVars>>

(* A trap at any instruction: the vector overwrites the magic and spins.   *)
Trap ==
  /\ pc # "trapped"
  /\ magic' = "trap" /\ pc' = "trapped"
  /\ UNCHANGED <<hostVars, ack, result, shownActive, mode, trips, shown, pwm,
                 coreVars, timeVars>>

(* Time passes at any point of a pass, at most MaxLoop ticks of it.        *)
Tick ==
  /\ pc \in Halted \/ elapsed < MaxLoop
  /\ clock' = IF clock = TimerMod - 1 THEN 0 ELSE clock + 1
  /\ elapsed' = IF pc \in Halted THEN elapsed ELSE elapsed + 1
  /\ age' = Min(age + 1, AgeCap)
  /\ UNCHANGED <<hostVars, pageVars, pwm, pc, coreVars>>

Core ==
  \/ Boot \/ Sample \/ TripStop \/ TripMark \/ TripCount \/ Fetch \/ Decode
  \/ Check \/ InitOutputs \/ DriveChannel \/ LoadLow \/ LoadHigh
  \/ StartChannel \/ DriveDone \/ DriveFailed \/ StopOutputs \/ Publish
  \/ Acknowledge

-----------------------------------------------------------------------------
(* The most general sender: each of its words at any time, one at a time.  *)
HostOp(o) == op' = o /\ UNCHANGED <<seq, mask, target, lease>>
HostMask(m) == mask' = m /\ UNCHANGED <<op, seq, target, lease>>
HostTarget(c, us) ==
  target' = [target EXCEPT ![c] = us] /\ UNCHANGED <<op, seq, mask, lease>>
HostLease == lease' = TRUE /\ UNCHANGED <<op, seq, mask, target>>
HostSubmit ==
  seq < MaxSeq /\ seq' = seq + 1 /\ UNCHANGED <<op, mask, target, lease>>

AnyHost ==
  /\ \/ \E o \in HostOps : HostOp(o)
     \/ \E m \in HostMasks : HostMask(m)
     \/ \E c \in Channels, us \in Targets : HostTarget(c, us)
     \/ HostLease
     \/ HostSubmit
  /\ UNCHANGED <<pageVars, pwm, pc, coreVars, timeVars>>

Next == Core \/ Trap \/ Tick \/ AnyHost

Spec == Init /\ [][Next]_vars

(* The core executes and time passes; nothing obliges a host to do either, *)
(* nor a trap to happen.                                                   *)
FairSpec == Spec /\ WF_vars(Core) /\ WF_vars(Tick)

-----------------------------------------------------------------------------
TypeOK ==
  /\ op \in Ops /\ seq \in 0 .. MaxSeq /\ mask \in SUBSET MaskBits
  /\ target \in [Channels -> Targets \cup {0}] /\ lease \in BOOLEAN
  /\ magic \in {"none", "servo", "trap"} /\ ack \in 0 .. MaxSeq
  /\ result \in Results /\ shownActive \in SUBSET Channels /\ mode \in Modes
  /\ trips \in Nat /\ shown \in [Channels -> Register]
  /\ pwm \in [Channels -> Register]
  /\ pc \in PCs
  /\ now \in 0 .. TimerMod - 1 /\ last \in 0 .. TimerMod - 1
  /\ active \in SUBSET Channels /\ initialized \in BOOLEAN
  /\ req \in [seq : 0 .. MaxSeq, cmd : Ops, mask : SUBSET MaskBits]
  /\ res \in Results /\ i \in 0 .. NumChannels
  /\ pulse \in Targets \cup {0}
  /\ clock \in 0 .. TimerMod - 1 /\ elapsed \in 0 .. MaxLoop
  /\ age \in 0 .. AgeCap

(* An enabled channel always carries one whole, legal waveform: PWM mode,  *)
(* a width of 1400..1600 us and the matching low time, whatever the host   *)
(* does to the targets between the check and their use and wherever the    *)
(* core stops (pwm_us_extension.c.inc: stop, load, load, start).           *)
SafeWaveform ==
  \A c \in Enabled :
    /\ pwm[c].mode
    /\ pwm[c].high >= HighTicks(MinPulse) /\ pwm[c].high <= HighTicks(MaxPulse)
    /\ pwm[c].low + pwm[c].high = Cycle

(* Between two passes the bookkeeping is the hardware: the channels that   *)
(* are on are exactly those the watchdog guards, so no path through a SET, *)
(* a failed SET, a STOP or a trip leaves an output nobody will turn off.   *)
ActiveIsHardware == pc \in {"sample", "fetch"} => Enabled = active

(* No output outlives its lease: while the core runs, an enabled channel   *)
(* was renewed by an accepted SET at most Timeout - 1 ticks plus two loop  *)
(* passes ago, across timer wraps, or the SET that enables it is running.  *)
LeaseBounded ==
  pc # "trapped" =>
    \A c \in Enabled :
      \/ c \in active /\ age <= Timeout - 1 + 2 * MaxLoop
      \/ c \in req.mask /\ pc \in Driving

(* The same promise as a specification of its own, which the service        *)
(* implements: nothing is switched outside a SET, no SET outlasts a pass,  *)
(* and time stops at no output that is on without a renewal.               *)
Outputs == INSTANCE OutputLease
  WITH Pass <- MaxLoop, Limit <- Timeout - 1 + 2 * MaxLoop,
       on <- Enabled, setting <- pc \in Driving, alive <- pc # "trapped",
       age <- IF pc \in Driving THEN elapsed ELSE age
ImplementsOutputLease == Outputs!OutputSpec

(* What the host finds once its request is acknowledged is true of the     *)
(* hardware until a trip or the next request: the active mask, the         *)
(* register snapshot and the state word (servo_service.h, publication      *)
(* order around the fence).                                                *)
AnswerIsTruth ==
  ack = seq /\ pc \notin Tripping \cup {"boot", "trapped"} =>
    /\ shownActive = Enabled
    /\ initialized => shown = pwm
    /\ mode = "driving" <=> Enabled # {}

(* A parked core has nothing switched on, and nothing will be.             *)
ParkedIsOff == pc = "parked" => Enabled = {} /\ active = {}

(* Reloading a running channel always changes its width: a repeated SET    *)
(* never interrupts the pulse train (pwm_us_extension.c.inc:18).           *)
NoNeedlessReload ==
  [][\A c \in Channels :
       pc = "drive" /\ i = c /\ pwm[c].en /\ ~pwm'[c].en
         => pwm[c].high # HighTicks(pulse')]_vars

(* Once requests stop coming, the outputs go off and stay off: the         *)
(* watchdog needs no help from the A53 unless the core itself trapped.     *)
OutputsExpire == <>[](Enabled = {} \/ pc = "trapped")

(* A submitted request is answered, or a later one in its place, unless    *)
(* the core parked or trapped.                                             *)
RequestsAnswered ==
  \A n \in 1 .. MaxSeq :
    seq = n ~> (ack >= n \/ pc \in {"parked", "trapped"})
=============================================================================
