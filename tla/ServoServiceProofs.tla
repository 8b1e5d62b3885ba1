------------------------- MODULE ServoServiceProofs -------------------------
(***************************************************************************)
(* Proofs about ServoService for every number of channels, every set of    *)
(* widths, every timer width and every bound on the loop time.             *)
(*                                                                         *)
(* None of the properties is inductive alone: that a channel is safe when  *)
(* it is enabled depends on what was loaded while it was off, that the     *)
(* active mask is the hardware depends on how far the SET has got, and the *)
(* lease depends on the wrapped difference of two samples being the real   *)
(* time between them. Each part below adds what its own step needs.        *)
(***************************************************************************)
EXTENDS ServoService, TLAPS

(* The registers of the channel being reloaded, point by point.            *)
WaveformInv ==
  /\ SafeWaveform
  /\ pc \in Reloading =>
       /\ i \in Channels /\ i \in req.mask /\ ~pwm[i].en /\ InRange(pulse)
  /\ pc \in {"high", "start"} => pwm[i].low = Cycle - HighTicks(pulse)
  /\ pc = "start" => pwm[i].high = HighTicks(pulse)

(* Which channels are on at each point of a pass.                          *)
OutputInv ==
  /\ pc \notin Driving \cup {"tripMark", "trapped"} => Enabled = active
  /\ pc = "tripMark" => Enabled = {}
  /\ pc = "tripCount" => active = {}
  /\ pc \in {"check", "init"} => i = 0 /\ res = "ok"
  /\ pc = "init" => ~initialized
  /\ pc \in Driving \cup {"init"} => req.mask \subseteq Channels /\ req.mask # {}
  /\ pc \in Driving =>
       /\ initialized
       /\ \A c \in Enabled : c \in active \/ (c \in req.mask /\ c < i)
       /\ \A c \in active : c \in Enabled \/ (pc \in Reloading /\ c = i)
       /\ res = "ok" => \A c \in req.mask : c < i => c \in Enabled
  /\ ~initialized => Enabled = {} /\ active = {}

(* The command latched at each point, and what PARK leaves behind.         *)
CommandInv ==
  /\ pc \in Driving \cup {"check", "init"} => req.cmd = "set"
  /\ pc \in {"publish", "ack"} /\ req.cmd = "park" => active = {}
  /\ pc \in {"boot", "parked"} => active = {}

(* The order of the three sequence numbers.                                *)
SequenceInv ==
  /\ ack <= seq
  /\ pc \in Processing => ack < req.seq /\ req.seq <= seq

(* When the words the core publishes agree with its state.                 *)
PublishInv ==
  /\ mode = "driving" <=> active # {}
  /\ pc = "tripCount" => shownActive = {}
  /\ pc \in {"boot", "sample", "fetch", "ack", "parked"} =>
       /\ shownActive = active
       /\ initialized => shown = pwm

(* The wrapped differences are the real elapsed times.                     *)
TimeInv ==
  /\ pc \notin Halted \cup {"sample"} => Since(clock, now) = elapsed
  /\ active # {} /\ pc \notin Halted \cup Tripping =>
       age <= Timeout - 1 + elapsed /\ Since(clock, last) = age
  /\ active # {} /\ pc \in Tripping => age <= Timeout - 1 + MaxLoop + elapsed

IInv ==
  TypeOK /\ WaveformInv /\ OutputInv /\ CommandInv /\ SequenceInv
    /\ PublishInv /\ TimeInv

-----------------------------------------------------------------------------
(* Type correctness. The subtraction Cycle - high never wraps because the  *)
(* width being loaded was checked, hence the invariants among the premises.*)
LEMMA InitType == Init => TypeOK
<1>. SUFFICES ASSUME Init PROVE TypeOK
  OBVIOUS
<1>1. ZeroRegister \in Register /\ [ZeroRegister EXCEPT !.mode = TRUE] \in Register
  BY DEF ZeroRegister, Register
<1>2. NoRequest \in [seq : 0 .. MaxSeq, cmd : Ops, mask : SUBSET MaskBits]
  BY ServiceAssumption DEF NoRequest, Ops
<1>3. pwm \in [Channels -> Register] /\ shown \in [Channels -> Register]
  BY <1>1 DEF Init
<1>4. /\ op \in Ops /\ magic \in {"none", "servo", "trap"}
      /\ result \in Results /\ res \in Results /\ mode \in Modes /\ pc \in PCs
  BY DEF Init, Ops, Results, Modes, PCs, Halted
<1>5. /\ now \in 0 .. TimerMod - 1 /\ last \in 0 .. TimerMod - 1
      /\ clock \in 0 .. TimerMod - 1 /\ elapsed \in 0 .. MaxLoop
      /\ age \in 0 .. AgeCap /\ seq \in 0 .. MaxSeq /\ ack \in 0 .. MaxSeq
      /\ i \in 0 .. NumChannels /\ trips \in Nat
  BY ServiceAssumption DEF Init, AgeCap
<1>. QED
  BY <1>2, <1>3, <1>4, <1>5 DEF Init, TypeOK
LEMMA RegisterUpdates ==
  ASSUME NEW r \in Register
  PROVE  /\ Stopped(r) \in Register
         /\ [r EXCEPT !.mode = TRUE, !.en = TRUE] \in Register
BY DEF Stopped, Register

LEMMA NextType == TypeOK /\ WaveformInv /\ OutputInv /\ [Next]_vars => TypeOK'
<1>. SUFFICES ASSUME TypeOK, WaveformInv, OutputInv, [Next]_vars PROVE TypeOK'
  OBVIOUS
<1>. USE DEF TypeOK, hostVars, pageVars, coreVars, timeVars
<1>1. CASE Boot
  BY <1>1 DEF Boot, PCs
<1>2. CASE Sample
  BY <1>2, ServiceAssumption DEF Sample, PCs, Tripping
<1>3. AllStopped \in [Channels -> Register]
  BY RegisterUpdates DEF AllStopped
<1>4. CASE TripStop
  BY <1>3, <1>4 DEF TripStop, PCs, Tripping
<1>5. CASE TripMark
  BY <1>5 DEF TripMark, PCs, Tripping, Modes
<1>6. CASE TripCount
  BY <1>6 DEF TripCount, PCs
<1>7. CASE Fetch
  BY <1>7 DEF Fetch, PCs, Processing
<1>8. CASE Decode
  <2>1. /\ res' \in Results
        /\ pc' \in PCs
    BY <1>8 DEF Decode, PCs, Processing, Results
  <2>2. req' \in [seq : 0 .. MaxSeq, cmd : Ops, mask : SUBSET MaskBits]
    BY <1>8 DEF Decode
  <2>3. i' \in 0 .. NumChannels
    BY <1>8, ServiceAssumption DEF Decode
  <2>. QED
    BY <1>8, <2>1, <2>2, <2>3 DEF Decode
<1>9. CASE Check
  BY <1>9 DEF Check, Validated, PCs, Processing, Results
<1>10. CASE InitOutputs
  BY <1>3, <1>10 DEF InitOutputs, PCs, Processing
<1>11. CASE DriveChannel
  <2>1. i \in Channels /\ i + 1 \in 0 .. NumChannels
    BY <1>11, ServiceAssumption DEF DriveChannel, Channels
  <2>2. Stopped(pwm[i]) \in Register
    BY <2>1, RegisterUpdates
  <2>3. pwm' \in [Channels -> Register]
    BY <1>11, <2>1, <2>2 DEF DriveChannel
  <2>. QED
    BY <1>11, <2>3, <2>1 DEF DriveChannel, PCs, Processing, Reloading, Results
<1>12. CASE LoadLow
  <2>1. Cycle - HighTicks(pulse) \in Nat
    BY <1>12, ServiceAssumption
       DEF LoadLow, WaveformInv, Reloading, InRange, MinPulse, MaxPulse,
           HighTicks, Cycle
  <2>2. pwm' \in [Channels -> Register]
    BY <1>12, <2>1 DEF LoadLow, Register
  <2>. QED
    BY <1>12, <2>2 DEF LoadLow, PCs, Processing, Reloading
<1>13. CASE LoadHigh
  <2>1. HighTicks(pulse) \in Nat
    BY <1>13, ServiceAssumption
       DEF LoadHigh, WaveformInv, Reloading, InRange, MinPulse, MaxPulse,
           HighTicks
  <2>2. pwm' \in [Channels -> Register]
    BY <1>13, <2>1 DEF LoadHigh, Register
  <2>. QED
    BY <1>13, <2>2 DEF LoadHigh, PCs, Processing, Reloading
<1>14. CASE StartChannel
  <2>1. i \in Channels
    BY <1>14 DEF StartChannel, WaveformInv, Reloading
  <2>2. pwm' = [pwm EXCEPT ![i] = [pwm[i] EXCEPT !.mode = TRUE, !.en = TRUE]]
    BY <1>14, <2>1 DEF StartChannel, Register
  <2>3. pwm' \in [Channels -> Register]
    BY <2>1, <2>2, RegisterUpdates
  <2>4. i + 1 \in 0 .. NumChannels
    BY <2>1, ServiceAssumption DEF Channels
  <2>. QED
    BY <1>14, <2>3, <2>4 DEF StartChannel, PCs, Processing
<1>15. CASE DriveDone
  <2>1. elapsed \in 0 .. AgeCap
    BY ServiceAssumption DEF AgeCap
  <2>2. req.mask \subseteq Channels
    BY <1>15 DEF DriveDone, OutputInv, Driving
  <2>. QED
    BY <1>15, <2>1, <2>2 DEF DriveDone, PCs, Processing, Modes
<1>16. CASE DriveFailed
  BY <1>3, <1>16 DEF DriveFailed, PCs, Processing, Modes
<1>17. CASE StopOutputs
  BY <1>3, <1>17 DEF StopOutputs, PCs, Processing, Modes
<1>18. CASE Publish
  BY <1>18 DEF Publish, PCs, Processing
<1>19. CASE Acknowledge
  <2>1. NoRequest \in [seq : 0 .. MaxSeq, cmd : Ops, mask : SUBSET MaskBits]
    BY ServiceAssumption DEF NoRequest, Ops
  <2>. QED
    BY <1>19, <2>1, ServiceAssumption
       DEF Acknowledge, PCs, Halted, Results
<1>20. CASE Trap
  BY <1>20 DEF Trap, PCs, Halted
<1>21. CASE Tick
  <2>1. elapsed' \in 0 .. MaxLoop
    BY <1>21, ServiceAssumption DEF Tick
  <2>2. age' \in 0 .. AgeCap
    BY <1>21, ServiceAssumption DEF Tick, Min, AgeCap
  <2>3. clock' \in 0 .. TimerMod - 1
    BY <1>21, ServiceAssumption DEF Tick
  <2>. QED
    BY <1>21, <2>1, <2>2, <2>3 DEF Tick
<1>22. CASE AnyHost
  <2>1. CASE \E o \in HostOps : HostOp(o)
    BY <1>22, <2>1, ServiceAssumption DEF AnyHost, HostOp
  <2>2. CASE \E m \in HostMasks : HostMask(m)
    BY <1>22, <2>2, ServiceAssumption DEF AnyHost, HostMask
  <2>3. CASE \E c \in Channels, us \in Targets : HostTarget(c, us)
    BY <1>22, <2>3 DEF AnyHost, HostTarget
  <2>4. CASE HostLease
    BY <1>22, <2>4 DEF AnyHost, HostLease
  <2>5. CASE HostSubmit
    <3>1. seq' \in 0 .. MaxSeq
      BY <2>5, ServiceAssumption DEF HostSubmit
    <3>. QED
      BY <1>22, <2>5, <3>1 DEF AnyHost, HostSubmit
  <2>. QED
    BY <1>22, <2>1, <2>2, <2>3, <2>4, <2>5 DEF AnyHost
<1>23. CASE UNCHANGED vars
  BY <1>23 DEF vars
<1>. QED
  BY <1>1, <1>2, <1>4, <1>5, <1>6, <1>7, <1>8, <1>9, <1>10, <1>11, <1>12,
     <1>13, <1>14, <1>15, <1>16, <1>17, <1>18, <1>19, <1>20, <1>21, <1>22,
     <1>23 DEF Next, Core

-----------------------------------------------------------------------------
(* The registers. A channel is only loaded while it is off, and only with  *)
(* a width servo_pwm_set_us checked on its own copy of the target.         *)
LEMMA InitWaveform == Init => WaveformInv
<1>. SUFFICES ASSUME Init PROVE WaveformInv
  OBVIOUS
<1>1. Enabled = {}
  BY DEF Init, Enabled, ZeroRegister
<1>. QED
  BY <1>1 DEF Init, WaveformInv, SafeWaveform, Reloading

LEMMA NextWaveform == TypeOK /\ WaveformInv /\ [Next]_vars => WaveformInv'
<1>. SUFFICES ASSUME TypeOK, WaveformInv, [Next]_vars PROVE WaveformInv'
  OBVIOUS
<1>. USE DEF WaveformInv, SafeWaveform, Enabled, Reloading
<1>1. CASE pwm' = AllStopped /\ pc' \notin Reloading
  BY <1>1 DEF TypeOK, AllStopped, Stopped, Register
<1>2. CASE UNCHANGED pwm /\ pc' \notin Reloading
  BY <1>2
<1>3. CASE DriveChannel
  <2>1. CASE i \in req.mask /\ Accepts(target[i]) /\ ~Running(pwm[i], target[i])
    <3>1. /\ pwm' = [pwm EXCEPT ![i] = Stopped(@)]
          /\ pc' = "low" /\ i' = i /\ req' = req
      BY <1>3, <2>1 DEF DriveChannel
    <3>2. i \in Channels /\ InRange(pulse')
      BY <1>3, <2>1, ServiceAssumption
         DEF DriveChannel, TypeOK, Channels, Accepts
    <3>3. ~pwm'[i].en /\ \A c \in Channels : c # i => pwm'[c] = pwm[c]
      BY <3>1, <3>2 DEF TypeOK, Stopped, Register
    <3>. QED
      BY <2>1, <3>1, <3>2, <3>3
  <2>2. CASE ~(i \in req.mask /\ Accepts(target[i]) /\ ~Running(pwm[i], target[i]))
    BY <1>3, <2>2 DEF DriveChannel
  <2>. QED
    BY <2>1, <2>2
<1>4. CASE LoadLow
  <2>1. /\ pwm' = [pwm EXCEPT ![i].low = Cycle - HighTicks(pulse)]
        /\ pc' = "high" /\ i' = i /\ req' = req /\ pulse' = pulse
        /\ i \in Channels /\ i \in req.mask /\ ~pwm[i].en /\ InRange(pulse)
    BY <1>4 DEF LoadLow, coreVars
  <2>2. /\ ~pwm'[i].en /\ pwm'[i].low = Cycle - HighTicks(pulse)
        /\ \A c \in Channels : c # i => pwm'[c] = pwm[c]
    BY <1>4, <2>1 DEF LoadLow, TypeOK, Register
  <2>. QED
    BY <2>1, <2>2
<1>5. CASE LoadHigh
  <2>1. /\ pwm' = [pwm EXCEPT ![i].high = HighTicks(pulse)]
        /\ pc' = "start" /\ i' = i /\ req' = req /\ pulse' = pulse
        /\ i \in Channels /\ i \in req.mask /\ ~pwm[i].en /\ InRange(pulse)
    BY <1>5 DEF LoadHigh, coreVars
  <2>2. /\ ~pwm'[i].en /\ pwm'[i].high = HighTicks(pulse)
        /\ pwm'[i].low = Cycle - HighTicks(pulse)
        /\ \A c \in Channels : c # i => pwm'[c] = pwm[c]
    BY <1>5, <2>1 DEF LoadHigh, TypeOK, Register
  <2>. QED
    BY <2>1, <2>2
<1>6. CASE StartChannel
  <2>1. /\ pwm' = [pwm EXCEPT ![i].mode = TRUE, ![i].en = TRUE]
        /\ i \in Channels /\ pc' = "drive"
        /\ pwm[i].high = HighTicks(pulse) /\ pwm[i].low = Cycle - HighTicks(pulse)
        /\ InRange(pulse) /\ pulse \in Nat
    BY <1>6, ServiceAssumption DEF StartChannel, TypeOK
  <2>2. ASSUME NEW c \in Enabled' PROVE
           /\ pwm'[c].mode
           /\ pwm'[c].high >= HighTicks(MinPulse)
           /\ pwm'[c].high <= HighTicks(MaxPulse)
           /\ pwm'[c].low + pwm'[c].high = Cycle
    <3>1. CASE c = i
      BY <2>1, <3>1 DEF TypeOK, Register, InRange, HighTicks, Cycle, MinPulse, MaxPulse
    <3>2. CASE c # i
      BY <2>1, <2>2, <3>2 DEF TypeOK, Register
    <3>. QED
      BY <3>1, <3>2
  <2>. QED
    BY <2>1, <2>2
<1>7. CASE Tick \/ AnyHost \/ UNCHANGED vars
  BY <1>7 DEF Tick, AnyHost, vars, coreVars
<1>8. CASE TripStop \/ InitOutputs \/ DriveFailed
  BY <1>1, <1>8 DEF TripStop, InitOutputs, DriveFailed
<1>9. CASE StopOutputs
  BY <1>1, <1>2, <1>9 DEF StopOutputs
<1>10. CASE Boot \/ Sample \/ TripMark \/ TripCount \/ Fetch
  BY <1>2, <1>10 DEF Boot, Sample, TripMark, TripCount, Fetch
<1>11. CASE Decode \/ Check \/ DriveDone \/ Publish \/ Acknowledge \/ Trap
  BY <1>2, <1>11 DEF Decode, Check, DriveDone, Publish, Acknowledge, Trap
<1>. QED
  BY <1>3, <1>4, <1>5, <1>6, <1>7, <1>8, <1>9, <1>10, <1>11 DEF Next, Core

-----------------------------------------------------------------------------
(* Which channels are on, and which command is being executed.             *)
LEMMA InitOutput == Init => OutputInv /\ CommandInv
<1>. SUFFICES ASSUME Init PROVE OutputInv /\ CommandInv
  OBVIOUS
<1>1. Enabled = {}
  BY DEF Init, Enabled, ZeroRegister
<1>. QED
  BY <1>1 DEF Init, OutputInv, CommandInv, Driving, Reloading

LEMMA StopAll ==
  ASSUME TypeOK, pwm' = AllStopped PROVE Enabled' = {}
BY DEF TypeOK, AllStopped, Stopped, Register, Enabled

LEMMA NextOutput ==
  TypeOK /\ WaveformInv /\ OutputInv /\ CommandInv /\ [Next]_vars => OutputInv'
<1>. SUFFICES ASSUME TypeOK, WaveformInv, OutputInv, CommandInv, [Next]_vars
              PROVE  OutputInv'
  OBVIOUS
<1>. USE DEF OutputInv, Driving, Reloading
<1>1. CASE Boot \/ Sample \/ Fetch \/ Publish \/ Acknowledge
  BY <1>1 DEF Boot, Sample, Fetch, Publish, Acknowledge, Enabled, coreVars
<1>2. CASE TripStop
  BY <1>2, StopAll DEF TripStop, coreVars
<1>3. CASE TripMark
  BY <1>3 DEF TripMark, Enabled
<1>4. CASE TripCount
  BY <1>4 DEF TripCount, Enabled, coreVars
<1>5. CASE Decode
  BY <1>5 DEF Decode, Enabled
<1>6. CASE Check
  <2>1. UNCHANGED <<pwm, active, initialized, req, i>>
    BY <1>6 DEF Check
  <2>2. pc' \in {"init", "drive"} =>
          req.mask \subseteq Channels /\ req.mask # {} /\ res' = "ok"
    BY <1>6 DEF Check, Validated
  <2>3. /\ pc = "check" /\ i = 0
        /\ pc' \in {"publish", "drive", "init"}
        /\ pc' = "drive" => initialized
        /\ pc' = "init" => ~initialized
    BY <1>6 DEF Check
  <2>4. Enabled' = Enabled
    BY <2>1 DEF Enabled
  <2>5. \A c \in Channels : ~(c < 0)
    BY ServiceAssumption DEF Channels
  <2>. QED
    BY <2>1, <2>2, <2>3, <2>4, <2>5
<1>7. CASE InitOutputs
  <2>1. \A c \in Channels : ~(c < 0)
    BY ServiceAssumption DEF Channels
  <2>2. Enabled' = {}
    BY <1>7, StopAll DEF InitOutputs
  <2>. QED
    BY <1>7, <2>1, <2>2 DEF InitOutputs
<1>8. CASE DriveChannel
  <2>1. CASE i \in req.mask /\ Accepts(target[i]) /\ ~Running(pwm[i], target[i])
    <3>1. /\ pwm' = [pwm EXCEPT ![i] = Stopped(@)]
          /\ pc = "drive" /\ pc' = "low"
          /\ UNCHANGED <<active, initialized, req, res, i>>
      BY <1>8, <2>1 DEF DriveChannel
    <3>2. i \in Channels
      BY <1>8, ServiceAssumption DEF DriveChannel, TypeOK, Channels
    <3>3. Enabled' = Enabled \ {i}
      BY <3>1, <3>2 DEF TypeOK, Stopped, Register, Enabled
    <3>. QED
      BY <2>1, <3>1, <3>2, <3>3, ServiceAssumption DEF Channels, TypeOK
  <2>2. CASE ~(i \in req.mask /\ Accepts(target[i]) /\ ~Running(pwm[i], target[i]))
    <3>1. /\ pc = "drive" /\ pc' = "drive" /\ i' = i + 1
          /\ UNCHANGED <<pwm, active, initialized, req>>
          /\ res' = "ok" => res = "ok"
          /\ res' = "ok" /\ i \in req.mask => Running(pwm[i], target[i])
      BY <1>8, <2>2 DEF DriveChannel
    <3>2. i \in Channels
      BY <1>8, ServiceAssumption DEF DriveChannel, TypeOK, Channels
    <3>3. res' = "ok" /\ i \in req.mask => i \in Enabled
      BY <3>1, <3>2 DEF Running, Enabled
    <3>4. \A c \in Channels : c < i + 1 <=> c < i \/ c = i
      BY <3>2, ServiceAssumption DEF Channels
    <3>5. Enabled' = Enabled
      BY <3>1 DEF Enabled
    <3>. QED
      BY <3>1, <3>3, <3>4, <3>5 DEF Enabled
  <2>. QED
    BY <2>1, <2>2
<1>9. CASE LoadLow \/ LoadHigh
  <2>1. /\ pc \in Reloading /\ pc' \in Reloading
        /\ UNCHANGED <<active, initialized, req, res, i>>
    BY <1>9 DEF LoadLow, LoadHigh, coreVars
  <2>2. i \in Channels
    BY <2>1 DEF WaveformInv
  <2>3. Enabled' = Enabled
    <3>1. CASE LoadLow
      BY <2>2, <3>1 DEF LoadLow, TypeOK, Register, Enabled
    <3>2. CASE LoadHigh
      BY <2>2, <3>2 DEF LoadHigh, TypeOK, Register, Enabled
    <3>. QED
      BY <1>9, <3>1, <3>2
  <2>. QED
    BY <2>1, <2>3
<1>10. CASE StartChannel
  <2>1. /\ pc = "start" /\ pc' = "drive" /\ i' = i + 1
        /\ UNCHANGED <<active, initialized, req, res>>
    BY <1>10 DEF StartChannel
  <2>2. i \in Channels /\ i \in req.mask
    BY <2>1 DEF WaveformInv
  <2>3. Enabled' = Enabled \cup {i}
    BY <1>10, <2>2 DEF StartChannel, TypeOK, Register, Enabled
  <2>4. \A c \in Channels : c < i + 1 <=> c < i \/ c = i
    BY <2>2, ServiceAssumption DEF Channels
  <2>. QED
    BY <2>1, <2>2, <2>3, <2>4 DEF Enabled, TypeOK
<1>11. CASE DriveDone
  <2>1. \A c \in Channels : c < i
    BY <1>11, ServiceAssumption DEF DriveDone, Channels
  <2>2. Enabled = active \cup req.mask
    BY <1>11, <2>1 DEF DriveDone, TypeOK, Enabled
  <2>. QED
    BY <1>11, <2>2 DEF DriveDone, Enabled
<1>12. CASE DriveFailed
  BY <1>12, StopAll DEF DriveFailed
<1>13. CASE StopOutputs
  <2>1. Enabled' = {}
    BY <1>13, StopAll DEF StopOutputs, Enabled
  <2>. QED
    BY <1>13, <2>1 DEF StopOutputs
<1>14. CASE Trap
  BY <1>14 DEF Trap, coreVars, Enabled
<1>15. CASE Tick \/ AnyHost \/ UNCHANGED vars
  BY <1>15 DEF Tick, AnyHost, vars, coreVars, Enabled
<1>. QED
  BY <1>1, <1>2, <1>3, <1>4, <1>5, <1>6, <1>7, <1>8, <1>9, <1>10, <1>11,
     <1>12, <1>13, <1>14, <1>15 DEF Next, Core

LEMMA NextCommand ==
  TypeOK /\ OutputInv /\ CommandInv /\ [Next]_vars => CommandInv'
<1>. SUFFICES ASSUME TypeOK, OutputInv, CommandInv, [Next]_vars
              PROVE  CommandInv'
  OBVIOUS
<1>. USE DEF CommandInv, Driving, Reloading
<1>1. CASE Boot \/ Sample \/ Fetch \/ Publish
  BY <1>1 DEF Boot, Sample, Fetch, Publish, coreVars
<1>2. CASE TripStop \/ TripMark \/ TripCount
  BY <1>2 DEF TripStop, TripMark, TripCount, coreVars
<1>3. CASE Decode
  BY <1>3 DEF Decode, TypeOK
<1>4. CASE Check \/ InitOutputs
  BY <1>4 DEF Check, InitOutputs
<1>5. CASE DriveChannel
  BY <1>5 DEF DriveChannel
<1>6. CASE LoadLow \/ LoadHigh \/ StartChannel
  BY <1>6 DEF LoadLow, LoadHigh, StartChannel, coreVars
<1>7. CASE DriveDone \/ DriveFailed \/ StopOutputs
  BY <1>7 DEF DriveDone, DriveFailed, StopOutputs
<1>8. CASE Acknowledge
  BY <1>8 DEF Acknowledge, NoRequest
<1>9. CASE Trap
  BY <1>9 DEF Trap, coreVars
<1>10. CASE Tick \/ AnyHost \/ UNCHANGED vars
  BY <1>10 DEF Tick, AnyHost, vars, coreVars
<1>. QED
  BY <1>1, <1>2, <1>3, <1>4, <1>5, <1>6, <1>7, <1>8, <1>9, <1>10 DEF Next, Core

-----------------------------------------------------------------------------
(* Sequence numbers and the published words.                               *)
LEMMA NextSequence ==
  TypeOK /\ SequenceInv /\ [Next]_vars => SequenceInv'
<1>. SUFFICES ASSUME TypeOK, SequenceInv, [Next]_vars PROVE SequenceInv'
  OBVIOUS
<1>. USE DEF SequenceInv, Processing, Reloading, hostVars
<1>1. CASE Boot \/ Sample \/ TripStop \/ TripMark \/ TripCount
  BY <1>1 DEF Boot, Sample, TripStop, TripMark, TripCount, coreVars, pageVars
<1>2. CASE Fetch
  BY <1>2, ServiceAssumption DEF Fetch, TypeOK, pageVars
<1>3. CASE Decode
  BY <1>3 DEF Decode, TypeOK, pageVars
<1>4. CASE Check \/ InitOutputs \/ DriveChannel
  BY <1>4 DEF Check, InitOutputs, DriveChannel, pageVars
<1>5. CASE LoadLow \/ LoadHigh \/ StartChannel
  BY <1>5 DEF LoadLow, LoadHigh, StartChannel, coreVars, pageVars
<1>6. CASE DriveDone \/ DriveFailed \/ StopOutputs \/ Publish
  BY <1>6 DEF DriveDone, DriveFailed, StopOutputs, Publish, coreVars
<1>7. CASE Acknowledge
  BY <1>7 DEF Acknowledge
<1>8. CASE Trap
  BY <1>8 DEF Trap, coreVars
<1>9. CASE AnyHost
  <2>1. seq' >= seq /\ seq' \in Nat
    BY <1>9, ServiceAssumption
       DEF AnyHost, HostOp, HostMask, HostTarget, HostLease, HostSubmit, TypeOK
  <2>2. UNCHANGED <<ack, pc, req>>
    BY <1>9 DEF AnyHost, pageVars, coreVars
  <2>. QED
    BY <2>1, <2>2, ServiceAssumption DEF TypeOK
<1>10. CASE Tick \/ UNCHANGED vars
  BY <1>10 DEF Tick, vars, coreVars, pageVars
<1>. QED
  BY <1>1, <1>2, <1>3, <1>4, <1>5, <1>6, <1>7, <1>8, <1>9, <1>10 DEF Next, Core

LEMMA NextPublish ==
  OutputInv /\ CommandInv /\ PublishInv /\ [Next]_vars => PublishInv'
<1>. SUFFICES ASSUME OutputInv, CommandInv, PublishInv, [Next]_vars
              PROVE  PublishInv'
  OBVIOUS
<1>. USE DEF PublishInv
<1>1. CASE Boot \/ Sample \/ Fetch
  BY <1>1 DEF Boot, Sample, Fetch, coreVars, pageVars, Tripping
<1>2. CASE TripStop \/ TripMark \/ TripCount
  BY <1>2 DEF TripStop, TripMark, TripCount, coreVars, pageVars, OutputInv
<1>3. CASE Decode \/ Check \/ InitOutputs \/ DriveChannel
  BY <1>3 DEF Decode, Check, InitOutputs, DriveChannel, pageVars
<1>4. CASE LoadLow \/ LoadHigh \/ StartChannel
  BY <1>4 DEF LoadLow, LoadHigh, StartChannel, coreVars, pageVars
<1>5. CASE DriveDone
  BY <1>5 DEF DriveDone, OutputInv, Driving
<1>6. CASE DriveFailed \/ StopOutputs
  BY <1>6 DEF DriveFailed, StopOutputs
<1>7. CASE Publish \/ Acknowledge
  BY <1>7 DEF Publish, Acknowledge, coreVars
<1>8. CASE Trap
  BY <1>8 DEF Trap, coreVars
<1>9. CASE Tick \/ AnyHost \/ UNCHANGED vars
  BY <1>9 DEF Tick, AnyHost, vars, coreVars, pageVars
<1>. QED
  BY <1>1, <1>2, <1>3, <1>4, <1>5, <1>6, <1>7, <1>8, <1>9 DEF Next, Core

-----------------------------------------------------------------------------
(* Time. The timer is read modulo TimerMod; as long as a lease plus a loop *)
(* pass is shorter than one wrap, the wrapped difference is the real one.  *)
LEMMA SinceTick ==
  ASSUME TypeOK, Tick, NEW t \in 0 .. TimerMod - 1,
         Since(clock, t) < TimerMod - 1
  PROVE  Since(clock', t) = Since(clock, t) + 1
BY ServiceAssumption DEF TypeOK, Tick, Since

LEMMA NextTime ==
  TypeOK /\ OutputInv /\ CommandInv /\ TimeInv /\ [Next]_vars => TimeInv'
<1>. SUFFICES ASSUME TypeOK, OutputInv, CommandInv, TimeInv, [Next]_vars
              PROVE  TimeInv'
  OBVIOUS
<1>. USE DEF TimeInv, Halted, Tripping
<1>1. CASE Boot
  BY <1>1 DEF Boot, CommandInv, coreVars, timeVars
<1>2. CASE Sample
  BY <1>2, ServiceAssumption DEF Sample, TypeOK, Since
<1>3. CASE TripStop \/ TripMark \/ TripCount
  BY <1>3 DEF TripStop, TripMark, TripCount, coreVars, timeVars, OutputInv
<1>4. CASE Fetch \/ Decode \/ Check \/ InitOutputs \/ DriveChannel
  BY <1>4 DEF Fetch, Decode, Check, InitOutputs, DriveChannel, timeVars
<1>5. CASE LoadLow \/ LoadHigh \/ StartChannel
  BY <1>5 DEF LoadLow, LoadHigh, StartChannel, coreVars, timeVars
<1>6. CASE DriveDone
  BY <1>6, ServiceAssumption DEF DriveDone, TypeOK
<1>7. CASE DriveFailed \/ StopOutputs
  BY <1>7 DEF DriveFailed, StopOutputs, timeVars
<1>8. CASE Publish \/ Acknowledge
  BY <1>8 DEF Publish, Acknowledge, coreVars, timeVars
<1>9. CASE Trap
  BY <1>9 DEF Trap
<1>10. CASE Tick
  <2>1. UNCHANGED <<pc, now, last, active>>
    BY <1>10 DEF Tick, coreVars
  <2>2. pc \notin Halted => elapsed < MaxLoop /\ elapsed' = elapsed + 1
    BY <1>10 DEF Tick
  <2>3. pc \notin Halted \cup {"sample"} => Since(clock', now) = elapsed'
    BY <1>10, <2>2, SinceTick, ServiceAssumption DEF TypeOK
  <2>4. active # {} /\ pc \notin Halted \cup Tripping =>
          age' = age + 1 /\ Since(clock', last) = age'
    BY <1>10, <2>2, SinceTick, ServiceAssumption DEF Tick, TypeOK, Min, AgeCap
  <2>5. age' <= age + 1 /\ age' \in Nat
    BY <1>10, ServiceAssumption DEF Tick, TypeOK, Min, AgeCap
  <2>. QED
    BY <2>1, <2>2, <2>3, <2>4, <2>5, ServiceAssumption DEF TypeOK
<1>11. CASE AnyHost \/ UNCHANGED vars
  BY <1>11 DEF AnyHost, vars, coreVars, timeVars
<1>. QED
  BY <1>1, <1>2, <1>3, <1>4, <1>5, <1>6, <1>7, <1>8, <1>9, <1>10, <1>11
     DEF Next, Core

-----------------------------------------------------------------------------
(* The conjunction is inductive.                                           *)
LEMMA InitIInv == Init => IInv
<1>. SUFFICES ASSUME Init PROVE IInv
  OBVIOUS
<1>1. SequenceInv
  BY DEF Init, SequenceInv, Processing, Reloading
<1>2. PublishInv
  BY DEF Init, PublishInv
<1>3. TimeInv
  BY DEF Init, TimeInv, Halted
<1>. QED
  BY <1>1, <1>2, <1>3, InitType, InitWaveform, InitOutput DEF IInv

LEMMA NextIInv == IInv /\ [Next]_vars => IInv'
BY NextType, NextWaveform, NextOutput, NextCommand, NextSequence,
   NextPublish, NextTime DEF IInv

(* Every reachable state of the service satisfies the invariant.           *)
THEOREM Invariance == Spec => []IInv
BY InitIInv, NextIInv, PTL DEF Spec

(* All variables keep their types; in particular no register value is the  *)
(* result of a wrapped unsigned subtraction.                               *)
THEOREM TypeCorrect == Spec => []TypeOK
BY Invariance, PTL DEF IInv

(* Whatever the host writes and whenever, an enabled channel carries one   *)
(* whole legal waveform (pwm_us_extension.c.inc).                          *)
THEOREM WaveformsAreSafe == Spec => []SafeWaveform
<1>1. IInv => SafeWaveform
  BY DEF IInv, WaveformInv
<1>. QED
  BY <1>1, Invariance, PTL

(* Between passes exactly the channels of the active mask are on           *)
(* (servo_service_step).                                                   *)
THEOREM BookkeepingIsHardware == Spec => []ActiveIsHardware
<1>1. IInv => ActiveIsHardware
  BY DEF IInv, OutputInv, ActiveIsHardware, Driving, Reloading
<1>. QED
  BY <1>1, Invariance, PTL

LEMMA InvLeases == IInv => LeaseBounded
<1>. SUFFICES ASSUME IInv, pc # "trapped", NEW c \in Enabled
              PROVE  \/ c \in active /\ age <= Timeout - 1 + 2 * MaxLoop
                     \/ c \in req.mask /\ pc \in Driving
  BY DEF LeaseBounded
<1>1. c \in active \/ (c \in req.mask /\ pc \in Driving)
  BY DEF IInv, OutputInv
<1>2. c \in active => age <= Timeout - 1 + 2 * MaxLoop
  BY ServiceAssumption DEF IInv, TypeOK, TimeInv, CommandInv, Halted
<1>. QED
  BY <1>1, <1>2

(* The watchdog bounds every output's life, for every timer width, limit   *)
(* and loop time with Timeout + MaxLoop <= TimerMod                        *)
(* (servo_service.h, the test of now - last).                              *)
THEOREM OutputsAreLeased == Spec => []LeaseBounded
BY InvLeases, Invariance, PTL

(* A trip is due a pass after the sample that sees the limit.              *)
LEMMA TwoPasses ==
  ASSUME NEW n \in Nat, NEW e \in Nat, e <= MaxLoop,
         n <= Timeout - 1 + e \/ n <= Timeout - 1 + MaxLoop + e
  PROVE  n <= Timeout - 1 + 2 * MaxLoop
BY ServiceAssumption

(* The abstract state: time runs in Driving against the pass, elsewhere    *)
(* against the lease.                                                      *)
LEMMA StepRefines ==
  ASSUME IInv, IInv', [Next]_vars
  PROVE  [Outputs!OutputNext]_(Outputs!outputVars)
<1>. USE DEF Outputs!OutputNext, Outputs!outputVars
<1>0. /\ elapsed \in 0 .. MaxLoop /\ age \in 0 .. AgeCap
      /\ elapsed' \in 0 .. MaxLoop /\ age' \in 0 .. AgeCap
      /\ AgeCap = (Timeout - 1 + 2 * MaxLoop) + 1
  BY ServiceAssumption DEF IInv, TypeOK, AgeCap
<1>1. ASSUME UNCHANGED <<Enabled, pc \in Driving, pc # "trapped", age, elapsed>>
      PROVE  UNCHANGED Outputs!outputVars
  BY <1>1
<1>2. CASE Boot \/ TripMark \/ TripCount \/ Fetch \/ Decode \/ Publish
             \/ Acknowledge \/ AnyHost \/ UNCHANGED vars
  <2>1. UNCHANGED <<Enabled, age, elapsed>>
    BY <1>2 DEF Boot, TripMark, TripCount, Fetch, Decode, Publish, Acknowledge,
         AnyHost, vars, timeVars, Enabled
  <2>2. UNCHANGED <<pc \in Driving, pc # "trapped">>
    BY <1>2 DEF Boot, TripMark, TripCount, Fetch, Decode, Publish, Acknowledge,
         AnyHost, vars, Driving, Reloading
  <2>. QED
    BY <1>1, <2>1, <2>2
<1>3. CASE Sample
  BY <1>3 DEF Sample, Enabled, Driving, Reloading
<1>4. CASE TripStop
  <2>1. Enabled' = {}
    BY <1>4, StopAll DEF TripStop, IInv
  <2>. QED
    BY <1>0, <1>4, <2>1 DEF TripStop, timeVars, Driving, Reloading, Outputs!AllOff
<1>5. CASE Check
  BY <1>0, <1>5
     DEF Check, timeVars, Enabled, Driving, Reloading, Outputs!BeginSetting
<1>6. CASE InitOutputs
  <2>1. Enabled = {} /\ Enabled' = {}
    BY <1>6, StopAll DEF InitOutputs, IInv, OutputInv
  <2>. QED
    BY <1>0, <1>6, <2>1
       DEF InitOutputs, timeVars, Driving, Reloading, Outputs!BeginSetting
<1>7. CASE DriveChannel \/ LoadLow \/ LoadHigh \/ StartChannel
  <2>1. /\ pc \in Driving /\ pc' \in Driving /\ pc # "trapped" /\ pc' # "trapped"
        /\ UNCHANGED <<age, elapsed>>
    BY <1>7 DEF DriveChannel, LoadLow, LoadHigh, StartChannel, coreVars,
         timeVars, Driving, Reloading
  <2>2. i \in Channels
    <3>1. CASE DriveChannel
      BY <3>1, ServiceAssumption DEF DriveChannel, IInv, TypeOK, Channels
    <3>2. CASE LoadLow \/ LoadHigh \/ StartChannel
      BY <3>2 DEF LoadLow, LoadHigh, StartChannel, IInv, WaveformInv, Reloading
    <3>. QED
      BY <1>7, <3>1, <3>2
  <2>3. \A c \in Channels : c # i => pwm'[c] = pwm[c]
    BY <1>7, <2>2 DEF DriveChannel, LoadLow, LoadHigh, StartChannel, IInv, TypeOK
  <2>4. Enabled' \in {Enabled \ {i}, Enabled \cup {i}}
    BY <2>2, <2>3 DEF Enabled
  <2>5. Outputs!Switch(i)
    BY <2>1, <2>4 DEF Outputs!Switch
  <2>. QED
    BY <2>2, <2>5
<1>8. CASE DriveDone
  BY <1>8 DEF DriveDone, Enabled, Driving, Reloading, Outputs!Renew
<1>9. CASE DriveFailed
  <2>1. Enabled' = {}
    BY <1>9, StopAll DEF DriveFailed, IInv
  <2>. QED
    BY <1>0, <1>9, <2>1 DEF DriveFailed, timeVars, Driving, Reloading, Outputs!AllOff
<1>10. CASE StopOutputs
  <2>1. Enabled' = {}
    BY <1>10, StopAll DEF StopOutputs, IInv, OutputInv, Enabled
  <2>. QED
    BY <1>0, <1>10, <2>1 DEF StopOutputs, timeVars, Driving, Reloading, Outputs!AllOff
<1>11. CASE Trap
  BY <1>0, <1>11
     DEF Trap, timeVars, Enabled, Driving, Reloading, Outputs!CoreDies
<1>12. CASE Tick
  <2>1. UNCHANGED <<Enabled, pc>>
    BY <1>12 DEF Tick, Enabled
  <2>2. CASE pc \in Driving
    <3>1. elapsed < MaxLoop /\ elapsed' = elapsed + 1
      BY <1>12, <2>2 DEF Tick, Halted, Driving, Reloading
    <3>. QED
      BY <1>0, <2>1, <2>2, <3>1 DEF Outputs!TimePasses
  <2>3. CASE pc \notin Driving /\ age' = age
    BY <2>1, <2>3
  <2>4. CASE pc \notin Driving /\ age' # age
    <3>1. age' = age + 1
      BY <1>0, <1>12, <2>4 DEF Tick, Min
    <3>2. pc # "trapped" /\ Enabled # {} => age' <= Timeout - 1 + 2 * MaxLoop
      <4>. SUFFICES ASSUME pc # "trapped", Enabled # {}
                    PROVE  age' <= Timeout - 1 + 2 * MaxLoop
        OBVIOUS
      <4>1. active' # {} /\ pc' \notin Halted
        BY <2>1, <2>4 DEF IInv, OutputInv, CommandInv, Halted
      <4>2. age' <= Timeout - 1 + elapsed' \/ age' <= Timeout - 1 + MaxLoop + elapsed'
        BY <4>1 DEF IInv, TimeInv
      <4>3. /\ Timeout \in Nat /\ MaxLoop \in Nat
            /\ elapsed' \in Nat /\ elapsed' <= MaxLoop /\ age' \in Nat
        BY <1>0, ServiceAssumption DEF AgeCap
      <4>. QED
        BY <4>2, <4>3, TwoPasses
    <3>3. age < (IF pc # "trapped" /\ Enabled # {}
                   THEN Timeout - 1 + 2 * MaxLoop ELSE age + 1)
      BY <1>0, <3>1, <3>2, ServiceAssumption
    <3>. QED
      BY <2>1, <2>4, <3>1, <3>3 DEF Outputs!TimePasses
  <2>. QED
    BY <2>2, <2>3, <2>4
<1>. QED
  BY <1>2, <1>3, <1>4, <1>5, <1>6, <1>7, <1>8, <1>9, <1>10, <1>11, <1>12
     DEF Next, Core

(* The service implements the abstract lease of its outputs, for every     *)
(* timer width, limit and loop time (servo_service_step).                  *)
THEOREM ServiceImplementsLease == Spec => ImplementsOutputLease
<1>1. Init => Outputs!OutputInit
  BY DEF Init, Outputs!OutputInit, Enabled, ZeroRegister, Driving, Reloading
<1>2. IInv /\ IInv' /\ [Next]_vars => [Outputs!OutputNext]_(Outputs!outputVars)
  BY StepRefines
<1>. QED
  BY <1>1, <1>2, Invariance, PTL DEF Spec, ImplementsOutputLease, Outputs!OutputSpec

(* What every implementation of that gains: no output is on longer than    *)
(* its lease, neither in a setting nor after one (module OutputLease).     *)
THEOREM LeaseKept == ImplementsOutputLease => []Outputs!Leased
<1>1. Outputs!OutputInit => Outputs!LeasedInv
  BY ServiceAssumption DEF Outputs!OutputInit, Outputs!Leased, Outputs!LeasedInv
<1>2. Outputs!LeasedInv /\ [Outputs!OutputNext]_(Outputs!outputVars) => Outputs!LeasedInv'
  BY ServiceAssumption
     DEF Outputs!Leased, Outputs!LeasedInv, Outputs!OutputNext,
         Outputs!outputVars, Outputs!BeginSetting, Outputs!Switch,
         Outputs!Renew, Outputs!AllOff, Outputs!TimePasses, Outputs!CoreDies
<1>3. Outputs!LeasedInv => Outputs!Leased
  BY DEF Outputs!LeasedInv
<1>. QED
  BY <1>1, <1>2, <1>3, PTL DEF ImplementsOutputLease, Outputs!OutputSpec

LEMMA InvAnswers == IInv => AnswerIsTruth
<1>. SUFFICES ASSUME IInv, ack = seq, pc \notin Tripping \cup {"boot", "trapped"}
              PROVE  /\ shownActive = Enabled
                     /\ initialized => shown = pwm
                     /\ mode = "driving" <=> Enabled # {}
  BY DEF AnswerIsTruth
<1>1. pc \in {"sample", "fetch", "parked"}
  BY ServiceAssumption
     DEF IInv, SequenceInv, TypeOK, PCs, Halted
<1>2. Enabled = active
  BY <1>1 DEF IInv, OutputInv, Driving, Reloading
<1>. QED
  BY <1>1, <1>2 DEF IInv, PublishInv

(* An acknowledged host reads the truth about the hardware                 *)
(* (servo_service.h, the publication before the fence).                    *)
THEOREM AnswersAreTrue == Spec => []AnswerIsTruth
BY InvAnswers, Invariance, PTL

(* A parked core drives nothing.                                           *)
THEOREM ParkedDrivesNothing == Spec => []ParkedIsOff
<1>1. IInv => ParkedIsOff
  BY DEF IInv, OutputInv, CommandInv, ParkedIsOff, Driving, Reloading
<1>. QED
  BY <1>1, Invariance, PTL

(* Repeating a SET never interrupts a running channel                      *)
(* (pwm_us_extension.c.inc:18).                                            *)
THEOREM RepeatsAreSmooth == Spec => NoNeedlessReload
<1>1. IInv /\ [Next]_vars =>
        [\A c \in Channels :
           pc = "drive" /\ i = c /\ pwm[c].en /\ ~pwm'[c].en
             => pwm[c].high # HighTicks(pulse')]_vars
  <2>. SUFFICES ASSUME IInv, Next, NEW c \in Channels,
                       pc = "drive", i = c, pwm[c].en, ~pwm'[c].en
                PROVE  pwm[c].high # HighTicks(pulse')
    OBVIOUS
  <2>1. DriveChannel
    <3>1. i # NumChannels
      BY ServiceAssumption DEF Channels
    <3>2. UNCHANGED pwm \/ DriveChannel
      BY <3>1 DEF Next, Core, Boot, Sample, TripStop, TripMark, TripCount,
         Fetch, Decode, Check, InitOutputs, LoadLow, LoadHigh, StartChannel,
         DriveDone, DriveFailed, StopOutputs, Publish, Acknowledge, Trap,
         Tick, AnyHost
    <3>. QED
      BY <3>2
  <2>2. ~Running(pwm[c], target[c]) /\ pulse' = target[c]
    BY <2>1 DEF DriveChannel
  <2>3. pwm[c].mode /\ pwm[c].low = Cycle - pwm[c].high
    BY DEF IInv, TypeOK, WaveformInv, SafeWaveform, Enabled, Register, Cycle
  <2>. QED
    BY <2>2, <2>3 DEF Running
<1>. QED
  BY <1>1, Invariance, PTL DEF Spec, NoNeedlessReload
=============================================================================
